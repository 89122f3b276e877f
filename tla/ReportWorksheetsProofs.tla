------------------------ MODULE ReportWorksheetsProofs ------------------------
(***************************************************************************)
(* For every request, every set of events and every number of runs: what   *)
(* a ready report has, that the worksheets made of the same events agree,  *)
(* that no temporary file and no cached result outlives the report, and    *)
(* why a report that met no fault may fail.                                *)
(*                                                                         *)
(* The inductive invariant follows a worksheet from the retrieval of its   *)
(* rows, through redis, the spool and the pages of a survey, to the file.  *)
(* For the failures, it also follows the names that a workbook has given   *)
(* and the number of contacts that a walk has passed.                      *)
(***************************************************************************)
EXTENDS ReportWorksheets, TLAPS, WellFoundedInduction, FiniteSetTheorems

Steps == {"idle", "share", "build", "widgets", "write", "mail"}
Kinds == {"events", "survey", "summary", "unique", "returning"}

\* How often each of some events was found.
RowSets == UNION {[s -> Nat] : s \in SUBSET Fact}

Items == [section: Sections \cup {"custom", "crosstab"}, widget: Nat]
Names ==
    {<<s, NoRest, 0>> : s \in Sections \cup {"unique", "returning"}}
    \cup {plan.widgets[w].name : w \in 1..Len(plan.widgets)}
SheetRecords ==
    [item: Items, kind: Kinds, name: Names, read: BOOLEAN,
     rows: RowSets, urns: SUBSET Contacts]
Keys == [key: EventKeys, filter: {"none", "ai", "human", "agent", "op_field"}]
Walks == [page: Nat \ {0}, after: Nat, rows: RowSets]
\* (Of the names of a workbook only their number matters.)
RunRecords(names) ==
    [step: Steps, streaming: BOOLEAN, flags: SUBSET {"contacts", "urns"}, todo: SUBSET Items,
     sheets: Seq(SheetRecords), written: Nat, names: {names}, shared: RowSets,
     walk: Walks, keys: SUBSET Keys]

\* The variables are what they are said to be, and a contact answers after another.
TypeInv ==
    /\ TypeOK /\ Accepted(plan) /\ \A f \in facts : floor[f] <= lake[f]
    /\ flow \in [Surveys -> {"flow1", "flow2"}]
    /\ DOMAIN docs \subseteq Contacts
    /\ docs \in [DOMAIN docs -> [at: 1..(Cardinality(Contacts) + MaxMoves),
                                 answer: {"plain", "odd", "blank"}]]
    /\ \A c, d \in DOMAIN docs : docs[c].at = docs[d].at => c = d
    /\ run \in RunRecords(run.names) /\ IsFiniteSet(run.names)
    /\ redis \in [DOMAIN redis -> RowSets] /\ DOMAIN redis \subseteq Keys
    /\ report \in Seq(SheetRecords)

\* Where a report stands: nothing is kept before the first run, a ready report is at rest.
StatusInv ==
    /\ run.step = "idle" => run = NoRun
    /\ runs = 0 <=> status = "PENDING"
    /\ runs = 0 => run.step = "idle" /\ redis = NoRows /\ disk = {}
    /\ status = "READY" => run.step = "idle"

\* What is left to build: sections, then widgets.
TodoInv ==
    /\ run.step \in {"share", "build"} => run.todo \subseteq {Item(s, 0) : s \in plan.sections}
    /\ run.step = "share" => /\ run.todo = {Item(s, 0) : s \in plan.sections}
                             /\ run.sheets = <<>> /\ plan.sections \cap Classified # {}
    /\ run.step = "widgets" =>
           run.todo \subseteq {Item(plan.widgets[w].kind, w) : w \in 1..Len(plan.widgets)}
    /\ run.step \in {"idle", "write", "mail"} => run.todo = {}
    /\ run.step \notin {"write", "mail"} => run.written = 0
    /\ run.step = "mail" => run.written = Len(run.sheets)

\* Files are those of the run at work, or of one that was cut short.
DiskInv ==
    \A f \in disk : f \in excused \/ (run.step # "idle" /\ f[2] = runs)

\* What the run has read from redis or written there is noted, and so are the keys of the
\* surveys that are built.
KeysInv ==
    run.step # "idle" =>
        /\ runs = 1 => DOMAIN redis \subseteq run.keys
        /\ run.step # "share" =>
              \A s \in plan.sections \cap Surveys : Item(s, 0) \in run.todo \/ Key(s) \in run.keys

-----------------------------------------------------------------------------
(* Rows.                                                                   *)

\* What a retrieval of events gives, in this run or an earlier one.
Found(q, rows) ==
    /\ DOMAIN rows = {f \in facts : Answers(q, f)}
    /\ \A f \in DOMAIN rows : floor[f] <= rows[f] /\ rows[f] <= lake[f]

\* What a walk over the contacts of a survey gives, with its blanks.
WalkRows(s, rows) ==
    /\ \A f \in DOMAIN rows : rows[f] = 1 /\ Included(s, f.kind)
    /\ \A f, g \in DOMAIN rows : f.urn = g.urn => f = g
WalkFound(s, rows) ==
    /\ WalkRows(s, rows)
    /\ \A c \in unmoved : Included(s, docs[c].answer) => Doc(c, Query(s).key) \in DOMAIN rows

RedisInv ==
    \A k \in DOMAIN redis :
        /\ k.filter # "op_field" => Found(k, redis[k])
        /\ \A s \in Surveys : k = Query(s) /\ ~OneFlow => WalkFound(s, redis[k])

\* The events that Resolutions and Contacts share.
Shares == plan.sections \cap Classified # {} /\ (Spooled \/ ~run.streaming)
SharedInv ==
    run.step \notin {"idle", "share"} /\ Shares => Found(ClassificationQuery, run.shared)

\* The walk at work: the contacts it has passed are those above its last.
WalkOK(s) ==
    /\ WalkRows(s, run.walk.rows)
    /\ \A f \in DOMAIN run.walk.rows :
          f.urn \in DOMAIN docs /\ docs[f.urn].at >= run.walk.after
    /\ \A c \in unmoved : Included(s, docs[c].answer) /\ docs[c].at >= run.walk.after
                             => Doc(c, Query(s).key) \in DOMAIN run.walk.rows
WalkInv ==
    \/ run.walk = NoWalk
    \/ /\ run.walk.page > 1
       /\ \E s \in Surveys : Building(Item(s, 0)) /\ WalkOK(s)

-----------------------------------------------------------------------------
(* Worksheets.                                                             *)

ListSections == Sections \ (Surveys \cup {"CONTACTS"})

\* A worksheet has what it should have, or will be read when it is written.
SheetOK(sheet) ==
    /\ sheet.kind = "events" =>
          /\ \/ sheet.item.section = "custom"
             \/ sheet.item.section \in plan.sections \cap ListSections
          /\ sheet.read => ListComplete(sheet.item.section, sheet.rows)
    /\ sheet.kind = "survey" =>
          /\ sheet.item.section \in Surveys
          /\ ~OneFlow => SurveyComplete(sheet.item.section, sheet.rows)
    /\ sheet.kind \in {"unique", "returning"} =>
          /\ sheet.item.section = "CONTACTS" /\ "CONTACTS" \in plan.sections
          /\ ContactsComplete(IF sheet.kind = "unique" THEN 1 ELSE 2, sheet.urns)
    /\ sheet.kind \in {"survey", "summary", "unique", "returning"} => sheet.read

\* The worksheets that share their events have the same ones.
Shared(sheet, rows) ==
    Classified \subseteq plan.sections =>
        /\ sheet.kind = "events" /\ sheet.item.section = "RESOLUTIONS" /\ sheet.read =>
              sheet.rows = KeptRows("RESOLUTIONS", rows)
        /\ sheet.kind = "unique" => sheet.urns = Urns(rows, 1)
        /\ sheet.kind = "returning" => sheet.urns = Urns(rows, 2)

SheetsInv ==
    /\ \A i \in 1..Len(run.sheets) :
          /\ SheetOK(run.sheets[i]) /\ Shared(run.sheets[i], run.shared)
          /\ run.streaming \/ run.sheets[i].read
    /\ \A i \in 1..run.written : run.sheets[i].read

\* A worksheet of the section, or of the widget, is among some.
HasSection(sheets, s) ==
    \/ \E i \in 1..Len(sheets) :
          /\ sheets[i].kind = IF s \in Surveys THEN "survey" ELSE "events"
          /\ sheets[i].item.section = s
    \/ \E i \in 1..Len(sheets) : sheets[i].kind = "summary" /\ sheets[i].item.section = s
    \/ /\ s = "CONTACTS"
       /\ \E i, j \in 1..Len(sheets) : sheets[i].kind = "unique" /\ sheets[j].kind = "returning"
    \/ s = "RESOLUTIONS" /\ \A f \in facts : Answers(Query(s), f) => floor[f] = 0
HasWidget(sheets, w) ==
    \E i \in 1..Len(sheets) : sheets[i].item = Item(plan.widgets[w].kind, w)

DoneInv ==
    /\ run.step \notin {"idle", "share"} =>
          \A s \in plan.sections : Item(s, 0) \in run.todo \/ HasSection(run.sheets, s)
    /\ run.step \in {"widgets", "write", "mail"} =>
          \A w \in live : Item(plan.widgets[w].kind, w) \in run.todo \/ HasWidget(run.sheets, w)

\* What the report mailed has.
ReportInv ==
    status = "READY" =>
        /\ \A i \in 1..Len(report) : SheetOK(report[i]) /\ report[i].read
        /\ \E rows \in RowSets :
              /\ Classified \subseteq plan.sections => DOMAIN rows \subseteq facts
              /\ \A i \in 1..Len(report) : Shared(report[i], rows)
        /\ \A s \in plan.sections : HasSection(report, s)
        /\ \A w \in live : HasWidget(report, w)

IndInv ==
    /\ TypeInv /\ StatusInv /\ TodoInv /\ DiskInv /\ KeysInv /\ RedisInv /\ SharedInv
    /\ WalkInv /\ SheetsInv /\ DoneInv /\ ReportInv /\ ResultsDropped

-----------------------------------------------------------------------------
(* Facts about the request and its queries.                                *)

LEMMA PlanFacts ==
    ASSUME TypeInv
    PROVE  /\ plan.sections \subseteq Sections /\ facts \subseteq Fact
           /\ Len(plan.widgets) \in Nat
           /\ \A w \in 1..Len(plan.widgets) : plan.widgets[w].kind \in {"custom", "crosstab"}
<1>1. plan \in Plans /\ facts \in FactSets[plan] /\ Accepted(plan)
  BY DEF TypeInv, TypeOK
<1>3. /\ Len(plan.widgets) \in Nat
      /\ \A w \in 1..Len(plan.widgets) : plan.widgets[w].kind \in {"custom", "crosstab"}
  BY <1>1, PlansAssumption
<1>4. plan.sections \subseteq Sections /\ facts \subseteq Fact
  BY <1>1, PlansAssumption DEF Accepted
<1> QED BY <1>3, <1>4

LEMMA SectionsFacts ==
    Sections = {"RESOLUTIONS", "TOPICS_AI", "TOPICS_HUMAN", "CSAT_AI", "NPS_AI", "CSAT_HUMAN",
                   "NPS_HUMAN", "TOOL_RESULT", "AGENT_INVOCATION", "CONTACTS", "ADDED_TO_CART",
                   "SEARCH_TERMS"}
<1>1. /\ DOMAIN SectionOrder = 1..12
      /\ SectionOrder[1] = "RESOLUTIONS" /\ SectionOrder[2] = "TOPICS_AI"
      /\ SectionOrder[3] = "TOPICS_HUMAN" /\ SectionOrder[4] = "CSAT_AI"
      /\ SectionOrder[5] = "NPS_AI" /\ SectionOrder[6] = "CSAT_HUMAN"
      /\ SectionOrder[7] = "NPS_HUMAN" /\ SectionOrder[8] = "TOOL_RESULT"
      /\ SectionOrder[9] = "AGENT_INVOCATION" /\ SectionOrder[10] = "CONTACTS"
      /\ SectionOrder[11] = "ADDED_TO_CART" /\ SectionOrder[12] = "SEARCH_TERMS"
  BY DEF SectionOrder
<1>2. \A i \in 1..12 : i = 1 \/ i = 2 \/ i = 3 \/ i = 4 \/ i = 5 \/ i = 6 \/ i = 7 \/ i = 8 \/ i = 9
                       \/ i = 10 \/ i = 11 \/ i = 12
  OBVIOUS
<1>3. Sections = {SectionOrder[i] : i \in 1..12}
  BY <1>1 DEF Sections
<1>5. ASSUME NEW s \in Sections
      PROVE  s \in {"RESOLUTIONS", "TOPICS_AI", "TOPICS_HUMAN", "CSAT_AI", "NPS_AI", "CSAT_HUMAN",
                   "NPS_HUMAN", "TOOL_RESULT", "AGENT_INVOCATION", "CONTACTS", "ADDED_TO_CART",
                   "SEARCH_TERMS"}
  <2>1. PICK i \in 1..12 : s = SectionOrder[i]
    BY <1>3
  <2> QED BY <1>1, <1>2, <2>1
<1>6. ASSUME NEW i \in 1..12 PROVE SectionOrder[i] \in Sections
  BY <1>3
<1>7. /\ 1 \in 1..12 /\ 2 \in 1..12 /\ 3 \in 1..12 /\ 4 \in 1..12 /\ 5 \in 1..12 /\ 6 \in 1..12
      /\ 7 \in 1..12 /\ 8 \in 1..12 /\ 9 \in 1..12 /\ 10 \in 1..12 /\ 11 \in 1..12 /\ 12 \in 1..12
  OBVIOUS
<1> QED BY <1>1, <1>5, <1>6, <1>7

LEMMA QueryFacts ==
    ASSUME flow \in [Surveys -> {"flow1", "flow2"}], NEW s \in Sections \cup {"custom", "crosstab"}
    PROVE  /\ Query(s) \in Keys
           /\ s \in Classified => Query(s) = ClassificationQuery
           /\ s \in Surveys => Query(s) = [key |-> flow[s], filter |-> "op_field"]
           /\ s \notin Surveys => Query(s).filter # "op_field"
<1>1. \/ s \in Classified \/ s \in Topics \/ s \in {"CSAT_AI", "NPS_AI"} \/ s \in Surveys
      \/ s = "TOOL_RESULT" \/ s = "AGENT_INVOCATION" \/ s \in {"ADDED_TO_CART", "SEARCH_TERMS"}
      \/ s \in {"custom", "crosstab"}
  BY SectionsFacts DEF Classified, Topics, Surveys
<1>3. CASE s \in Surveys
  <2>1. Query(s) = [key |-> flow[s], filter |-> "op_field"]
    BY <1>3, SectionsFacts DEF Query, SurveyQuery, Classified, Topics, Surveys
  <2>2. flow[s] \in EventKeys /\ s \notin Classified
    BY <1>3 DEF EventKeys, Surveys, Classified
  <2>3. \A k \in EventKeys : [key |-> k, filter |-> "op_field"] \in Keys
    BY DEF Keys
  <2>4. Query(s) \in Keys
    BY <2>1, <2>2, <2>3
  <2> QED BY <1>3, <2>1, <2>2, <2>4
<1> USE SectionsFacts DEF EventKeys, Query, Keys, Surveys
<1>4. CASE s \in Classified
  <2>1. Query(s) = ClassificationQuery
    BY <1>4 DEF Classified, Topics
  <2>2. ClassificationQuery \in Keys /\ ClassificationQuery.filter = "none" /\ s \notin Surveys
    BY <1>4 DEF Classified, ClassificationQuery
  <2> HIDE DEF Query, Keys
  <2> QED BY <2>1, <2>2
<1>5. CASE s \in Topics
  <2>1. Query(s) = TopicsQuery(s)
    BY <1>5 DEF Classified, Topics
  <2>2. s = "TOPICS_AI" => TopicsQuery(s) = [key |-> "topics", filter |-> "ai"]
    BY DEF TopicsQuery
  <2>3. s = "TOPICS_HUMAN" => TopicsQuery(s) = [key |-> "topics", filter |-> "human"]
    BY DEF TopicsQuery
  <2> HIDE DEF Query
  <2> QED BY <1>5, <2>1, <2>2, <2>3 DEF Classified, Topics
<1>6. CASE s \in {"CSAT_AI", "NPS_AI"}
  BY <1>6 DEF Classified, Topics, ScoreQuery
<1>7. CASE s = "TOOL_RESULT"
  BY <1>7 DEF Classified, Topics, ToolQuery
<1>8. CASE s = "AGENT_INVOCATION"
  BY <1>8 DEF Classified, Topics, InvocationQuery
<1>9. CASE s \in {"ADDED_TO_CART", "SEARCH_TERMS"}
  BY <1>9 DEF Classified, Topics, CommerceQuery
<1>10. CASE s \in {"custom", "crosstab"}
  <2>1. Query(s) = WidgetQuery(s)
    BY <1>10 DEF Classified, Topics
  <2>2. WidgetQuery(s) = [key |-> s, filter |-> "agent"] /\ s \notin Classified /\ s \notin Surveys
    BY <1>10 DEF Classified, WidgetQuery
  <2>3. s \in EventKeys
    BY <1>10
  <2> HIDE DEF Query
  <2> QED BY <2>1, <2>2, <2>3
<1> QED BY <1>1, <1>3, <1>4, <1>5, <1>6, <1>7, <1>8, <1>9, <1>10

\* Sections are built one at a time.
LEMMA OnePlace ==
    ASSUME NEW s \in Sections, NEW t \in Sections, Place(Item(s, 0)) = Place(Item(t, 0))
    PROVE  s = t
<1> DEFINE At(u) == CHOOSE i \in DOMAIN SectionOrder : SectionOrder[i] = u
<1>1. ASSUME NEW u \in Sections PROVE SectionOrder[At(u)] = u
  <2>1. \E i \in DOMAIN SectionOrder : SectionOrder[i] = u
    BY DEF Sections
  <2> QED BY <2>1
<1>2. Place(Item(s, 0)) = At(s) /\ Place(Item(t, 0)) = At(t)
  BY DEF Place, Item
<1> QED BY <1>1, <1>2

LEMMA RowSetsFacts ==
    ASSUME NEW rows
    PROVE  /\ rows \in RowSets <=> /\ rows = [f \in DOMAIN rows |-> rows[f]]
                                   /\ DOMAIN rows \subseteq Fact
                                   /\ \A f \in DOMAIN rows : rows[f] \in Nat
           /\ NoRows \in RowSets
<1>1. ASSUME rows \in RowSets
      PROVE  /\ rows = [f \in DOMAIN rows |-> rows[f]] /\ DOMAIN rows \subseteq Fact
             /\ \A f \in DOMAIN rows : rows[f] \in Nat
  <2>1. PICK s \in SUBSET Fact : rows \in [s -> Nat]
    BY <1>1 DEF RowSets
  <2> QED BY <2>1
<1>2. ASSUME rows = [f \in DOMAIN rows |-> rows[f]], DOMAIN rows \subseteq Fact,
             \A f \in DOMAIN rows : rows[f] \in Nat
      PROVE  rows \in RowSets
  <2>1. rows \in [DOMAIN rows -> Nat] /\ DOMAIN rows \in SUBSET Fact
    BY <1>2
  <2> QED BY <2>1 DEF RowSets
<1>3. NoRows \in RowSets
  <2>1. NoRows \in [{} -> Nat] /\ {} \in SUBSET Fact
    BY DEF NoRows
  <2> QED BY <2>1 DEF RowSets
<1> QED BY <1>1, <1>2, <1>3

-----------------------------------------------------------------------------
(* What the retrievals give goes on being right while events are recorded. *)

\* What every step but the first run of a report leaves as it is.
Steady ==
    /\ UNCHANGED <<plan, flow, facts, floor>>
    /\ \A f \in facts : lake[f] <= lake'[f]
    /\ DOMAIN docs' = DOMAIN docs /\ \A c \in DOMAIN docs : docs[c].at <= docs'[c].at
    /\ unmoved' \subseteq unmoved /\ \A c \in unmoved' : docs'[c] = docs[c]
    /\ live' \subseteq live

LEMMA UrnsGrow ==
    ASSUME NEW a \in RowSets, NEW b \in RowSets, DOMAIN a \subseteq DOMAIN b,
           \A f \in DOMAIN a : a[f] <= b[f], NEW least \in Nat
    PROVE  Urns(a, least) \subseteq Urns(b, least)
<1> SUFFICES ASSUME NEW u \in Urns(a, least) PROVE u \in Urns(b, least)
  OBVIOUS
<1>0. (\A f \in DOMAIN a : a[f] \in Nat) /\ (\A f \in DOMAIN b : b[f] \in Nat)
  BY RowSetsFacts
<1>1. PICK g \in DOMAIN a : /\ u = g.urn
                            /\ a[g] >= least \/ \E h \in DOMAIN a \ {g} : h.urn = g.urn /\ a[g] + a[h] >= least
  BY DEF Urns
<1>2. CASE a[g] >= least
  <2>1. b[g] >= least /\ g \in DOMAIN b
    BY <1>0, <1>1, <1>2
  <2> QED BY <1>1, <2>1 DEF Urns
<1>3. CASE \E h \in DOMAIN a \ {g} : h.urn = g.urn /\ a[g] + a[h] >= least
  <2>1. PICK h \in DOMAIN a \ {g} : h.urn = g.urn /\ a[g] + a[h] >= least
    BY <1>3
  <2>2. b[g] + b[h] >= least /\ g \in DOMAIN b /\ h \in DOMAIN b
    BY <1>0, <1>1, <2>1
  <2> QED BY <1>1, <2>1, <2>2 DEF Urns
<1> QED BY <1>1, <1>2, <1>3

LEMMA UrnsAreContacts ==
    ASSUME NEW rows \in RowSets, NEW least
    PROVE  Urns(rows, least) \subseteq Contacts
BY RowSetsFacts DEF Urns, Fact

LEMMA FoundStays ==
    ASSUME TypeInv, Steady, NEW q, NEW rows \in RowSets, Found(q, rows), TypeInv'
    PROVE  Found(q, rows)'
<1>1. \A f \in DOMAIN rows : /\ floor[f] \in Nat /\ lake[f] \in Nat /\ lake'[f] \in Nat /\ rows[f] \in Nat
                             /\ f \in facts
  BY RowSetsFacts DEF TypeInv, TypeOK, Found, Steady
<1> QED BY <1>1 DEF Found, Steady, Answers

LEMMA WalkFoundStays ==
    ASSUME Steady, NEW s, NEW rows, WalkFound(s, rows)
    PROVE  WalkFound(s, rows)'
<1>1. Query(s)' = Query(s)
  BY DEF Steady, Query, SurveyQuery
<1>2. \A c \in unmoved' : c \in unmoved /\ Doc(c, Query(s).key)' = Doc(c, Query(s).key)
                          /\ docs'[c].answer = docs[c].answer
  BY <1>1 DEF Steady, Doc
<1> QED BY <1>2 DEF WalkFound, WalkRows, Steady

LEMMA ContactsStay ==
    ASSUME TypeInv, TypeInv', Steady, NEW least \in Nat, NEW urns, ContactsComplete(least, urns)
    PROVE  ContactsComplete(least, urns)'
<1> DEFINE before == [f \in {g \in facts : Answers(ClassificationQuery, g)} |-> lake[f]]
           after == [f \in {g \in facts : Answers(ClassificationQuery, g)} |-> lake'[f]]
<1>1. facts \subseteq Fact /\ lake \in [facts -> Nat] /\ lake' \in [facts -> Nat]
  BY PlanFacts DEF TypeInv, TypeOK, Steady
<1>2. before \in RowSets /\ after \in RowSets
  BY <1>1, RowSetsFacts
<1>3. Urns(before, least) \subseteq Urns(after, least)
  <2>1. DOMAIN before \subseteq DOMAIN after /\ \A f \in DOMAIN before : before[f] <= after[f]
    BY DEF Steady
  <2> HIDE DEF before, after
  <2> QED BY <1>2, <2>1, UrnsGrow
<1>4. urns \subseteq Urns(after, least)
  BY <1>3 DEF ContactsComplete
<1>5. facts' = facts /\ floor' = floor
  BY DEF Steady
<1> QED BY <1>4, <1>5 DEF ContactsComplete

LEMMA SheetStays ==
    ASSUME TypeInv, TypeInv', Steady, NEW sheet \in SheetRecords, SheetOK(sheet)
    PROVE  SheetOK(sheet)'
<1>1. /\ sheet.rows \in RowSets /\ facts' = facts /\ plan' = plan
      /\ \A s : Query(s)' = Query(s)
      /\ OneFlow' = OneFlow
  BY DEF SheetRecords, Steady, Query, SurveyQuery, OneFlow
<1>2. ASSUME NEW s, ListComplete(s, sheet.rows) PROVE ListComplete(s, sheet.rows)'
  <2>1. \A f \in DOMAIN sheet.rows : /\ floor[f] \in Nat /\ lake[f] \in Nat /\ lake'[f] \in Nat
                                     /\ sheet.rows[f] \in Nat /\ lake[f] <= lake'[f] /\ floor'[f] = floor[f]
    BY <1>1, <1>2, RowSetsFacts DEF TypeInv, TypeOK, ListComplete, Steady
  <2>2. DOMAIN sheet.rows = {f \in facts' : Answers(Query(s)', f) /\ (s \in DropsOdd => f.kind # "odd")}
    BY <1>1, <1>2 DEF ListComplete
  <2>3. \A f \in DOMAIN sheet.rows : floor'[f] <= sheet.rows[f] /\ sheet.rows[f] <= lake'[f]
    BY <1>2, <2>1 DEF ListComplete
  <2> QED BY <2>2, <2>3 DEF ListComplete
<1>3. ASSUME NEW s, SurveyComplete(s, sheet.rows) PROVE SurveyComplete(s, sheet.rows)'
  <2>1. \A c \in unmoved' : c \in unmoved /\ Doc(c, Query(s).key)' = Doc(c, Query(s).key)
                            /\ docs'[c].answer = docs[c].answer
    BY <1>1 DEF Steady, Doc
  <2> QED BY <1>3, <2>1 DEF SurveyComplete
<1>4. ASSUME NEW n \in {1, 2}, ContactsComplete(n, sheet.urns) PROVE ContactsComplete(n, sheet.urns)'
  BY <1>4, ContactsStay
<1>5. /\ sheet.kind = "events" =>
            /\ \/ sheet.item.section = "custom"
               \/ sheet.item.section \in plan'.sections \cap ListSections
            /\ sheet.read => ListComplete(sheet.item.section, sheet.rows)'
  BY <1>1, <1>2 DEF SheetOK
<1>6. sheet.kind = "survey" =>
          /\ sheet.item.section \in Surveys
          /\ ~OneFlow' => SurveyComplete(sheet.item.section, sheet.rows)'
  BY <1>1, <1>3 DEF SheetOK
<1>7. sheet.kind \in {"unique", "returning"} =>
          /\ sheet.item.section = "CONTACTS" /\ "CONTACTS" \in plan'.sections
          /\ ContactsComplete(IF sheet.kind = "unique" THEN 1 ELSE 2, sheet.urns)'
  BY <1>1, <1>4 DEF SheetOK
<1> QED BY <1>5, <1>6, <1>7 DEF SheetOK

LEMMA SectionsStay ==
    ASSUME Steady, NEW sheets, NEW s, HasSection(sheets, s)
    PROVE  HasSection(sheets, s)'
<1>1. Query(s)' = Query(s)
  BY DEF Steady, Query, SurveyQuery
<1> QED BY <1>1 DEF HasSection, Steady

-----------------------------------------------------------------------------
(* What the worksheets take from the retrievals.                           *)

LEMMA EventsFacts ==
    ASSUME TypeInv, NEW q
    PROVE  Events(q) \in RowSets /\ Found(q, Events(q))
<1>1. facts \subseteq Fact /\ lake \in [facts -> Nat] /\ floor \in [facts -> Nat]
      /\ \A f \in facts : floor[f] <= lake[f]
  BY PlanFacts DEF TypeInv, TypeOK
<1>2. Events(q) \in RowSets
  BY <1>1, RowSetsFacts DEF Events
<1>3. Found(q, Events(q))
  BY <1>1 DEF Events, Found
<1> QED BY <1>2, <1>3

LEMMA KeptFacts ==
    ASSUME NEW s, NEW rows \in RowSets
    PROVE  KeptRows(s, rows) \in RowSets /\ (Found(Query(s), rows) => ListComplete(s, KeptRows(s, rows)))
<1>1. DOMAIN rows \subseteq Fact /\ \A f \in DOMAIN rows : rows[f] \in Nat
  BY RowSetsFacts
<1>2. KeptRows(s, rows) \in RowSets
  BY <1>1, RowSetsFacts DEF KeptRows
<1>3. Found(Query(s), rows) => ListComplete(s, KeptRows(s, rows))
  BY DEF Found, ListComplete, KeptRows
<1> QED BY <1>2, <1>3

LEMMA ContactsFacts ==
    ASSUME TypeInv, NEW rows \in RowSets, Found(ClassificationQuery, rows), NEW least \in Nat
    PROVE  ContactsComplete(least, Urns(rows, least))
<1> DEFINE low == [f \in {g \in facts : Answers(ClassificationQuery, g)} |-> floor[f]]
           high == [f \in {g \in facts : Answers(ClassificationQuery, g)} |-> lake[f]]
<1>1. facts \subseteq Fact /\ lake \in [facts -> Nat] /\ floor \in [facts -> Nat]
  BY PlanFacts DEF TypeInv, TypeOK
<1>2. low \in RowSets /\ high \in RowSets
  BY <1>1, RowSetsFacts
<1>3. /\ DOMAIN low = DOMAIN rows /\ DOMAIN high = DOMAIN rows
      /\ \A f \in DOMAIN rows : low[f] <= rows[f] /\ rows[f] <= high[f]
  BY DEF Found
<1>4. Urns(low, least) \subseteq Urns(rows, least) /\ Urns(rows, least) \subseteq Urns(high, least)
  <2> HIDE DEF low, high
  <2> QED BY <1>2, <1>3, UrnsGrow
<1> QED BY <1>4 DEF ContactsComplete

LEMMA EmptyFacts ==
    ASSUME TypeInv, NEW q, NEW rows \in RowSets, Found(q, rows), Empty(rows)
    PROVE  \A f \in facts : Answers(q, f) => floor[f] = 0
<1>1. \A f \in facts : floor[f] \in Nat
  BY DEF TypeInv, TypeOK
<1>2. \A f \in facts : Answers(q, f) => floor[f] <= 0
  BY DEF Found, Empty
<1> QED BY <1>1, <1>2

LEMMA SurveyFacts ==
    ASSUME NEW s, NEW rows \in RowSets
    PROVE  LET kept == [f \in {g \in DOMAIN rows : g.kind # "blank"} |-> rows[f]]
           IN kept \in RowSets /\ (WalkFound(s, rows) => SurveyComplete(s, kept))
<1> DEFINE kept == [f \in {g \in DOMAIN rows : g.kind # "blank"} |-> rows[f]]
<1>1. DOMAIN rows \subseteq Fact /\ \A f \in DOMAIN rows : rows[f] \in Nat
  BY RowSetsFacts
<1>2. kept \in RowSets
  BY <1>1, RowSetsFacts
<1>3. WalkFound(s, rows) => SurveyComplete(s, kept)
  BY DEF WalkFound, WalkRows, SurveyComplete, Doc
<1> QED BY <1>2, <1>3

-----------------------------------------------------------------------------
(* Steps that leave the run as it is: what happens meanwhile.              *)

LEMMA SameRecords ==
    ASSUME UNCHANGED plan
    PROVE  SheetRecords' = SheetRecords /\ \A n : RunRecords(n)' = RunRecords(n)
BY DEF SheetRecords, Names, RunRecords

LEMMA NoRunFacts ==
    /\ NoRun.step = "idle" /\ NoRun.todo = {} /\ NoRun.sheets = <<>> /\ NoRun.written = 0
    /\ NoRun.names = {} /\ NoRun.walk = NoWalk /\ NoRun \in RunRecords({})
    /\ NoRun \in RunRecords({})'
<1>1. NoWalk \in Walks
  BY RowSetsFacts DEF NoWalk, Walks
<1>2. <<>> \in Seq(SheetRecords) /\ <<>> \in Seq(SheetRecords)' /\ NoRows \in RowSets
  BY RowSetsFacts
<1>3. NoRun \in RunRecords({}) /\ NoRun \in RunRecords({})'
  BY <1>1, <1>2 DEF NoRun, RunRecords, Steps
<1> QED BY <1>3 DEF NoRun

\* Results that were found stay so, and are forgotten only.
LEMMA RedisStays ==
    ASSUME TypeInv, TypeInv', Steady, RedisInv, DOMAIN redis' \subseteq DOMAIN redis,
           \A k \in DOMAIN redis' : redis'[k] = redis[k]
    PROVE  RedisInv'
<1>1. (\A s : Query(s)' = Query(s)) /\ OneFlow' = OneFlow
  BY DEF Steady, Query, SurveyQuery, OneFlow
<1> SUFFICES ASSUME NEW k \in DOMAIN redis'
             PROVE  /\ k.filter # "op_field" => Found(k, redis[k])'
                    /\ \A s \in Surveys : k = Query(s) /\ ~OneFlow => WalkFound(s, redis[k])'
  BY <1>1 DEF RedisInv
<1>2. PICK rows : rows = redis[k]
  OBVIOUS
<1>3. rows \in RowSets /\ redis'[k] = rows
  BY <1>2 DEF TypeInv
<1>4. /\ k.filter # "op_field" => Found(k, rows)
      /\ \A s \in Surveys : k = Query(s) /\ ~OneFlow => WalkFound(s, rows)
  BY <1>2 DEF RedisInv
<1>5. Found(k, rows) => Found(k, rows)'
  BY <1>3, FoundStays
<1>6. \A s : WalkFound(s, rows) => WalkFound(s, rows)'
  BY WalkFoundStays
<1>7. Found(k, rows)' => Found(k, redis[k])'
  BY <1>3 DEF Found, Answers
<1>8. \A s : WalkFound(s, rows)' => WalkFound(s, redis[k])'
  BY <1>3 DEF WalkFound, WalkRows
<1> QED BY <1>4, <1>5, <1>6, <1>7, <1>8

\* A step of another actor.
Around ==
    /\ UNCHANGED <<run, disk, excused, report, runs>> /\ Steady
    /\ DOMAIN redis' \subseteq DOMAIN redis /\ \A k \in DOMAIN redis' : redis'[k] = redis[k]
    /\ redis' = redis \/ runs # 0
    /\ status' = status \/ (status # "PENDING" /\ status' = "FAILED")
    /\ status' = "READY" => UNCHANGED <<status, redis>>

\* Worksheets stay complete, and those of a section stay found.
LEMMA SheetsStay ==
    ASSUME TypeInv, TypeInv', Steady, NEW sheets \in Seq(SheetRecords)
    PROVE  /\ \A i \in 1..Len(sheets) : SheetOK(sheets[i]) => SheetOK(sheets[i])'
           /\ \A rows : \A i \in 1..Len(sheets) : Shared(sheets[i], rows) => Shared(sheets[i], rows)'
           /\ \A s : HasSection(sheets, s) => HasSection(sheets, s)'
           /\ \A w : HasWidget(sheets, w) => HasWidget(sheets, w)'
<1>1. \A i \in 1..Len(sheets) : sheets[i] \in SheetRecords
  OBVIOUS
<1>2. \A i \in 1..Len(sheets) : SheetOK(sheets[i]) => SheetOK(sheets[i])'
  BY <1>1, SheetStays
<1>3. \A rows : \A i \in 1..Len(sheets) : Shared(sheets[i], rows) => Shared(sheets[i], rows)'
  BY DEF Shared, Steady
<1>4. \A s : HasSection(sheets, s) => HasSection(sheets, s)'
  BY SectionsStay
<1>5. \A w : HasWidget(sheets, w) => HasWidget(sheets, w)'
  BY DEF HasWidget, Steady
<1> QED BY <1>2, <1>3, <1>4, <1>5

LEMMA AroundStep ==
    ASSUME IndInv, TypeInv', Around
    PROVE  IndInv'
<1>1. TypeInv /\ Steady /\ run' = run /\ plan' = plan /\ flow' = flow
  BY DEF IndInv, Around, Steady
<1>2. StatusInv'
  BY DEF IndInv, StatusInv, Around
<1>3. TodoInv' /\ DiskInv' /\ KeysInv'
  <2>1. \A s : Key(s)' = Key(s)
    BY <1>1 DEF Key, Query, SurveyQuery
  <2>2. KeysInv'
    BY <1>1, <2>1 DEF IndInv, KeysInv, Around
  <2> QED BY <1>1, <2>2 DEF IndInv, TodoInv, DiskInv, Around
<1>4. RedisInv'
  BY <1>1, RedisStays DEF IndInv, Around
<1>5. PICK r : r = run
  OBVIOUS
<1>6. r.shared \in RowSets /\ r.sheets \in Seq(SheetRecords)
  BY <1>1, <1>5 DEF TypeInv, RunRecords
<1>7. SharedInv'
  BY <1>1, <1>5, <1>6, FoundStays DEF IndInv, SharedInv, Shares, Spooled
<1>8. WalkInv'
  <2>1. ASSUME NEW s \in Surveys, WalkOK(s) PROVE WalkOK(s)'
    <3>1. WalkRows(s, run.walk.rows)'
      BY <1>1, <2>1 DEF WalkOK, WalkRows
    <3>2. DOMAIN docs' = DOMAIN docs /\ \A c \in DOMAIN docs : docs[c].at \in Nat /\ docs'[c].at \in Nat
      BY <1>1 DEF TypeInv, Steady
    <3>3. run.walk.after \in Nat
      BY <1>1 DEF TypeInv, RunRecords, Walks
    <3>4. \A f \in DOMAIN run.walk.rows : f.urn \in DOMAIN docs' /\ docs'[f.urn].at >= run.walk.after
      BY <1>1, <2>1, <3>2, <3>3 DEF WalkOK, Steady
    <3>5. \A c \in unmoved' : c \in unmoved /\ docs'[c] = docs[c] /\ Doc(c, Query(s).key)' = Doc(c, Query(s).key)
      BY <1>1 DEF Steady, Doc, Query, SurveyQuery
    <3>6. \A c \in unmoved' : Included(s, docs'[c].answer) /\ docs'[c].at >= run.walk.after
                                 => Doc(c, Query(s).key)' \in DOMAIN run.walk.rows
      BY <2>1, <3>5 DEF WalkOK
    <3> QED BY <1>1, <3>1, <3>4, <3>6 DEF WalkOK
  <2>2. \A s : Building(Item(s, 0))' = Building(Item(s, 0))
    BY <1>1 DEF Building, Place
  <2> QED BY <1>1, <2>1, <2>2 DEF IndInv, WalkInv
<1>9. SheetsInv'
  BY <1>1, <1>5, <1>6, SheetsStay DEF IndInv, SheetsInv
<1>10. DoneInv'
  BY <1>1, <1>5, <1>6, SheetsStay DEF IndInv, DoneInv, Steady
<1>11. ReportInv' /\ ResultsDropped'
  <2> SUFFICES ASSUME status' = "READY" PROVE ReportInv' /\ ResultsDropped'
    BY DEF ReportInv, ResultsDropped
  <2>1. status = "READY" /\ redis' = redis /\ report' = report /\ runs' = runs
    BY DEF Around
  <2>2. PICK sheets : sheets = report
    OBVIOUS
  <2>3. sheets \in Seq(SheetRecords)
    BY <1>1, <2>2 DEF TypeInv
  <2>4. PICK rows \in RowSets :
            /\ Classified \subseteq plan.sections => DOMAIN rows \subseteq facts
            /\ \A i \in 1..Len(sheets) : Shared(sheets[i], rows)
    BY <2>1, <2>2 DEF IndInv, ReportInv
  <2>5. \A i \in 1..Len(sheets) : SheetOK(sheets[i]) /\ sheets[i].read
    BY <2>1, <2>2 DEF IndInv, ReportInv
  <2>6. /\ \A s \in plan.sections : HasSection(sheets, s)
        /\ \A w \in live : HasWidget(sheets, w)
    BY <2>1, <2>2 DEF IndInv, ReportInv
  <2>7. /\ Classified \subseteq plan'.sections => DOMAIN rows \subseteq facts'
        /\ \A i \in 1..Len(sheets) : Shared(sheets[i], rows)'
    BY <1>1, <2>3, <2>4, SheetsStay DEF Steady
  <2>8. \A i \in 1..Len(sheets) : SheetOK(sheets[i])' /\ sheets[i].read
    BY <1>1, <2>3, <2>5, SheetsStay
  <2>9. /\ \A s \in plan'.sections : HasSection(sheets, s)'
        /\ \A w \in live' : HasWidget(sheets, w)'
    BY <1>1, <2>3, <2>6, SheetsStay DEF Steady
  <2>10. ReportInv'
    BY <2>1, <2>2, <2>7, <2>8, <2>9 DEF ReportInv
  <2>11. ResultsDropped'
    BY <1>1, <2>1 DEF IndInv, ResultsDropped, Key, Query, SurveyQuery
  <2> QED BY <2>10, <2>11
<1> QED BY <1>2, <1>3, <1>4, <1>7, <1>8, <1>9, <1>10, <1>11 DEF IndInv

LEMMA TimesFacts ==
    ASSUME TypeInv
    PROVE  /\ \A f \in facts : lake[f] \in Nat /\ floor[f] \in Nat
           /\ \A c \in DOMAIN docs : docs[c].at \in Nat
BY DEF TypeInv, TypeOK

LEMMA StutterStep ==
    ASSUME IndInv, UNCHANGED vars
    PROVE  IndInv'
<1>1. TypeInv'
  <2>1. SheetRecords' = SheetRecords /\ \A n : RunRecords(n)' = RunRecords(n)
    BY SameRecords DEF vars, world
  <2> QED BY <2>1 DEF IndInv, TypeInv, TypeOK, vars, world, data, ghosts, Accepted
<1>2. Around
  BY TimesFacts DEF IndInv, Around, Steady, vars, world, data, ghosts
<1> QED BY <1>1, <1>2, AroundStep

LEMMA RecordStep ==
    ASSUME IndInv, NEW f \in facts, Record(f)
    PROVE  IndInv'
<1>1. lake' = [lake EXCEPT ![f] = @ + 1] /\ lake \in [facts -> Nat] /\ floor \in [facts -> Nat]
  BY DEF Record, IndInv, TypeInv, TypeOK
<1>2. lake' \in [facts -> Nat] /\ \A g \in facts : lake[g] <= lake'[g] /\ (floor[g] <= lake[g] => floor[g] <= lake'[g])
  BY <1>1
<1>3. TypeInv'
  <2>1. SheetRecords' = SheetRecords /\ \A n : RunRecords(n)' = RunRecords(n)
    BY SameRecords DEF Record, world
  <2> QED BY <1>2, <2>1 DEF IndInv, TypeInv, TypeOK, Record, world, ghosts, Accepted
<1>4. Around
  BY <1>2, TimesFacts DEF IndInv, Around, Steady, Record, world, ghosts
<1> QED BY <1>3, <1>4, AroundStep

LEMMA DeleteWidgetStep ==
    ASSUME IndInv, NEW w \in live, DeleteWidget(w)
    PROVE  IndInv'
<1>1. TypeInv'
  <2>1. SheetRecords' = SheetRecords /\ \A n : RunRecords(n)' = RunRecords(n)
    BY SameRecords DEF DeleteWidget, world
  <2> QED BY <2>1 DEF IndInv, TypeInv, TypeOK, DeleteWidget, world, ghosts, Accepted
<1>2. Around
  BY TimesFacts DEF IndInv, Around, Steady, DeleteWidget, world, ghosts
<1> QED BY <1>1, <1>2, AroundStep

LEMMA InterruptStep ==
    ASSUME IndInv, Interrupt
    PROVE  IndInv'
<1>1. TypeInv'
  <2>1. SheetRecords' = SheetRecords /\ \A n : RunRecords(n)' = RunRecords(n)
    BY SameRecords DEF Interrupt, world
  <2> QED BY <2>1 DEF IndInv, TypeInv, TypeOK, Interrupt, world, data, ghosts, Accepted
<1>2. Around
  BY TimesFacts DEF IndInv, Around, Steady, Interrupt, world, data, ghosts
<1> QED BY <1>1, <1>2, AroundStep

LEMMA SweepStep ==
    ASSUME IndInv, Sweep
    PROVE  IndInv'
<1>1. TypeInv'
  <2>1. SheetRecords' = SheetRecords /\ \A n : RunRecords(n)' = RunRecords(n)
    BY SameRecords DEF Sweep, world
  <2>2. faults' \in 0..MaxFaults
    BY BoundsAssumption DEF Sweep, Fault, IndInv, TypeInv, TypeOK
  <2> QED BY <2>1, <2>2 DEF IndInv, TypeInv, TypeOK, Sweep, world, data, ghosts, Accepted
<1>2. Around
  BY TimesFacts DEF IndInv, Around, Steady, Sweep, world, data, ghosts
<1> QED BY <1>1, <1>2, AroundStep

LEMMA ExpireStep ==
    ASSUME IndInv, NEW k \in DOMAIN redis, Expire(k)
    PROVE  IndInv'
<1>1. redis' = [q \in DOMAIN redis \ {k} |-> redis[q]] /\ redis \in [DOMAIN redis -> RowSets]
      /\ DOMAIN redis \subseteq Keys
  BY DEF Expire, IndInv, TypeInv
<1>2. redis' \in [DOMAIN redis' -> RowSets] /\ DOMAIN redis' \subseteq Keys
  BY <1>1
<1>3. TypeInv'
  <2>1. SheetRecords' = SheetRecords /\ \A n : RunRecords(n)' = RunRecords(n)
    BY SameRecords DEF Expire, world
  <2> QED BY <1>2, <2>1 DEF IndInv, TypeInv, TypeOK, Expire, world, data, ghosts, Accepted
<1>4. runs # 0 /\ status # "READY"
  <2>1. status # "READY"
    BY DEF IndInv, StatusInv, Expire, Open, Ended
  <2>2. runs # 0
    BY DEF IndInv, StatusInv, NoRows
  <2> QED BY <2>1, <2>2
<1>5. Around
  BY <1>1, <1>4, TimesFacts DEF IndInv, Around, Steady, Expire, world, data, ghosts
<1> QED BY <1>3, <1>5, AroundStep

LessThan == {p \in Nat \X Nat : p[1] < p[2]}

LEMMA MinIsLeast ==
    ASSUME NEW S \in SUBSET Nat, S # {}
    PROVE  Min(S) \in S /\ \A y \in S : Min(S) <= y
<1>1. OpToRel(<, Nat) = LessThan
  BY DEF OpToRel, LessThan
<1>2. IsWellFoundedOn(LessThan, Nat)
  BY <1>1, NatLessThanWellFounded
<1>3. PICK x \in S : \A y \in S : ~(<<y, x>> \in LessThan)
  BY <1>2, WFMin
<1>4. \A y \in Nat : y < x => <<y, x>> \in LessThan
  BY DEF LessThan
<1>5. \A y \in S : x <= y
  <2> TAKE y \in S
  <2>1. ~(y < x)
    BY <1>3, <1>4, Zenon
  <2> QED BY <2>1
<1> QED BY <1>5 DEF Min

LEMMA MaxIsGreatest ==
    ASSUME NEW S \in SUBSET Nat, S # {}, NEW bound \in Nat, \A y \in S : y <= bound
    PROVE  Max(S) \in S /\ \A y \in S : y <= Max(S)
<1> DEFINE Mirror == {n \in Nat : bound - n \in S}
<1>1. \A y \in S : bound - y \in Nat /\ bound - (bound - y) = y
  OBVIOUS
<1>2. \A y \in S : bound - y \in Mirror
  BY <1>1
<1>3. Mirror \in SUBSET Nat /\ Mirror # {}
  BY <1>2
<1>4. PICK x \in Mirror : \A n \in Mirror : x <= n
  <2> HIDE DEF Mirror
  <2> QED BY <1>3, MinIsLeast
<1>5. bound - x \in S /\ \A y \in S : y <= bound - x
  BY <1>2, <1>4
<1> QED BY <1>5 DEF Max

LEMMA RunFlowStep ==
    ASSUME IndInv, NEW c \in DOMAIN docs, RunFlow(c)
    PROVE  IndInv'
<1> DEFINE Times == {docs[d].at : d \in DOMAIN docs}
           bound == Cardinality(Contacts) + MaxMoves
<1>1. /\ \A d \in DOMAIN docs : docs[d].at \in 1..bound
      /\ docs \in [DOMAIN docs -> [at: 1..bound, answer: {"plain", "odd", "blank"}]]
      /\ \A d, e \in DOMAIN docs : docs[d].at = docs[e].at => d = e
  BY DEF IndInv, TypeInv
<1>2. bound \in Nat
  BY BoundsAssumption, FS_CardinalityType
<1>3. PICK last : last = Max(Times)
  OBVIOUS
<1>4. last \in Times /\ \A y \in Times : y <= last
  <2>1. Times \in SUBSET Nat /\ Times # {} /\ \A y \in Times : y <= bound
    BY <1>1, <1>2
  <2> HIDE DEF Times, bound
  <2> QED BY <1>2, <1>3, <2>1, MaxIsGreatest
<1>5. /\ last < bound
      /\ \E a \in {"plain", "odd"} : docs' = [docs EXCEPT ![c] = [at |-> last + 1, answer |-> a]]
      /\ unmoved' = unmoved \ {c}
  BY <1>3 DEF RunFlow
<1>6. PICK a \in {"plain", "odd"} : docs' = [docs EXCEPT ![c] = [at |-> last + 1, answer |-> a]]
  BY <1>5
<1>7. last + 1 \in 1..bound /\ \A d \in DOMAIN docs : docs[d].at < last + 1
  <2>1. \A d \in DOMAIN docs : docs[d].at \in Times
    OBVIOUS
  <2>2. last \in Nat /\ \A d \in DOMAIN docs : docs[d].at <= last
    BY <1>1, <1>4, <2>1
  <2> HIDE DEF Times, bound
  <2> QED BY <1>1, <1>2, <1>5, <2>2
<1> HIDE DEF Times, bound
<1>8. /\ DOMAIN docs' = DOMAIN docs /\ docs'[c] = [at |-> last + 1, answer |-> a]
      /\ \A d \in DOMAIN docs : d # c => docs'[d] = docs[d]
  BY <1>6
<1>9. docs' \in [DOMAIN docs -> [at: 1..bound, answer: {"plain", "odd", "blank"}]]
  BY <1>1, <1>6, <1>7
<1>10. \A d, e \in DOMAIN docs : docs'[d].at = docs'[e].at => d = e
  <2>1. \A d \in DOMAIN docs : d # c => docs'[d].at < docs'[c].at
    BY <1>7, <1>8
  <2>2. \A d \in DOMAIN docs : d # c => docs'[d].at \in Nat /\ docs'[c].at \in Nat
    BY <1>1, <1>7, <1>8
  <2> QED BY <1>1, <1>8, <2>1, <2>2
<1>11. TypeInv'
  <2>1. SheetRecords' = SheetRecords /\ \A n : RunRecords(n)' = RunRecords(n)
    BY SameRecords DEF RunFlow, world
  <2> QED BY <1>5, <1>8, <1>9, <1>10, <2>1
          DEF IndInv, TypeInv, TypeOK, RunFlow, world, ghosts, Accepted, bound
<1>12. Around
  <2>1. \A d \in DOMAIN docs : docs[d].at <= docs'[d].at
    BY <1>1, <1>7, <1>8
  <2> QED BY <1>5, <1>8, <2>1, TimesFacts DEF IndInv, Around, Steady, RunFlow, world, ghosts
<1> QED BY <1>11, <1>12, AroundStep

-----------------------------------------------------------------------------
(* Steps that end a run before its mail.                                   *)

FileNames == {"spool", "xlsx", "csv"} \X (1..MaxRuns) \X Nat

\* The run is cut short or fails.
Stopped ==
    /\ run.step # "idle" /\ run' = NoRun
    /\ UNCHANGED <<world, data, floor, runs, interrupted, report>>
    /\ redis' = redis \/ redis' = Forgotten
    /\ status' = status \/ status' = "FAILED"
    /\ faults' = faults \/ Fault
    /\ disk' \subseteq excused' \cap FileNames

LEMMA AtWork ==
    ASSUME IndInv, run.step # "idle"
    PROVE  runs \in 1..MaxRuns /\ status # "PENDING" /\ status # "READY"
BY BoundsAssumption DEF IndInv, TypeInv, TypeOK, StatusInv

LEMMA FaultFacts ==
    ASSUME IndInv, Fault \/ faults' = faults
    PROVE  faults' \in 0..MaxFaults
BY BoundsAssumption DEF Fault, IndInv, TypeInv, TypeOK

LEMMA StoppedStep ==
    ASSUME IndInv, Stopped
    PROVE  IndInv'
<1>1. TypeInv /\ Steady /\ plan' = plan /\ flow' = flow
  BY TimesFacts DEF IndInv, Stopped, Steady, world, data
<1>2. /\ DOMAIN redis' \subseteq DOMAIN redis /\ \A k \in DOMAIN redis' : redis'[k] = redis[k]
      /\ redis' \in [DOMAIN redis' -> RowSets] /\ DOMAIN redis' \subseteq Keys
  BY <1>1 DEF Stopped, Forgotten, TypeInv
<1>3. TypeInv'
  <2>1. SheetRecords' = SheetRecords /\ \A n : RunRecords(n)' = RunRecords(n)
    BY <1>1, SameRecords
  <2>2. /\ run'.step = "idle" /\ run'.written = 0 /\ run'.sheets = <<>> /\ run'.names = {}
        /\ run' \in RunRecords({})
    BY NoRunFacts DEF Stopped
  <2>3. IsFiniteSet(run'.names) /\ Cardinality(run'.names) = 0
    BY <2>2, FS_EmptySet
  <2>4. faults' \in 0..MaxFaults
    BY FaultFacts DEF Stopped
  <2>5. disk' \subseteq {"spool", "xlsx", "csv"} \X (1..MaxRuns) \X Nat
    BY DEF Stopped, FileNames
  <2>6. run' \in RunRecords(run.names)'
    BY <2>1, <2>2
  <2>7. TypeOK'
    BY <1>1, <2>2, <2>3, <2>4, <2>5 DEF TypeInv, TypeOK, Stopped, world, data
  <2> QED BY <1>1, <1>2, <2>1, <2>3, <2>6, <2>7 DEF TypeInv, Stopped, world, data, Accepted
<1>4. runs \in 1..MaxRuns /\ status' # "PENDING" /\ status' # "READY"
  BY AtWork DEF Stopped
<1>5. StatusInv' /\ TodoInv' /\ DiskInv' /\ KeysInv' /\ SharedInv' /\ WalkInv' /\ DoneInv'
  BY <1>4, NoRunFacts
     DEF StatusInv, TodoInv, DiskInv, KeysInv, SharedInv, WalkInv, DoneInv, Stopped
<1>6. RedisInv'
  BY <1>1, <1>2, <1>3, RedisStays DEF IndInv
<1>7. SheetsInv'
  <2>1. 1..Len(run'.sheets) = {} /\ 1..run'.written = {}
    BY NoRunFacts DEF Stopped
  <2> QED BY <2>1 DEF SheetsInv
<1>8. ReportInv' /\ ResultsDropped'
  BY <1>4 DEF ReportInv, ResultsDropped
<1> QED BY <1>3, <1>5, <1>6, <1>7, <1>8 DEF IndInv

LEMMA DieStep ==
    ASSUME IndInv, Die
    PROVE  IndInv'
<1>1. disk \subseteq FileNames
  BY DEF IndInv, TypeInv, TypeOK, FileNames
<1>2. Stopped
  BY <1>1 DEF Die, Stopped
<1> QED BY <1>2, StoppedStep

LEMMA FailStep ==
    ASSUME IndInv, run.step # "idle", NEW left \in SUBSET FileNames, Fail(left),
           Fault \/ UNCHANGED faults
    PROVE  IndInv'
<1>1. disk \subseteq FileNames
  BY DEF IndInv, TypeInv, TypeOK, FileNames
<1>2. disk \ Files \subseteq excused
  BY DEF IndInv, DiskInv, Files
<1>3. Stopped
  BY <1>1, <1>2 DEF Fail, Stopped
<1> QED BY <1>3, StoppedStep

LEMMA RaiseStep ==
    ASSUME IndInv, Raise
    PROVE  IndInv'
<1>1. Fault \/ UNCHANGED faults
  BY DEF Raise
<1>2. \/ run.step = "share" /\ Fail({})
      \/ run.step \in {"build", "widgets"} /\ Fail({})
      \/ \E i \in 1..Len(run.sheets) :
            run.step = "write" /\ Fail(IF format = "CSV" THEN {<<"csv", runs, i>>} ELSE {})
  BY DEF Raise, Building, Writing
<1>3. {} \in SUBSET FileNames
  OBVIOUS
<1>4. CASE \E i \in 1..Len(run.sheets) :
            run.step = "write" /\ Fail(IF format = "CSV" THEN {<<"csv", runs, i>>} ELSE {})
  <2>1. PICK i \in 1..Len(run.sheets) :
            run.step = "write" /\ Fail(IF format = "CSV" THEN {<<"csv", runs, i>>} ELSE {})
    BY <1>4
  <2>2. PICK left : left = IF format = "CSV" THEN {<<"csv", runs, i>>} ELSE {}
    OBVIOUS
  <2>3. runs \in 1..MaxRuns /\ i \in Nat
    BY <2>1, AtWork
  <2>4. left \in SUBSET FileNames
    BY <2>2, <2>3 DEF FileNames
  <2>5. run.step # "idle" /\ Fail(left)
    BY <2>1, <2>2
  <2> QED BY <1>1, <2>4, <2>5, FailStep
<1>5. CASE run.step \in {"share", "build", "widgets"} /\ Fail({})
  BY <1>1, <1>3, <1>5, FailStep
<1> QED BY <1>2, <1>4, <1>5

LEMMA WalkTooLongStep ==
    ASSUME IndInv, NEW item, WalkTooLong(item)
    PROVE  IndInv'
BY FailStep DEF WalkTooLong, Building

LEMMA NameRefusedStep ==
    ASSUME IndInv, NEW i, NameRefused(i)
    PROVE  IndInv'
BY FailStep DEF NameRefused, Writing

-----------------------------------------------------------------------------
(* A run begins, and ends with a report.                                   *)

LEMMA ItemFacts ==
    ASSUME NEW s \in Sections \cup {"custom", "crosstab"}, NEW w \in Nat
    PROVE  Item(s, w) \in Items /\ Item(s, w).section = s /\ Item(s, w).widget = w
BY DEF Item, Items

LEMMA InitIndInv ==
    ASSUME Init
    PROVE  IndInv
<1>1. facts \subseteq Fact
  BY PlansAssumption DEF Init
<1>2. lake \in [facts -> Nat] /\ floor = lake
  BY DEF Init
<1>3. PICK last \in 0..Cardinality(Contacts) :
          \E answers \in [1..last -> {"plain", "odd", "blank"}] :
              docs = [c \in 1..last |-> [at |-> c, answer |-> answers[c]]]
  BY DEF Init
<1>4. PICK answers \in [1..last -> {"plain", "odd", "blank"}] :
          docs = [c \in 1..last |-> [at |-> c, answer |-> answers[c]]]
  BY <1>3
<1>5. Cardinality(Contacts) \in Nat
  BY BoundsAssumption, FS_CardinalityType
<1>6. /\ DOMAIN docs = 1..last /\ DOMAIN docs \subseteq Contacts
      /\ docs \in [DOMAIN docs -> [at: 1..(Cardinality(Contacts) + MaxMoves),
                                   answer: {"plain", "odd", "blank"}]]
      /\ \A c, d \in DOMAIN docs : docs[c].at = docs[d].at => c = d
  BY <1>4, <1>5, BoundsAssumption
<1>7. TypeInv
  <2>1. run = NoRun /\ run \in RunRecords(run.names) /\ run.written = 0 /\ run.sheets = <<>>
        /\ run.step = "idle" /\ run.names = {}
    BY NoRunFacts DEF Init
  <2>2. IsFiniteSet(run.names) /\ Cardinality(run.names) = 0
    BY <2>1, FS_EmptySet
  <2>3. redis \in [DOMAIN redis -> RowSets] /\ DOMAIN redis \subseteq Keys /\ report \in Seq(SheetRecords)
    BY DEF Init, NoRows
  <2>4. TypeOK
    <3>1. 1..run.written = {} /\ run.written \in 0..Len(run.sheets)
      BY <2>1
    <3>2. /\ status \in {"PENDING", "IN_PROGRESS", "READY", "FAILED"}
          /\ runs \in 0..MaxRuns /\ faults \in 0..MaxFaults
      BY BoundsAssumption DEF Init
    <3>4. interrupted \in BOOLEAN
      BY Zenon DEF Init
    <3>3. /\ plan \in Plans /\ format \in {"XLSX", "CSV"} /\ facts \in FactSets[plan]
          /\ lake \in [facts -> Nat] /\ floor \in [facts -> Nat]
          /\ live \subseteq 1..Len(plan.widgets) /\ unmoved \subseteq DOMAIN docs
          /\ disk = {}
      BY <1>2 DEF Init
    <3> QED BY <2>1, <2>2, <3>1, <3>2, <3>3, <3>4 DEF TypeOK
  <2> QED BY <1>2, <1>6, <2>1, <2>2, <2>3, <2>4 DEF TypeInv, Init
<1>8. StatusInv /\ TodoInv /\ DiskInv /\ KeysInv /\ RedisInv /\ SharedInv /\ WalkInv /\ DoneInv
  <2>1. DOMAIN NoRows = {}
    BY DEF NoRows
  <2> QED BY <2>1, NoRunFacts
          DEF Init, StatusInv, TodoInv, DiskInv, KeysInv, RedisInv, SharedInv, WalkInv, DoneInv
<1>9. SheetsInv /\ ReportInv /\ ResultsDropped
  <2>1. 1..Len(run.sheets) = {} /\ 1..run.written = {} /\ status = "PENDING"
    BY NoRunFacts DEF Init
  <2> QED BY <2>1 DEF SheetsInv, ReportInv, ResultsDropped
<1> QED BY <1>7, <1>8, <1>9 DEF IndInv

LEMMA BeginStep ==
    ASSUME IndInv, Begin
    PROVE  IndInv'
<1>1. PICK streaming \in BOOLEAN, flags \in SUBSET {"contacts", "urns"} :
          run' = [NoRun EXCEPT !.step = IF plan.sections \cap Classified = {} THEN "build" ELSE "share",
                               !.streaming = streaming, !.flags = flags,
                               !.todo = {Item(s, 0) : s \in plan.sections}]
  BY DEF Begin
<1>2. /\ run'.step = (IF plan.sections \cap Classified = {} THEN "build" ELSE "share")
      /\ run'.streaming = streaming /\ run'.flags = flags
      /\ run'.todo = {Item(s, 0) : s \in plan.sections}
      /\ run'.sheets = <<>> /\ run'.written = 0 /\ run'.names = {} /\ run'.shared = NoRows
      /\ run'.walk = NoWalk /\ run'.keys = {}
  BY <1>1 DEF NoRun
<1>3. run' = [step |-> run'.step, streaming |-> streaming, flags |-> flags, todo |-> run'.todo,
              sheets |-> <<>>, written |-> 0, names |-> {}, shared |-> NoRows,
              walk |-> NoWalk, keys |-> {}]
  BY <1>1 DEF NoRun
<1>4. plan' = plan /\ flow' = flow /\ TypeInv /\ plan.sections \subseteq Sections
  BY PlanFacts DEF Begin, world, IndInv
<1>5. \A s \in plan.sections : Item(s, 0) \in Items
  BY <1>4, ItemFacts
<1>6. run' \in RunRecords({}) /\ run'.step \in {"build", "share"}
  <2>1. NoWalk \in Walks /\ NoRows \in RowSets
    BY RowSetsFacts DEF NoWalk, Walks
  <2>2. run'.todo \subseteq Items /\ run'.step \in Steps /\ <<>> \in Seq(SheetRecords)
    BY <1>2, <1>5 DEF Steps
  <2>3. run'.step \in {"build", "share"}
    BY <1>2
  <2>4. PICK step, todo : step = run'.step /\ todo = run'.todo
    OBVIOUS
  <2>5. [step |-> step, streaming |-> streaming, flags |-> flags, todo |-> todo,
         sheets |-> <<>>, written |-> 0, names |-> {}, shared |-> NoRows,
         walk |-> NoWalk, keys |-> {}] \in RunRecords({})
    BY <2>1, <2>2, <2>4 DEF RunRecords
  <2> QED BY <1>3, <2>3, <2>4, <2>5
<1>7. runs' = runs + 1 /\ runs' \in 1..MaxRuns /\ status' = "IN_PROGRESS"
  BY BoundsAssumption DEF Begin, TypeOK, TypeInv, IndInv
<1>8. TypeInv'
  <2>1. SheetRecords' = SheetRecords /\ \A n : RunRecords(n)' = RunRecords(n)
    BY <1>4, SameRecords
  <2>2. /\ floor' \in [facts -> Nat] /\ unmoved' \subseteq DOMAIN docs
        /\ \A f \in facts : floor'[f] <= lake[f]
    BY <1>4 DEF Begin, TypeInv, TypeOK
  <2>3. IsFiniteSet(run'.names) /\ Cardinality(run'.names) = 0
    BY <1>2, FS_EmptySet
  <2>4. run'.written = 0 /\ Len(run'.sheets) = 0 /\ 1..run'.written = {}
    BY <1>2
  <2>5. run' \in RunRecords(run.names)'
    BY <1>2, <1>6, <2>1
  <2>6. TypeOK'
    <3>1. /\ plan \in Plans /\ format' \in {"XLSX", "CSV"} /\ facts \in FactSets[plan] /\ facts' = facts
          /\ lake' \in [facts -> Nat] /\ floor' \in [facts -> Nat]
          /\ live' \subseteq 1..Len(plan.widgets) /\ unmoved' \subseteq DOMAIN docs'
      BY <2>2 DEF Begin, world, TypeOK, TypeInv, IndInv
    <3>2. /\ faults' \in 0..MaxFaults /\ runs' \in 0..MaxRuns
          /\ disk' \subseteq {"spool", "xlsx", "csv"} \X (1..MaxRuns) \X Nat
      BY <1>4, <1>7 DEF Begin, TypeOK, TypeInv
    <3>3. interrupted' \in BOOLEAN
      BY Zenon DEF Begin
    <3> QED BY <1>4, <1>6, <1>7, <2>3, <2>4, <3>1, <3>2, <3>3 DEF TypeOK
  <2> QED BY <1>4, <2>1, <2>2, <2>3, <2>5, <2>6 DEF Begin, world, TypeInv, Accepted
<1>9. StatusInv' /\ TodoInv'
  BY <1>2, <1>4, <1>6, <1>7 DEF StatusInv, TodoInv
<1>10. DiskInv' /\ KeysInv' /\ SharedInv' /\ WalkInv' /\ DoneInv'
  <2>1. runs = 0 => DOMAIN redis = {}
    BY DEF IndInv, StatusInv, NoRows
  <2>2. runs' = 1 => DOMAIN redis' = {}
    BY <1>4, <1>7, <2>1 DEF Begin, TypeInv, TypeOK
  <2>3. KeysInv'
    BY <1>2, <1>4, <2>2 DEF KeysInv
  <2>4. DiskInv'
    BY DEF IndInv, DiskInv, Begin
  <2>5. SharedInv'
    BY <1>2, <1>4 DEF SharedInv, Shares
  <2> QED BY <1>2, <1>4, <1>6, <2>3, <2>4, <2>5 DEF WalkInv, DoneInv
<1>11. RedisInv'
  <2>1. CASE runs = 0
    BY <2>1 DEF IndInv, StatusInv, NoRows, RedisInv, Begin
  <2>2. CASE runs # 0
    <3>1. Steady
      BY <2>2, TimesFacts DEF IndInv, Begin, Steady, world
    <3> QED BY <1>4, <1>8, <3>1, RedisStays DEF IndInv, Begin
  <2> QED BY <2>1, <2>2
<1>12. SheetsInv' /\ ReportInv' /\ ResultsDropped'
  <2>1. 1..Len(run'.sheets) = {} /\ 1..run'.written = {}
    BY <1>2
  <2> QED BY <1>7, <2>1 DEF SheetsInv, ReportInv, ResultsDropped
<1> QED BY <1>8, <1>9, <1>10, <1>11, <1>12 DEF IndInv

LEMMA MailStep ==
    ASSUME IndInv, Mail
    PROVE  IndInv'
<1>1. TypeInv /\ Steady /\ plan' = plan /\ flow' = flow /\ live' = live /\ run.step = "mail"
  BY TimesFacts DEF IndInv, Mail, Steady, world, data, ghosts
<1>2. /\ DOMAIN redis' = DOMAIN redis \ run.keys /\ \A k \in DOMAIN redis' : redis'[k] = redis[k]
      /\ redis' \in [DOMAIN redis' -> RowSets] /\ DOMAIN redis' \subseteq Keys
      /\ DOMAIN redis' = {} => redis' = NoRows
  BY <1>1 DEF Mail, Forgotten, TypeInv, NoRows
<1>3. runs \in 1..MaxRuns /\ runs' = runs /\ status' = "READY" /\ run' = NoRun /\ report' = run.sheets
  BY <1>1, AtWork DEF Mail
<1>4. run.sheets \in Seq(SheetRecords) /\ run.shared \in RowSets /\ run.todo = {}
      /\ run.written = Len(run.sheets)
  BY <1>1 DEF TypeInv, RunRecords, IndInv, TodoInv
<1>5. TypeInv'
  <2>1. SheetRecords' = SheetRecords /\ \A n : RunRecords(n)' = RunRecords(n)
    BY <1>1, SameRecords
  <2>2. /\ run'.step = "idle" /\ run'.written = 0 /\ run'.sheets = <<>> /\ run'.names = {}
        /\ run' \in RunRecords({})
    BY <1>3, NoRunFacts
  <2>3. IsFiniteSet(run'.names) /\ Cardinality(run'.names) = 0
    BY <2>2, FS_EmptySet
  <2>4. run' \in RunRecords(run.names)'
    BY <2>1, <2>2
  <2>5. TypeOK'
    BY <1>1, <1>3, <2>2, <2>3 DEF TypeInv, TypeOK, Mail, world, data, ghosts
  <2> QED BY <1>1, <1>2, <1>3, <1>4, <2>1, <2>3, <2>4, <2>5 DEF TypeInv, Mail, world, data, ghosts, Accepted
<1>6. StatusInv' /\ TodoInv' /\ KeysInv' /\ SharedInv' /\ WalkInv' /\ DoneInv'
  BY <1>3, NoRunFacts DEF StatusInv, TodoInv, KeysInv, SharedInv, WalkInv, DoneInv
<1>7. DiskInv'
  BY DEF IndInv, DiskInv, Mail, Files, ghosts
<1>8. RedisInv'
  BY <1>1, <1>2, <1>5, RedisStays DEF IndInv
<1>9. SheetsInv'
  <2>1. 1..Len(run'.sheets) = {} /\ 1..run'.written = {}
    BY <1>3, NoRunFacts
  <2> QED BY <2>1 DEF SheetsInv
<1>10. ReportInv'
  <2>1. PICK sheets, rows : sheets = run.sheets /\ rows = run.shared
    OBVIOUS
  <2>2. \A i \in 1..Len(sheets) : SheetOK(sheets[i]) /\ sheets[i].read /\ Shared(sheets[i], rows)
    BY <1>4, <2>1 DEF IndInv, SheetsInv
  <2>3. Classified \subseteq plan.sections => DOMAIN rows \subseteq facts
    <3> SUFFICES ASSUME Classified \subseteq plan.sections PROVE DOMAIN rows \subseteq facts
      OBVIOUS
    <3>1. Shares
      BY DEF Shares, Spooled, Classified
    <3> QED BY <1>1, <2>1, <3>1 DEF IndInv, SharedInv, Found
  <2>4. /\ \A s \in plan.sections : HasSection(sheets, s)
        /\ \A w \in live : HasWidget(sheets, w)
    BY <1>1, <1>4, <2>1 DEF IndInv, DoneInv
  <2>5. sheets \in Seq(SheetRecords) /\ rows \in RowSets
    BY <1>4, <2>1
  <2>6. \A i \in 1..Len(sheets) : SheetOK(sheets[i])' /\ sheets[i].read /\ Shared(sheets[i], rows)'
    BY <1>1, <1>5, <2>2, <2>5, SheetsStay
  <2>7. /\ \A s \in plan.sections : HasSection(sheets, s)'
        /\ \A w \in live : HasWidget(sheets, w)'
    BY <1>1, <1>5, <2>4, <2>5, SheetsStay
  <2> QED BY <1>1, <1>3, <2>1, <2>3, <2>5, <2>6, <2>7 DEF ReportInv, Steady
<1>11. ResultsDropped'
  <2>1. runs = 1 => redis' = NoRows
    BY <1>1, <1>2 DEF IndInv, KeysInv
  <2>2. \A s \in plan.sections \cap Surveys : Key(s) \in run.keys
    BY <1>1, <1>4 DEF IndInv, KeysInv
  <2>3. \A s : Key(s)' = Key(s)
    BY <1>1 DEF Key, Query, SurveyQuery
  <2> QED BY <1>1, <1>2, <1>3, <2>1, <2>2, <2>3 DEF ResultsDropped
<1> QED BY <1>5, <1>6, <1>7, <1>8, <1>9, <1>10, <1>11 DEF IndInv

-----------------------------------------------------------------------------
(* Steps of the run at work: its records, its results in redis.            *)

Working ==
    /\ run.step # "idle" /\ run'.step # "idle"
    /\ UNCHANGED <<world, data, ghosts, status, interrupted, runs, faults, report>>

RedisTyped == redis \in [DOMAIN redis -> RowSets] /\ DOMAIN redis \subseteq Keys

LEMMA WorkingFacts ==
    ASSUME IndInv, Working
    PROVE  /\ TypeInv /\ Steady /\ runs \in 1..MaxRuns /\ run \in RunRecords(run.names)
           /\ UNCHANGED <<plan, format, flow, facts, lake, docs, live, unmoved, floor, excused,
                          status, interrupted, runs, faults, report>>
           /\ SheetRecords' = SheetRecords /\ \A n : RunRecords(n)' = RunRecords(n)
           /\ StatusInv' /\ ReportInv' /\ ResultsDropped'
<1>1. /\ UNCHANGED <<plan, format, flow, facts, lake, docs, live, unmoved, floor, excused,
                     status, interrupted, runs, faults, report>>
      /\ run.step # "idle" /\ run'.step # "idle"
  BY DEF Working, world, data, ghosts
<1>2. TypeInv /\ run \in RunRecords(run.names)
  BY DEF IndInv, TypeInv
<1>3. Steady
  BY <1>1, <1>2, TimesFacts DEF Steady
<1>4. SheetRecords' = SheetRecords /\ \A n : RunRecords(n)' = RunRecords(n)
  BY <1>1, SameRecords
<1>5. runs \in 1..MaxRuns /\ status # "PENDING" /\ status # "READY"
  BY <1>1, AtWork
<1>6. StatusInv' /\ ReportInv' /\ ResultsDropped'
  BY <1>1, <1>5 DEF StatusInv, ReportInv, ResultsDropped
<1> QED BY <1>1, <1>2, <1>3, <1>4, <1>5, <1>6

LEMMA WorkingTypes ==
    ASSUME IndInv, Working, run' \in RunRecords(run'.names), IsFiniteSet(run'.names),
           run'.written \in 0..Len(run'.sheets),
           \A i \in 1..run'.written : run'.sheets[i].read,
           format = "XLSX" => Cardinality(run'.names) = run'.written,
           disk' \subseteq FileNames, RedisTyped'
    PROVE  TypeInv'
<1>1. TypeInv /\ SheetRecords' = SheetRecords /\ \A n : RunRecords(n)' = RunRecords(n)
  BY WorkingFacts
<1>2. UNCHANGED <<plan, format, flow, facts, lake, docs, live, unmoved, floor, status, interrupted,
                  runs, faults, report>>
  BY WorkingFacts
<1>3. run'.step \in {"idle", "share", "build", "widgets", "write", "mail"}
  BY DEF RunRecords, Steps
<1>4. TypeOK'
  BY <1>1, <1>2, <1>3 DEF TypeInv, TypeOK, FileNames
<1>5. run' \in RunRecords(run.names)'
  BY <1>1
<1> QED BY <1>1, <1>2, <1>4, <1>5 DEF TypeInv, RedisTyped, Accepted

\* Results kept in redis are what was found.
LEMMA RedisAdded ==
    ASSUME IndInv, Working, NEW s \in Sections \cup {"custom", "crosstab"}, NEW rows \in RowSets,
           s \notin Surveys => Found(Query(s), rows),
           s \in Surveys /\ ~OneFlow => WalkFound(s, rows),
           redis' = [k \in DOMAIN redis \cup {Key(s)} |-> IF k = Key(s) THEN rows ELSE redis[k]]
    PROVE  RedisTyped' /\ RedisInv'
<1>1. UNCHANGED <<plan, flow, facts, lake, docs, unmoved, floor>>
  BY WorkingFacts
<1>2. TypeInv /\ flow \in [Surveys -> {"flow1", "flow2"}] /\ RedisInv
  BY DEF IndInv, TypeInv
<1>3. /\ Query(s) \in Keys /\ Key(s) = Query(s)
      /\ s \in Surveys => Query(s) = [key |-> flow[s], filter |-> "op_field"]
      /\ s \notin Surveys => Query(s).filter # "op_field"
  BY <1>2, QueryFacts DEF Key
<1>4. \A t \in Surveys : Query(t) = [key |-> flow[t], filter |-> "op_field"]
  BY <1>2, QueryFacts, SectionsFacts DEF Surveys
<1>5. RedisTyped'
  BY <1>2, <1>3 DEF TypeInv, RedisTyped
<1>6. (\A q, r : Found(q, r)' <=> Found(q, r)) /\ (\A t, r : WalkFound(t, r)' <=> WalkFound(t, r))
  BY <1>1 DEF Found, Answers, WalkFound, WalkRows, Doc, Query, SurveyQuery
<1>7. (\A t : Query(t)' = Query(t)) /\ OneFlow' = OneFlow
  BY <1>1 DEF Query, SurveyQuery, OneFlow
<1> SUFFICES ASSUME NEW k \in DOMAIN redis'
             PROVE  /\ k.filter # "op_field" => Found(k, redis[k])'
                    /\ \A t \in Surveys : k = Query(t) /\ ~OneFlow => WalkFound(t, redis[k])'
  BY <1>5, <1>7 DEF RedisInv
<1>8. PICK r : r = redis'[k]
  OBVIOUS
<1>9. /\ k.filter # "op_field" => Found(k, r)
      /\ \A t \in Surveys : k = Query(t) /\ ~OneFlow => WalkFound(t, r)
  <2>1. CASE k = Query(s)
    <3>1. r = rows
      BY <1>3, <1>8, <2>1
    <3>2. \A t \in Surveys : k = Query(t) /\ ~OneFlow => s = t
      BY <1>3, <1>4, <2>1 DEF OneFlow, Surveys
    <3> QED BY <1>3, <2>1, <3>1, <3>2
  <2>2. CASE k # Query(s)
    <3>1. k \in DOMAIN redis /\ r = redis[k]
      BY <1>3, <1>8, <2>2
    <3> QED BY <1>2, <3>1 DEF RedisInv
  <2> QED BY <2>1, <2>2
<1>10. Found(k, r)' => Found(k, redis[k])'
  BY <1>8 DEF Found, Answers
<1>11. \A t : WalkFound(t, r)' => WalkFound(t, redis[k])'
  BY <1>8 DEF WalkFound, WalkRows
<1> QED BY <1>6, <1>9, <1>10, <1>11

LEMMA RedisKept ==
    ASSUME IndInv, Working, redis' = redis
    PROVE  RedisTyped' /\ RedisInv'
<1>1. UNCHANGED <<plan, flow, facts, lake, docs, unmoved, floor>> /\ TypeInv /\ RedisInv
  BY WorkingFacts DEF IndInv
<1>2. RedisTyped'
  BY <1>1 DEF TypeInv, RedisTyped
<1>3. (\A q, r : Found(q, r)' <=> Found(q, r)) /\ (\A t, r : WalkFound(t, r)' <=> WalkFound(t, r))
  BY <1>1 DEF Found, Answers, WalkFound, WalkRows, Doc, Query, SurveyQuery
<1>4. (\A t : Query(t)' = Query(t)) /\ OneFlow' = OneFlow
  BY <1>1 DEF Query, SurveyQuery, OneFlow
<1> SUFFICES ASSUME NEW k \in DOMAIN redis
             PROVE  /\ k.filter # "op_field" => Found(k, redis[k])'
                    /\ \A t \in Surveys : k = Query(t) /\ ~OneFlow => WalkFound(t, redis[k])'
  BY <1>2, <1>4 DEF RedisInv
<1>5. PICK r : r = redis[k]
  OBVIOUS
<1>6. /\ k.filter # "op_field" => Found(k, r)
      /\ \A t \in Surveys : k = Query(t) /\ ~OneFlow => WalkFound(t, r)
  BY <1>1, <1>5 DEF RedisInv
<1>7. Found(k, r)' => Found(k, redis[k])'
  BY <1>5 DEF Found, Answers
<1>8. \A t : WalkFound(t, r)' => WalkFound(t, redis[k])'
  BY <1>5 DEF WalkFound, WalkRows
<1> QED BY <1>3, <1>6, <1>7, <1>8

\* What a standard run reads, from redis or from the data lake.
LEMMA StandardFacts ==
    ASSUME IndInv, NEW s \in (Sections \cup {"custom", "crosstab"}) \ Surveys
    PROVE  StandardRows(s) \in RowSets /\ Found(Query(s), StandardRows(s))
<1>1. TypeInv /\ RedisInv /\ Query(s).filter # "op_field" /\ Key(s) = Query(s)
  BY QueryFacts DEF IndInv, TypeInv, Key
<1>2. CASE Key(s) \in DOMAIN redis
  BY <1>1, <1>2 DEF StandardRows, RedisInv, TypeInv
<1>3. CASE Key(s) \notin DOMAIN redis
  BY <1>1, <1>3, EventsFacts DEF StandardRows
<1> QED BY <1>2, <1>3

LEMMA ReadFacts ==
    ASSUME IndInv, Working, NEW s \in (Sections \cup {"custom", "crosstab"}) \ Surveys, ReadStandard(s)
    PROVE  RedisTyped' /\ RedisInv' /\ DOMAIN redis' \subseteq DOMAIN redis \cup {Key(s)}
<1>1. PICK rows \in RowSets : rows = StandardRows(s) /\ Found(Query(s), rows)
  BY StandardFacts
<1>2. CASE Empty(StandardRows(s))
  BY <1>2, RedisKept DEF ReadStandard
<1>3. CASE ~Empty(StandardRows(s))
  <2>1. redis' = [k \in DOMAIN redis \cup {Key(s)} |-> IF k = Key(s) THEN rows ELSE redis[k]]
    BY <1>1, <1>3 DEF ReadStandard
  <2> QED BY <1>1, <2>1, RedisAdded
<1> QED BY <1>2, <1>3

-----------------------------------------------------------------------------
(* A worksheet is built.                                                   *)

WalkAt(s) == run.walk = NoWalk \/ (run.walk.page > 1 /\ WalkOK(s))

\* What is built next, and that no survey is under way unless it is this one.
LEMMA BuildingFacts ==
    ASSUME IndInv, NEW item, Building(item)
    PROVE  /\ item \in Items /\ item.section \in Sections \cup {"custom", "crosstab"}
           /\ run.step = "build" => item = Item(item.section, 0) /\ item.section \in plan.sections
           /\ run.step = "widgets" =>
                 /\ item.widget \in 1..Len(plan.widgets) /\ item.section \in {"custom", "crosstab"}
                 /\ item = Item(plan.widgets[item.widget].kind, item.widget)
           /\ run.step # "widgets" => run.step = "build"
           /\ item.section \in Sections => run.step = "build"
           /\ item.section \notin Surveys => run.walk = NoWalk
           /\ item.section \in Surveys => WalkAt(item.section)
           /\ NameOf(item) \in Names
<1>1. TypeInv /\ run.step \in {"build", "widgets"} /\ item \in run.todo
  BY DEF IndInv, Building
<1>2. /\ plan.sections \subseteq Sections /\ Len(plan.widgets) \in Nat
      /\ \A w \in 1..Len(plan.widgets) : plan.widgets[w].kind \in {"custom", "crosstab"}
  BY <1>1, PlanFacts
<1>3. CASE run.step = "build"
  <2>1. PICK s \in plan.sections : item = Item(s, 0)
    BY <1>1, <1>3 DEF IndInv, TodoInv
  <2>2. item.section = s /\ item.widget = 0 /\ item \in Items
    BY <1>2, <2>1, ItemFacts
  <2>3. NameOf(item) \in Names
    BY <1>2, <2>2 DEF NameOf, Names
  <2>4. \A t \in Surveys : Building(Item(t, 0)) => t = s
    <3> SUFFICES ASSUME NEW t \in Surveys, Building(Item(t, 0)) PROVE t = s
      OBVIOUS
    <3>1. t \in Sections /\ s \in Sections
      BY <1>2, SectionsFacts DEF Surveys
    <3>2. /\ Item(t, 0) \in run.todo /\ Place(Item(t, 0)) <= Place(item)
          /\ Place(item) <= Place(Item(t, 0))
      BY DEF Building
    <3>3. \A u \in Sections : Place(Item(u, 0)) \in Nat
      <4> SUFFICES ASSUME NEW u \in Sections PROVE Place(Item(u, 0)) \in Nat
        OBVIOUS
      <4>1. \E i \in DOMAIN SectionOrder : SectionOrder[i] = u
        BY DEF Sections
      <4>2. Place(Item(u, 0)) \in DOMAIN SectionOrder
        BY <4>1 DEF Place, Item
      <4> QED BY <4>2 DEF SectionOrder
    <3>4. Place(Item(t, 0)) = Place(Item(s, 0))
      BY <2>1, <3>1, <3>2, <3>3
    <3> QED BY <3>1, <3>4, OnePlace
  <2>5. s \notin Surveys => run.walk = NoWalk
    BY <2>4 DEF IndInv, WalkInv
  <2>6. s \in Surveys => WalkAt(s)
    BY <2>4 DEF IndInv, WalkInv, WalkAt
  <2> QED BY <1>2, <1>3, <2>1, <2>2, <2>3, <2>5, <2>6
<1>4. CASE run.step = "widgets"
  <2>1. PICK w \in 1..Len(plan.widgets) : item = Item(plan.widgets[w].kind, w)
    BY <1>1, <1>4 DEF IndInv, TodoInv
  <2>2. item.section = plan.widgets[w].kind /\ item.widget = w /\ item \in Items
    <3>1. w \in Nat \ {0}
      BY <1>2
    <3>2. PICK s : s = plan.widgets[w].kind
      OBVIOUS
    <3> QED BY <1>2, <2>1, <3>1, <3>2, ItemFacts
  <2>3. NameOf(item) \in Names
    <3>1. NameOf(item) = plan.widgets[w].name
      <4>1. item.widget = w /\ w # 0
        BY <1>2, <2>2
      <4> QED BY <4>1 DEF NameOf
    <3> QED BY <3>1 DEF Names
  <2>4. \A t : ~Building(Item(t, 0))
    <3>1. \A x \in run.todo : x.widget # 0
      BY <1>2, <1>4 DEF IndInv, TodoInv, Item
    <3> QED BY <3>1 DEF Building, Item
  <2>5. run.walk = NoWalk
    BY <2>4 DEF IndInv, WalkInv
  <2>6. item.section \notin Sections /\ item.section \notin Surveys
    BY <1>2, <2>2, SectionsFacts DEF Surveys
  <2> QED BY <1>2, <1>4, <2>1, <2>2, <2>3, <2>5, <2>6
<1> QED BY <1>1, <1>3, <1>4

\* Worksheets that are among others answer what these answer.
LEMMA SectionsAmong ==
    ASSUME NEW x, NEW c, \A i \in 1..Len(x) : \E j \in 1..Len(c) : c[j] = x[i], NEW s, HasSection(x, s)
    PROVE  HasSection(c, s)
<1>1. CASE \E i \in 1..Len(x) : /\ x[i].kind = IF s \in Surveys THEN "survey" ELSE "events"
                                /\ x[i].item.section = s
  <2>1. PICK i \in 1..Len(x) : /\ x[i].kind = IF s \in Surveys THEN "survey" ELSE "events"
                               /\ x[i].item.section = s
    BY <1>1
  <2>2. PICK j \in 1..Len(c) : c[j] = x[i]
    OBVIOUS
  <2> QED BY <2>1, <2>2 DEF HasSection
<1>2. CASE \E i \in 1..Len(x) : x[i].kind = "summary" /\ x[i].item.section = s
  <2>1. PICK i \in 1..Len(x) : x[i].kind = "summary" /\ x[i].item.section = s
    BY <1>2
  <2>2. PICK j \in 1..Len(c) : c[j] = x[i]
    OBVIOUS
  <2> QED BY <2>1, <2>2 DEF HasSection
<1>3. CASE s = "CONTACTS" /\ \E i, j \in 1..Len(x) : x[i].kind = "unique" /\ x[j].kind = "returning"
  <2>1. PICK i \in 1..Len(x), j \in 1..Len(x) : x[i].kind = "unique" /\ x[j].kind = "returning"
    BY <1>3
  <2>2. PICK k \in 1..Len(c), l \in 1..Len(c) : c[k] = x[i] /\ c[l] = x[j]
    OBVIOUS
  <2> QED BY <1>3, <2>1, <2>2 DEF HasSection
<1> QED BY <1>1, <1>2, <1>3 DEF HasSection

LEMMA WidgetsAmong ==
    ASSUME NEW x, NEW c, \A i \in 1..Len(x) : \E j \in 1..Len(c) : c[j] = x[i], NEW w, HasWidget(x, w)
    PROVE  HasWidget(c, w)
<1>1. PICK i \in 1..Len(x) : x[i].item = Item(plan.widgets[w].kind, w)
  BY DEF HasWidget
<1>2. PICK j \in 1..Len(c) : c[j] = x[i]
  OBVIOUS
<1> QED BY <1>1, <1>2 DEF HasWidget

\* Sections keep the worksheets that they have.
LEMMA SectionsAdd ==
    ASSUME NEW a \in Seq(SheetRecords), NEW b \in Seq(SheetRecords)
    PROVE  /\ a \o b \in Seq(SheetRecords)
           /\ \A s : HasSection(a, s) \/ HasSection(b, s) => HasSection(a \o b, s)
           /\ \A w : HasWidget(a, w) \/ HasWidget(b, w) => HasWidget(a \o b, w)
           /\ \A P : (\A i \in 1..Len(a) : a[i] \in P) /\ (\A i \in 1..Len(b) : b[i] \in P)
                        => \A i \in 1..Len(a \o b) : (a \o b)[i] \in P
<1>1. PICK c, n, m : c = a \o b /\ n = Len(a) /\ m = Len(b)
  OBVIOUS
<1>0. /\ c \in Seq(SheetRecords) /\ Len(c) = n + m /\ n \in Nat /\ m \in Nat
      /\ \A i \in 1..n : i \in 1..Len(c) /\ c[i] = a[i]
      /\ \A i \in 1..m : i + n \in 1..Len(c) /\ c[i + n] = b[i]
      /\ \A i \in 1..Len(c) : i \in 1..n \/ (i - n \in 1..m /\ c[i] = b[i - n])
  BY <1>1
<1>5. /\ \A i \in 1..Len(a) : \E j \in 1..Len(c) : c[j] = a[i]
      /\ \A i \in 1..Len(b) : \E j \in 1..Len(c) : c[j] = b[i]
      /\ \A j \in 1..Len(c) : \/ \E i \in 1..Len(a) : c[j] = a[i]
                              \/ \E i \in 1..Len(b) : c[j] = b[i]
  BY <1>0, <1>1
<1>2. ASSUME NEW s, HasSection(a, s) \/ HasSection(b, s) PROVE HasSection(c, s)
  BY <1>2, <1>5, SectionsAmong
<1>3. ASSUME NEW w, HasWidget(a, w) \/ HasWidget(b, w) PROVE HasWidget(c, w)
  BY <1>3, <1>5, WidgetsAmong
<1>4. \A P : (\A i \in 1..Len(a) : a[i] \in P) /\ (\A i \in 1..Len(b) : b[i] \in P)
                => \A i \in 1..Len(c) : c[i] \in P
  BY <1>5
<1> QED BY <1>0, <1>1, <1>2, <1>3, <1>4

\* The worksheets of an item are added to those of the run.
Builds(item, new) ==
    /\ Building(item) /\ Working /\ disk' = disk
    /\ run' = [run EXCEPT !.todo = run.todo \ {item}, !.sheets = run.sheets \o new,
                          !.keys = run'.keys, !.walk = NoWalk]
    /\ run'.keys = run.keys \/ run'.keys = run.keys \cup {Key(item.section)}

\* They are what was asked for.
Complete(item, new) ==
    /\ \A i \in 1..Len(new) : /\ SheetOK(new[i]) /\ Shared(new[i], run.shared)
                              /\ run.streaming \/ new[i].read
    /\ item.section \in Sections => HasSection(new, item.section)
    /\ item.section \notin Sections => HasWidget(new, item.widget)

LEMMA BuildsStep ==
    ASSUME IndInv, NEW item, NEW new \in Seq(SheetRecords), Builds(item, new), Complete(item, new),
           RedisTyped', RedisInv', DOMAIN redis' \subseteq DOMAIN redis \cup run'.keys,
           item.section \in Surveys => Key(item.section) \in run'.keys
    PROVE  IndInv'
<1>1. Working /\ Building(item) /\ disk' = disk /\ run.step \in {"build", "widgets"}
  BY DEF Builds, Building
<1>2. /\ TypeInv /\ Steady /\ run \in RunRecords(run.names)
      /\ UNCHANGED <<plan, format, flow, facts, lake, docs, live, unmoved, floor, excused,
                     status, interrupted, runs, faults, report>>
  BY <1>1, WorkingFacts
<1>3. /\ run'.step = run.step /\ run'.streaming = run.streaming /\ run'.flags = run.flags
      /\ run'.written = run.written /\ run'.names = run.names /\ run'.shared = run.shared
      /\ run'.todo = run.todo \ {item} /\ run'.sheets = run.sheets \o new /\ run'.walk = NoWalk
  BY <1>2 DEF Builds, RunRecords
<1>4. /\ item.section \in Sections \cup {"custom", "crosstab"}
      /\ run.step = "build" => item = Item(item.section, 0) /\ item.section \in plan.sections
      /\ run.step = "widgets" =>
            /\ item.widget \in 1..Len(plan.widgets) /\ item.section \in {"custom", "crosstab"}
            /\ item = Item(plan.widgets[item.widget].kind, item.widget)
      /\ item.section \in Sections => run.step = "build"
  BY <1>1, BuildingFacts
<1>5. run.sheets \in Seq(SheetRecords) /\ run.keys \subseteq Keys
  BY <1>2 DEF RunRecords
<1>6. /\ run.sheets \o new \in Seq(SheetRecords) /\ Len(run.sheets \o new) \in Nat
      /\ Len(run.sheets \o new) >= Len(run.sheets)
      /\ \A s : HasSection(run.sheets, s) \/ HasSection(new, s) => HasSection(run.sheets \o new, s)
      /\ \A w : HasWidget(run.sheets, w) \/ HasWidget(new, w) => HasWidget(run.sheets \o new, w)
  <2>1. PICK a : a = run.sheets
    OBVIOUS
  <2> QED BY <1>5, <2>1, SectionsAdd
<1>7. run'.keys \subseteq Keys
  <2>1. Key(item.section) \in Keys
    BY <1>2, <1>4, QueryFacts DEF Key, TypeInv
  <2> QED BY <1>5, <2>1 DEF Builds
<1>8. run' \in RunRecords(run'.names)
  <2>1. NoWalk \in Walks
    BY RowSetsFacts DEF NoWalk, Walks
  <2>2. PICK todo, sheets, keys : todo = run'.todo /\ sheets = run'.sheets /\ keys = run'.keys
    OBVIOUS
  <2>3. todo \in SUBSET Items /\ sheets \in Seq(SheetRecords) /\ keys \in SUBSET Keys
    BY <1>2, <1>3, <1>6, <1>7, <2>2 DEF RunRecords
  <2>4. run' = [run EXCEPT !.todo = todo, !.sheets = sheets, !.keys = keys, !.walk = NoWalk]
    BY <1>3, <2>2 DEF Builds
  <2>5. [run EXCEPT !.todo = todo, !.sheets = sheets, !.keys = keys, !.walk = NoWalk]
            \in RunRecords(run.names)
    BY <1>2, <2>1, <2>3 DEF RunRecords
  <2> QED BY <1>3, <2>4, <2>5
<1>9. run.written = 0 /\ 1..run'.written = {} /\ run'.written \in 0..Len(run'.sheets)
  BY <1>1, <1>3, <1>6 DEF IndInv, TodoInv
<1>10. TypeInv'
  <2>1. IsFiniteSet(run'.names) /\ disk' \subseteq FileNames
        /\ (format = "XLSX" => Cardinality(run'.names) = run'.written)
    BY <1>1, <1>2, <1>3 DEF TypeInv, TypeOK, FileNames
  <2> QED BY <1>1, <1>8, <1>9, <2>1, WorkingTypes
<1>11. StatusInv' /\ ReportInv' /\ ResultsDropped'
  BY <1>1, WorkingFacts
<1>12. TodoInv' /\ DiskInv'
  BY <1>1, <1>2, <1>3 DEF IndInv, TodoInv, DiskInv
<1>13. KeysInv'
  <2>1. (\A s : Key(s)' = Key(s)) /\ run.keys \subseteq run'.keys
    BY <1>2 DEF Key, Query, SurveyQuery, Builds
  <2>2. runs = 1 => DOMAIN redis' \subseteq run'.keys
    BY <1>1, <2>1 DEF IndInv, KeysInv
  <2>3. ASSUME NEW s \in plan.sections \cap Surveys
        PROVE  Item(s, 0) \in run'.todo \/ Key(s) \in run'.keys
    <3>1. CASE item = Item(s, 0)
      BY <3>1 DEF Item
    <3>2. CASE item # Item(s, 0)
      BY <1>1, <1>3, <2>1, <3>2 DEF IndInv, KeysInv
    <3> QED BY <3>1, <3>2
  <2> QED BY <1>2, <1>3, <2>1, <2>2, <2>3 DEF KeysInv
<1>14. SharedInv'
  BY <1>1, <1>2, <1>3 DEF IndInv, SharedInv, Shares, Spooled, Found, Answers
<1>15. WalkInv'
  BY <1>3 DEF WalkInv
<1>16. SheetsInv'
  <2>1. PICK sheets, shared : sheets = run.sheets \o new /\ shared = run.shared
    OBVIOUS
  <2>2. \A i \in 1..Len(run.sheets) : /\ SheetOK(run.sheets[i]) /\ Shared(run.sheets[i], run.shared)
                                      /\ run.streaming \/ run.sheets[i].read
    BY DEF IndInv, SheetsInv
  <2>3. \A i \in 1..Len(sheets) : /\ SheetOK(sheets[i]) /\ Shared(sheets[i], shared)
                                  /\ run.streaming \/ sheets[i].read
    <3> SUFFICES ASSUME NEW i \in 1..Len(sheets)
                 PROVE  /\ SheetOK(sheets[i]) /\ Shared(sheets[i], shared)
                        /\ run.streaming \/ sheets[i].read
      OBVIOUS
    <3>1. \/ i \in 1..Len(run.sheets) /\ sheets[i] = run.sheets[i]
          \/ i - Len(run.sheets) \in 1..Len(new) /\ sheets[i] = new[i - Len(run.sheets)]
      BY <1>5, <2>1
    <3>2. CASE i \in 1..Len(run.sheets) /\ sheets[i] = run.sheets[i]
      BY <2>1, <2>2, <3>2
    <3>3. CASE i - Len(run.sheets) \in 1..Len(new) /\ sheets[i] = new[i - Len(run.sheets)]
      <4>1. PICK j \in 1..Len(new) : sheets[i] = new[j]
        BY <3>3
      <4> QED BY <2>1, <4>1 DEF Complete
    <3> QED BY <3>1, <3>2, <3>3
  <2>4. sheets \in Seq(SheetRecords)
    BY <1>6, <2>1
  <2>5. \A i \in 1..Len(sheets) : SheetOK(sheets[i])' /\ Shared(sheets[i], shared)'
    BY <1>2, <1>10, <2>3, <2>4, SheetsStay
  <2> QED BY <1>3, <1>9, <2>1, <2>3, <2>5 DEF SheetsInv
<1>17. DoneInv'
  <2>1. PICK sheets : sheets = run.sheets \o new
    OBVIOUS
  <2>2. sheets \in Seq(SheetRecords)
    BY <1>6, <2>1
  <2>3. /\ \A s : HasSection(sheets, s) => HasSection(sheets, s)'
        /\ \A w : HasWidget(sheets, w) => HasWidget(sheets, w)'
    BY <1>2, <1>10, <2>2, SheetsStay
  <2>4. ASSUME NEW s \in plan.sections
        PROVE  Item(s, 0) \in run'.todo \/ HasSection(sheets, s)
    <3>1. CASE item = Item(s, 0)
      BY <1>2, <1>6, <2>1, <3>1, PlanFacts DEF Item, Complete
    <3>2. CASE item # Item(s, 0)
      BY <1>1, <1>3, <1>6, <2>1, <3>2 DEF IndInv, DoneInv
    <3> QED BY <3>1, <3>2
  <2>5. ASSUME NEW w \in live, run.step = "widgets"
        PROVE  Item(plan.widgets[w].kind, w) \in run'.todo \/ HasWidget(sheets, w)
    <3>1. CASE item = Item(plan.widgets[w].kind, w)
      BY <1>4, <1>6, <2>1, <2>5, <3>1, SectionsFacts DEF Item, Complete
    <3>2. CASE item # Item(plan.widgets[w].kind, w)
      BY <1>1, <1>3, <1>6, <2>1, <2>5, <3>2 DEF IndInv, DoneInv
    <3> QED BY <3>1, <3>2
  <2> QED BY <1>1, <1>2, <1>3, <2>1, <2>3, <2>4, <2>5 DEF DoneInv
<1> QED BY <1>10, <1>11, <1>12, <1>13, <1>14, <1>15, <1>16, <1>17 DEF IndInv

LEMMA SheetFacts ==
    ASSUME NEW item \in Items, NEW kind \in Kinds, NEW name \in Names, NEW rows \in RowSets
    PROVE  /\ Sheet(item, kind, name) \in SheetRecords
           /\ Sheet(item, kind, name).item = item /\ Sheet(item, kind, name).kind = kind
           /\ ~Sheet(item, kind, name).read
           /\ LET sheet == Filled(Sheet(item, kind, name), rows)
              IN /\ sheet \in SheetRecords /\ sheet.item = item /\ sheet.kind = kind
                 /\ sheet.read /\ sheet.rows = rows
<1>1. NoRows \in RowSets
  BY RowSetsFacts
<1> USE <1>1 DEF Sheet, SheetRecords
<1>2. Sheet(item, kind, name) \in SheetRecords
  OBVIOUS
<1>3. LET sheet == Filled(Sheet(item, kind, name), rows)
      IN /\ sheet \in SheetRecords /\ sheet.item = item /\ sheet.kind = kind
         /\ sheet.read /\ sheet.rows = rows
  BY DEF Filled
<1> QED BY <1>2, <1>3

LEMMA CountedFacts ==
    ASSUME NEW item \in Items, NEW kind \in Kinds, NEW name \in Names, NEW urns \in SUBSET Contacts
    PROVE  LET sheet == Counted(Sheet(item, kind, name), urns)
           IN /\ sheet \in SheetRecords /\ sheet.item = item /\ sheet.kind = kind
              /\ sheet.read /\ sheet.urns = urns
BY RowSetsFacts DEF Sheet, SheetRecords, Counted

\* A list is complete when it is read from what was found, or is not read yet.
LEMMA ListFacts ==
    ASSUME IndInv, NEW item, Building(item), IsList(item.section), item.section # "CONTACTS",
           NEW sheet \in SheetRecords, sheet.item = item, sheet.kind = "events",
           run.streaming \/ sheet.read,
           sheet.read => \E rows \in RowSets :
               /\ sheet.rows = KeptRows(item.section, rows) /\ Found(Query(item.section), rows)
               /\ item.section = "RESOLUTIONS" /\ Classified \subseteq plan.sections => rows = run.shared
    PROVE  <<sheet>> \in Seq(SheetRecords) /\ Complete(item, <<sheet>>)
<1> DEFINE s == item.section
<1>1. /\ s \in Sections \cup {"custom", "crosstab"}
      /\ run.step = "build" => s \in plan.sections
      /\ run.step = "widgets" =>
            /\ s \in {"custom", "crosstab"}
            /\ item = Item(plan.widgets[item.widget].kind, item.widget)
      /\ s \in Sections => run.step = "build"
      /\ run.step # "widgets" => run.step = "build"
  BY BuildingFacts
<1>2. s \notin Surveys /\ s # "crosstab"
  BY DEF IsList, Summary
<1>3. s = "custom" \/ s \in plan.sections \cap ListSections
  BY <1>1, <1>2, SectionsFacts, PlanFacts DEF ListSections, IndInv
<1>4. sheet.read => ListComplete(s, sheet.rows)
  BY KeptFacts
<1>5. SheetOK(sheet)
  BY <1>3, <1>4 DEF SheetOK
<1>6. Shared(sheet, run.shared)
  BY DEF Shared
<1>7. s \in Sections => HasSection(<<sheet>>, s)
  BY <1>2 DEF HasSection
<1>8. s \notin Sections => HasWidget(<<sheet>>, item.widget)
  <2>1. s \notin Sections => run.step = "widgets"
    BY <1>1, PlanFacts DEF IndInv
  <2>2. 1 \in 1..Len(<<sheet>>) /\ <<sheet>>[1] = sheet
    OBVIOUS
  <2> QED BY <1>1, <2>1, <2>2 DEF HasWidget
<1>9. \A i \in 1..Len(<<sheet>>) : <<sheet>>[i] = sheet
  OBVIOUS
<1> QED BY <1>5, <1>6, <1>7, <1>8, <1>9 DEF Complete

\* Contacts are complete when they are those of what was found, and shared if they must be.
LEMMA ContactSheetsFacts ==
    ASSUME IndInv, NEW item, Building(item), item.section = "CONTACTS",
           NEW rows \in RowSets, Found(ClassificationQuery, rows),
           Classified \subseteq plan.sections => rows = run.shared
    PROVE  ContactSheets(item, rows) \in Seq(SheetRecords) /\ Complete(item, ContactSheets(item, rows))
<1>1. item \in Items /\ "CONTACTS" \in Sections
  BY BuildingFacts, SectionsFacts
<1>2. "CONTACTS" \in plan.sections
  BY <1>1, BuildingFacts
<1>3. PICK one, two : one = Urns(rows, 1) /\ two = Urns(rows, 2)
  OBVIOUS
<1>4. PICK unique, returning : unique = <<"unique", NoRest, 0>> /\ returning = <<"returning", NoRest, 0>>
  OBVIOUS
<1>5. unique \in Names /\ returning \in Names /\ "unique" \in Kinds /\ "returning" \in Kinds
  BY <1>4 DEF Names, Kinds
<1>6. one \in SUBSET Contacts /\ two \in SUBSET Contacts
  BY <1>3, UrnsAreContacts
<1>7. PICK a, b :
          /\ a = Counted(Sheet(item, "unique", unique), one)
          /\ b = Counted(Sheet(item, "returning", returning), two)
  OBVIOUS
<1>8. /\ a \in SheetRecords /\ a.item = item /\ a.kind = "unique" /\ a.read /\ a.urns = one
      /\ b \in SheetRecords /\ b.item = item /\ b.kind = "returning" /\ b.read /\ b.urns = two
  <2>1. item \in Items
    BY <1>1
  <2>2. /\ a \in SheetRecords /\ a.item = item /\ a.kind = "unique" /\ a.read
        /\ a.urns = one
    BY <2>1, <1>5, <1>6, <1>7, CountedFacts
  <2>3. /\ b \in SheetRecords /\ b.item = item /\ b.kind = "returning" /\ b.read
        /\ b.urns = two
    BY <2>1, <1>5, <1>6, <1>7, CountedFacts
  <2> QED BY <2>2, <2>3
<1>9. ContactSheets(item, rows) = <<a, b>>
  BY <1>3, <1>4, <1>7 DEF ContactSheets
<1>10. ContactsComplete(1, one) /\ ContactsComplete(2, two)
  BY <1>3, ContactsFacts DEF IndInv
<1>11. SheetOK(a) /\ SheetOK(b) /\ Shared(a, run.shared) /\ Shared(b, run.shared)
  BY <1>2, <1>3, <1>7, <1>8, <1>10 DEF SheetOK, Shared
<1>12. HasSection(<<a, b>>, "CONTACTS")
  <2>1. /\ 1 \in 1..Len(<<a, b>>) /\ 2 \in 1..Len(<<a, b>>)
        /\ <<a, b>>[1] = a /\ <<a, b>>[2] = b
    OBVIOUS
  <2> QED BY <1>8, <2>1 DEF HasSection
<1>13. \A i \in 1..Len(<<a, b>>) : <<a, b>>[i] = a \/ <<a, b>>[i] = b
  OBVIOUS
<1> QED BY <1>1, <1>7, <1>8, <1>9, <1>11, <1>12, <1>13 DEF Complete

\* What Add does is what is built.
LEMMA AddFacts ==
    ASSUME IndInv, NEW item, Building(item), Working, disk' = disk, NEW new,
           \/ run' = Add(run, item, new) /\ run.walk = NoWalk
           \/ run' = Add(Used(run, item.section), item, new) /\ run.walk = NoWalk
           \/ run' = [Add(Used(run, item.section), item, new) EXCEPT !.walk = NoWalk]
    PROVE  /\ Builds(item, new)
           /\ run' # Add(run, item, new) => run'.keys = run.keys \cup {Key(item.section)}
<1>1. run \in RunRecords(run.names)
  BY WorkingFacts
<1>2. CASE run' = Add(run, item, new) /\ run.walk = NoWalk
  BY <1>1, <1>2 DEF Builds, Add, RunRecords
<1>3. CASE \/ run' = Add(Used(run, item.section), item, new) /\ run.walk = NoWalk
           \/ run' = [Add(Used(run, item.section), item, new) EXCEPT !.walk = NoWalk]
  BY <1>1, <1>3 DEF Builds, Add, Used, RunRecords
<1> QED BY <1>2, <1>3

LEMMA BuildLazyStep ==
    ASSUME IndInv, NEW item, BuildLazy(item)
    PROVE  IndInv'
<1> DEFINE s == item.section
<1>1. /\ Building(item) /\ IsList(s) /\ run.streaming /\ redis' = redis /\ disk' = disk
      /\ UNCHANGED <<world, data, ghosts, status, interrupted, runs, faults, report>>
  BY DEF BuildLazy
<1>2. /\ item \in Items /\ NameOf(item) \in Names /\ run.walk = NoWalk
      /\ s \in Sections \cup {"custom", "crosstab"} /\ s \notin Surveys
      /\ run.step \in {"build", "widgets"} /\ TypeInv /\ run \in RunRecords(run.names)
      /\ s = "CONTACTS" => run.step = "build" /\ s \in plan.sections
  BY <1>1, BuildingFacts, SectionsFacts DEF IsList, Building, IndInv, TypeInv
<1>3. PICK new : run' = Add(run, item, new) /\
          IF s # "CONTACTS" THEN new = <<Sheet(item, "events", NameOf(item))>>
          ELSE new = ContactSheets(item, IF Spooled THEN run.shared ELSE Events(Query("CONTACTS")))
  BY DEF BuildLazy
<1>4. Working
  BY <1>1, <1>2, <1>3 DEF Working, Add, RunRecords
<1>5. new \in Seq(SheetRecords) /\ Complete(item, new)
  <2>1. CASE s # "CONTACTS"
    <3>1. PICK sheet : sheet = Sheet(item, "events", NameOf(item))
      OBVIOUS
    <3>2. sheet \in SheetRecords /\ sheet.item = item /\ sheet.kind = "events" /\ ~sheet.read
      BY <1>2, <3>1, SheetFacts, RowSetsFacts DEF Kinds
    <3> QED BY <1>1, <1>3, <2>1, <3>1, <3>2, ListFacts
  <2>2. CASE s = "CONTACTS"
    <3>1. PICK rows : rows = IF Spooled THEN run.shared ELSE Events(Query("CONTACTS"))
      OBVIOUS
    <3>2. Query("CONTACTS") = ClassificationQuery
      BY <1>2, <2>2, QueryFacts DEF Classified, TypeInv
    <3>3. CASE Spooled
      <4>1. Shares
        BY <1>2, <2>2, <3>3 DEF Shares, Classified
      <4>2. Found(ClassificationQuery, run.shared) /\ run.shared \in RowSets
        BY <1>2, <2>2, <4>1 DEF IndInv, SharedInv, RunRecords
      <4> QED BY <1>1, <1>3, <2>2, <3>1, <3>3, <4>2, ContactSheetsFacts
    <3>4. CASE ~Spooled
      <4>1. ~(Classified \subseteq plan.sections)
        BY <1>1, <3>4 DEF Spooled
      <4>2. rows \in RowSets /\ Found(ClassificationQuery, rows)
        BY <1>2, <3>1, <3>2, <3>4, EventsFacts
      <4> QED BY <1>1, <1>3, <2>2, <3>1, <4>1, <4>2, ContactSheetsFacts
    <3> QED BY <3>3, <3>4
  <2> QED BY <2>1, <2>2
<1>6. Builds(item, new)
  BY <1>1, <1>2, <1>3, <1>4, AddFacts
<1>7. RedisTyped' /\ RedisInv'
  BY <1>1, <1>4, RedisKept
<1> QED BY <1>1, <1>2, <1>5, <1>6, <1>7, BuildsStep

LEMMA BuildListStep ==
    ASSUME IndInv, NEW item, BuildList(item)
    PROVE  IndInv'
<1> DEFINE s == item.section
           sheet(rows) == Filled(Sheet(item, "events", NameOf(item)), KeptRows(s, rows))
<1>1. /\ Building(item) /\ IsList(s) /\ ~run.streaming /\ disk' = disk
      /\ UNCHANGED <<world, data, ghosts, status, interrupted, runs, faults, report>>
  BY DEF BuildList
<1>2. /\ item \in Items /\ NameOf(item) \in Names /\ run.walk = NoWalk
      /\ s \in Sections \cup {"custom", "crosstab"} /\ s \notin Surveys
      /\ run.step \in {"build", "widgets"} /\ TypeInv /\ run \in RunRecords(run.names)
      /\ s \in Classified => run.step = "build" /\ s \in plan.sections
  BY <1>1, BuildingFacts, SectionsFacts DEF IsList, Building, IndInv, TypeInv, Classified
<1>3. s \in Classified => Found(ClassificationQuery, run.shared) /\ run.shared \in RowSets
  <2> SUFFICES ASSUME s \in Classified
               PROVE  Found(ClassificationQuery, run.shared) /\ run.shared \in RowSets
    OBVIOUS
  <2>1. Shares
    BY <1>1, <1>2 DEF Shares
  <2> QED BY <1>2, <2>1 DEF IndInv, SharedInv, RunRecords
<1>4. ASSUME NEW rows \in RowSets, Found(Query(s), rows), s # "CONTACTS",
             s = "RESOLUTIONS" => rows = run.shared
      PROVE  <<sheet(rows)>> \in Seq(SheetRecords) /\ Complete(item, <<sheet(rows)>>)
  <2>1. PICK one, kept : one = sheet(rows) /\ kept = KeptRows(s, rows)
    OBVIOUS
  <2>2. kept \in RowSets
    BY <2>1, KeptFacts
  <2>3. /\ one \in SheetRecords /\ one.item = item /\ one.kind = "events" /\ one.read
        /\ one.rows = kept
    BY <1>2, <2>1, <2>2, SheetFacts DEF Kinds
  <2> QED BY <1>1, <1>4, <2>1, <2>3, ListFacts
<1> HIDE DEF sheet
<1>5. CASE s = "CONTACTS"
  <2>1. PICK new : new = ContactSheets(item, run.shared)
    OBVIOUS
  <2>2. run' = Add(run, item, new) /\ redis' = redis
    BY <1>5, <2>1 DEF BuildList
  <2>3. Working
    BY <1>1, <1>2, <2>2 DEF Working, Add, RunRecords
  <2>4. new \in Seq(SheetRecords) /\ Complete(item, new)
    <3>1. PICK rows : rows = run.shared
      OBVIOUS
    <3>2. rows \in RowSets /\ Found(ClassificationQuery, rows)
      BY <1>3, <1>5, <3>1 DEF Classified
    <3> QED BY <1>1, <1>5, <2>1, <3>1, <3>2, ContactSheetsFacts
  <2>5. Builds(item, new)
    BY <1>1, <1>2, <2>2, <2>3, AddFacts
  <2>6. RedisTyped' /\ RedisInv'
    BY <2>2, <2>3, RedisKept
  <2> QED BY <1>2, <2>2, <2>4, <2>5, <2>6, BuildsStep
<1>6. CASE s = "RESOLUTIONS"
  <2>1. PICK rows : rows = run.shared
    OBVIOUS
  <2>2. PICK new : new = IF Empty(rows) THEN <<>> ELSE <<sheet(rows)>>
    OBVIOUS
  <2>3. run' = Add(run, item, new) /\ redis' = redis
    BY <1>6, <2>1, <2>2 DEF BuildList, sheet
  <2>4. Working
    BY <1>1, <1>2, <2>3 DEF Working, Add, RunRecords
  <2>5. rows \in RowSets /\ Found(ClassificationQuery, rows) /\ Query(s) = ClassificationQuery
    BY <1>2, <1>3, <1>6, <2>1, QueryFacts DEF Classified, TypeInv
  <2>6. new \in Seq(SheetRecords) /\ Complete(item, new)
    <3>1. CASE Empty(rows)
      <4>1. new = <<>>
        BY <2>2, <3>1
      <4>2. HasSection(new, s)
        BY <1>2, <1>6, <2>5, <3>1, EmptyFacts DEF HasSection
      <4> QED BY <1>6, <4>1, <4>2, SectionsFacts DEF Complete
    <3>2. CASE ~Empty(rows)
      BY <1>4, <1>6, <2>1, <2>2, <2>5, <3>2
    <3> QED BY <3>1, <3>2
  <2>7. Builds(item, new)
    BY <1>1, <1>2, <2>3, <2>4, AddFacts
  <2>8. RedisTyped' /\ RedisInv'
    BY <2>3, <2>4, RedisKept
  <2> QED BY <1>2, <2>3, <2>6, <2>7, <2>8, BuildsStep
<1>7. CASE s # "CONTACTS" /\ s # "RESOLUTIONS"
  <2>1. PICK rows : rows = StandardRows(s)
    OBVIOUS
  <2>2. PICK new : new = <<sheet(rows)>>
    OBVIOUS
  <2>3. run' = Add(Used(run, s), item, new) /\ ReadStandard(s)
    BY <1>7, <2>1, <2>2 DEF BuildList, sheet
  <2>4. Working
    BY <1>1, <1>2, <2>3 DEF Working, Add, Used, RunRecords
  <2>5. rows \in RowSets /\ Found(Query(s), rows)
    BY <1>2, <2>1, StandardFacts
  <2>6. new \in Seq(SheetRecords) /\ Complete(item, new)
    BY <1>4, <1>7, <2>2, <2>5
  <2>7. Builds(item, new) /\ run'.keys = run.keys \cup {Key(s)}
    <3>1. run'.keys = run.keys \cup {Key(s)}
      BY <1>2, <2>3 DEF Add, Used, RunRecords
    <3> QED BY <1>1, <1>2, <2>3, <2>4, <3>1, AddFacts
  <2>8. RedisTyped' /\ RedisInv' /\ DOMAIN redis' \subseteq DOMAIN redis \cup {Key(s)}
    BY <1>2, <2>3, <2>4, ReadFacts
  <2> QED BY <1>2, <2>6, <2>7, <2>8, BuildsStep
<1> QED BY <1>5, <1>6, <1>7

LEMMA BuildSummaryStep ==
    ASSUME IndInv, NEW item, BuildSummary(item)
    PROVE  IndInv'
<1> DEFINE s == item.section
<1>1. /\ Building(item) /\ Summary(s) /\ redis' = redis /\ disk' = disk
      /\ UNCHANGED <<world, data, ghosts, status, interrupted, runs, faults, report>>
  BY DEF BuildSummary
<1>2. /\ item \in Items /\ NameOf(item) \in Names
      /\ s \in Sections \cup {"custom", "crosstab"} /\ s \notin Surveys
      /\ run.step \in {"build", "widgets"} /\ TypeInv /\ run \in RunRecords(run.names)
  BY <1>1, BuildingFacts DEF Summary, Surveys, Invoked, Building, IndInv, TypeInv
<1>3. PICK now : now = Events(Query(s))
  OBVIOUS
<1>4. PICK rows \in {now, [f \in DOMAIN now |-> 0]} :
          run' = Add(run, item, <<Filled(Sheet(item, "summary", NameOf(item)), rows)>>)
  BY <1>3 DEF BuildSummary
<1>5. rows \in RowSets
  <2>1. now \in RowSets
    BY <1>2, <1>3, EventsFacts
  <2>2. [f \in DOMAIN now |-> 0] \in RowSets
    BY <2>1, RowSetsFacts
  <2> QED BY <2>1, <2>2
<1>6. PICK sheet, new : sheet = Filled(Sheet(item, "summary", NameOf(item)), rows) /\ new = <<sheet>>
  OBVIOUS
<1>7. sheet \in SheetRecords /\ sheet.item = item /\ sheet.kind = "summary" /\ sheet.read
  BY <1>2, <1>5, <1>6, SheetFacts DEF Kinds
<1>8. Working
  BY <1>1, <1>2, <1>4, <1>6 DEF Working, Add, RunRecords
<1>9. new \in Seq(SheetRecords) /\ Complete(item, new)
  <2>1. SheetOK(sheet) /\ Shared(sheet, run.shared)
    BY <1>7 DEF SheetOK, Shared
  <2>2. Len(new) = 1 /\ new[1] = sheet /\ 1 \in 1..Len(new) /\ \A i \in 1..Len(new) : new[i] = sheet
    BY <1>6
  <2>3. s \notin Sections => HasWidget(new, item.widget)
    <3>1. s \notin Sections => item = Item(plan.widgets[item.widget].kind, item.widget)
      BY <1>1, BuildingFacts, PlanFacts DEF IndInv
    <3> QED BY <1>7, <2>2, <3>1 DEF HasWidget
  <2>4. HasSection(new, s)
    BY <1>7, <2>2 DEF HasSection
  <2> QED BY <1>6, <1>7, <2>1, <2>2, <2>3, <2>4 DEF Complete
<1>10. Builds(item, new)
  BY <1>1, <1>2, <1>4, <1>6, <1>8, BuildingFacts, AddFacts
<1>11. RedisTyped' /\ RedisInv'
  BY <1>1, <1>8, RedisKept
<1> QED BY <1>1, <1>2, <1>9, <1>10, <1>11, BuildsStep

-----------------------------------------------------------------------------
(* The walk over the contacts of a survey.                                 *)

\* The contacts that a page is taken from.
Left(s) ==
    {c \in DOMAIN docs : Included(s, docs[c].answer) /\ (run.walk.page = 1 \/ docs[c].at < run.walk.after)}

\* A page has the last to answer of those left, and nobody is left when it is empty.
LEMMA PageFacts ==
    ASSUME TypeInv, NEW s
    PROVE  /\ PageOf(s) \subseteq Left(s)
           /\ \A c \in PageOf(s), d \in Left(s) : docs[d].at >= docs[c].at => d \in PageOf(s)
           /\ Left(s) # {} => PageOf(s) # {}
<1> DEFINE Above(c) == {d \in Left(s) : docs[d].at > docs[c].at}
<1>1. PageOf(s) = {c \in Left(s) : Cardinality(Above(c)) < PageSize}
  BY DEF PageOf, Left
<1>2. \A c \in Left(s) : docs[c].at \in Nat /\ docs[c].at <= Cardinality(Contacts) + MaxMoves
  BY DEF TypeInv, Left
<1>3. \A c \in Left(s) : IsFiniteSet(Above(c)) /\ Cardinality(Above(c)) \in Nat
  <2> TAKE c \in Left(s)
  <2>1. Above(c) \subseteq Contacts
    BY DEF TypeInv, Left
  <2> QED BY <2>1, FS_Subset, FS_CardinalityType, BoundsAssumption
<1>4. ASSUME NEW c \in PageOf(s), NEW d \in Left(s), docs[d].at >= docs[c].at
      PROVE  d \in PageOf(s)
  <2>1. c \in Left(s) /\ Cardinality(Above(c)) < PageSize
    BY <1>1
  <2>2. Above(d) \subseteq Above(c)
    BY <1>2, <1>4, <2>1
  <2>3. Cardinality(Above(d)) <= Cardinality(Above(c))
    BY <1>3, <2>1, <2>2, FS_Subset
  <2>4. Cardinality(Above(d)) < PageSize
    <3>1. Cardinality(Above(c)) \in Nat /\ Cardinality(Above(d)) \in Nat /\ PageSize \in Nat
      BY <1>3, <2>1, BoundsAssumption
    <3> HIDE DEF Above
    <3> QED BY <2>1, <2>3, <3>1
  <2> QED BY <1>1, <2>4
<1>5. ASSUME Left(s) # {} PROVE PageOf(s) # {}
  <2> DEFINE Times == {docs[c].at : c \in Left(s)}
             bound == Cardinality(Contacts) + MaxMoves
  <2>1. Times \in SUBSET Nat /\ Times # {} /\ \A y \in Times : y <= bound
    BY <1>2, <1>5
  <2>2. bound \in Nat
    BY BoundsAssumption, FS_CardinalityType
  <2>3. PICK last : last \in Times /\ \A y \in Times : y <= last
    <3> HIDE DEF Times, bound
    <3> QED BY <2>1, <2>2, MaxIsGreatest
  <2>4. PICK c \in Left(s) : docs[c].at = last
    BY <2>3
  <2>5. Above(c) = {}
    BY <1>2, <2>3, <2>4
  <2>6. Cardinality(Above(c)) = 0
    BY <2>5, FS_EmptySet
  <2>7. Cardinality(Above(c)) < PageSize
    <3> HIDE DEF Above
    <3> QED BY <2>6, BoundsAssumption
  <2> QED BY <1>1, <2>4, <2>7
<1> QED BY <1>1, <1>4, <1>5

\* What a page adds to the walk.
LEMMA AddRowsFacts ==
    ASSUME NEW rows \in RowSets, NEW s \in Surveys, flow \in [Surveys -> {"flow1", "flow2"}],
           NEW page \in SUBSET DOMAIN docs, DOMAIN docs \subseteq Contacts,
           \A c \in page : docs[c].answer \in {"plain", "odd", "blank"},
           \A f \in DOMAIN rows : rows[f] = 1 /\ f.urn \notin page
    PROVE  /\ AddRows(rows, s, page) \in RowSets
           /\ DOMAIN AddRows(rows, s, page) = DOMAIN rows \cup {Doc(c, Query(s).key) : c \in page}
           /\ \A f \in DOMAIN AddRows(rows, s, page) : AddRows(rows, s, page)[f] = 1
<1> DEFINE new == {Doc(c, Query(s).key) : c \in page}
           of(f) == IF f \in DOMAIN rows THEN rows[f] ELSE 0
<1>1. AddRows(rows, s, page) = [f \in DOMAIN rows \cup new |-> of(f) + (IF f \in new THEN 1 ELSE 0)]
  BY DEF AddRows
<1>2. \A f \in new : f \notin DOMAIN rows
  BY DEF Doc
<1>3. Query(s).key \in EventKeys
  BY QueryFacts, SectionsFacts DEF Surveys, Keys
<1>4. new \subseteq Fact
  BY <1>3 DEF Doc, Fact
<1>5. DOMAIN rows \subseteq Fact
  BY RowSetsFacts
<1>6. PICK r : r = AddRows(rows, s, page)
  OBVIOUS
<1>7. r = [f \in DOMAIN r |-> r[f]] /\ DOMAIN r = DOMAIN rows \cup new /\ \A f \in DOMAIN r : r[f] = 1
  BY <1>1, <1>2, <1>6
<1>8. r \in RowSets
  BY <1>4, <1>5, <1>7, RowSetsFacts
<1> QED BY <1>6, <1>7, <1>8

LEMMA WalkPageStep ==
    ASSUME IndInv, NEW item, WalkPage(item)
    PROVE  IndInv'
<1> DEFINE s == item.section
<1>1. /\ Building(item) /\ s \in Surveys /\ redis' = redis /\ disk' = disk
      /\ UNCHANGED <<world, data, ghosts, status, interrupted, runs, faults, report>>
  BY DEF WalkPage
<1>2. PICK page, rows : page = PageOf(s) /\ rows = run.walk.rows
  OBVIOUS
<1>3. PICK after, more : after = Min({docs[c].at : c \in page}) /\ more = AddRows(rows, s, page)
  OBVIOUS
<1>4. page # {} /\ run' = [run EXCEPT !.walk = [page |-> run.walk.page + 1, after |-> after, rows |-> more]]
  BY <1>2, <1>3 DEF WalkPage
<1>5. /\ TypeInv /\ run \in RunRecords(run.names) /\ run.step \in {"build", "widgets"}
      /\ item = Item(s, 0) /\ s \in plan.sections /\ WalkAt(s)
  BY <1>1, BuildingFacts, SectionsFacts DEF IndInv, TypeInv, Building, Surveys
<1>6. /\ run.walk \in Walks /\ rows \in RowSets /\ run.walk.page \in Nat \ {0}
      /\ run.walk.after \in Nat
  BY <1>2, <1>5 DEF RunRecords, Walks
<1>7. /\ \A c \in DOMAIN docs : docs[c].at \in Nat /\ docs[c].answer \in {"plain", "odd", "blank"}
      /\ DOMAIN docs \subseteq Contacts /\ unmoved \subseteq DOMAIN docs
      /\ flow \in [Surveys -> {"flow1", "flow2"}]
  BY <1>5 DEF TypeInv, TypeOK
<1>8. /\ \A c \in page : c \in DOMAIN docs /\ Included(s, docs[c].answer)
                         /\ (run.walk.page = 1 \/ docs[c].at < run.walk.after)
      /\ \A c \in page, d \in Left(s) : docs[d].at >= docs[c].at => d \in page
  BY <1>2, <1>5, PageFacts DEF Left
<1>9. /\ WalkRows(s, rows)
      /\ \A f \in DOMAIN rows : /\ f.urn \in DOMAIN docs /\ docs[f.urn].at >= run.walk.after
                                /\ run.walk.page # 1
      /\ run.walk.page # 1 => \A c \in unmoved : Included(s, docs[c].answer) /\ docs[c].at >= run.walk.after
                                                   => Doc(c, Query(s).key) \in DOMAIN rows
  <2>1. CASE run.walk = NoWalk
    BY <1>2, <2>1 DEF NoWalk, NoRows, WalkRows
  <2>2. CASE run.walk.page > 1 /\ WalkOK(s)
    BY <1>2, <2>2 DEF WalkOK
  <2> QED BY <1>5, <2>1, <2>2 DEF WalkAt
<1>10. \A f \in DOMAIN rows : f.urn \notin page
  BY <1>6, <1>7, <1>8, <1>9
<1>11. /\ more \in RowSets
       /\ DOMAIN more = DOMAIN rows \cup {Doc(c, Query(s).key) : c \in page}
       /\ \A f \in DOMAIN more : more[f] = 1
  <2>1. page \in SUBSET DOMAIN docs /\ \A c \in page : docs[c].answer \in {"plain", "odd", "blank"}
    BY <1>7, <1>8
  <2>2. \A f \in DOMAIN rows : rows[f] = 1 /\ f.urn \notin page
    BY <1>9, <1>10 DEF WalkRows
  <2> QED BY <1>1, <1>3, <1>6, <1>7, <2>1, <2>2, AddRowsFacts
<1>12. after \in Nat /\ (\A c \in page : after <= docs[c].at) /\ \E c \in page : after = docs[c].at
  <2> DEFINE Times == {docs[c].at : c \in page}
  <2>1. Times \in SUBSET Nat /\ Times # {}
    BY <1>4, <1>7, <1>8
  <2>2. after \in Times /\ \A y \in Times : after <= y
    <3>1. after = Min(Times)
      BY <1>3
    <3> HIDE DEF Times
    <3> QED BY <2>1, <3>1, MinIsLeast
  <2> QED BY <2>1, <2>2
<1>13. PICK walk : walk = [page |-> run.walk.page + 1, after |-> after, rows |-> more]
  OBVIOUS
<1>14. walk \in Walks /\ run' = [run EXCEPT !.walk = walk] /\ walk.page > 1
  BY <1>4, <1>6, <1>11, <1>12, <1>13 DEF Walks
<1>15. /\ run' \in RunRecords(run.names) /\ run'.walk = walk
       /\ run'.step = run.step /\ run'.streaming = run.streaming /\ run'.flags = run.flags
       /\ run'.written = run.written /\ run'.names = run.names /\ run'.shared = run.shared
       /\ run'.todo = run.todo /\ run'.sheets = run.sheets /\ run'.keys = run.keys
  BY <1>5, <1>14 DEF RunRecords
<1>16. Working
  BY <1>1, <1>5, <1>15 DEF Working
<1>17. /\ UNCHANGED <<plan, format, flow, facts, lake, docs, live, unmoved, floor, excused,
                      status, interrupted, runs, faults, report>>
       /\ StatusInv' /\ ReportInv' /\ ResultsDropped'
  BY <1>16, WorkingFacts
<1>18. RedisTyped' /\ RedisInv'
  BY <1>1, <1>16, RedisKept
<1>19. TypeInv'
  <2>1. /\ IsFiniteSet(run'.names) /\ disk' \subseteq FileNames
        /\ format = "XLSX" => Cardinality(run'.names) = run'.written
        /\ run'.written \in 0..Len(run'.sheets) /\ \A i \in 1..run'.written : run'.sheets[i].read
    BY <1>1, <1>5, <1>15 DEF TypeInv, TypeOK, FileNames
  <2> QED BY <1>15, <1>16, <1>18, <2>1, WorkingTypes
<1>20. TodoInv' /\ DiskInv'
  BY <1>1, <1>15, <1>17 DEF IndInv, TodoInv, DiskInv
<1>21. KeysInv'
  BY <1>1, <1>15, <1>17 DEF IndInv, KeysInv, Key, Query, SurveyQuery
<1>22. SharedInv'
  BY <1>15, <1>17 DEF IndInv, SharedInv, Shares, Spooled, Found, Answers
<1>23. WalkInv'
  <2>1. WalkRows(s, more)
    <3>1. \A f \in DOMAIN more : Included(s, f.kind)
      BY <1>8, <1>9, <1>11 DEF WalkRows, Doc
    <3>2. \A f, g \in DOMAIN more : f.urn = g.urn => f = g
      BY <1>9, <1>10, <1>11 DEF WalkRows, Doc
    <3> QED BY <1>11, <3>1, <3>2 DEF WalkRows
  <2>2. \A f \in DOMAIN more : f.urn \in DOMAIN docs /\ docs[f.urn].at >= after
    <3>1. \A c \in page : Doc(c, Query(s).key).urn = c
      BY DEF Doc
    <3>2. \A f \in DOMAIN rows : f.urn \in DOMAIN docs /\ docs[f.urn].at >= after
      BY <1>6, <1>7, <1>8, <1>9, <1>12
    <3> QED BY <1>7, <1>8, <1>11, <1>12, <3>1, <3>2
  <2>3. \A c \in unmoved : Included(s, docs[c].answer) /\ docs[c].at >= after
                             => Doc(c, Query(s).key) \in DOMAIN more
    <3> SUFFICES ASSUME NEW c \in unmoved, Included(s, docs[c].answer), docs[c].at >= after
                 PROVE  Doc(c, Query(s).key) \in DOMAIN more
      OBVIOUS
    <3>1. CASE run.walk.page = 1 \/ docs[c].at < run.walk.after
      <4>1. c \in Left(s)
        BY <1>7, <3>1 DEF Left
      <4>2. c \in page
        BY <1>8, <1>12, <4>1
      <4> QED BY <1>11, <4>2
    <3>2. CASE run.walk.page # 1 /\ docs[c].at >= run.walk.after
      BY <1>9, <1>11, <3>2
    <3> QED BY <1>6, <1>7, <3>1, <3>2
  <2>4. WalkOK(s)'
    <3>1. walk.rows = more /\ walk.after = after
      BY <1>13
    <3>2. Query(s)' = Query(s) /\ \A c, k : Doc(c, k)' = Doc(c, k)
      BY <1>17 DEF Query, SurveyQuery, Doc
    <3> QED BY <1>15, <1>17, <2>1, <2>2, <2>3, <3>1, <3>2 DEF WalkOK, WalkRows
  <2>5. Building(Item(s, 0))'
    BY <1>1, <1>5, <1>15, <1>17 DEF Building, Place
  <2> QED BY <1>1, <1>14, <1>15, <2>4, <2>5 DEF WalkInv
<1>24. SheetsInv' /\ DoneInv'
  <2>1. PICK sheets, shared : sheets = run.sheets /\ shared = run.shared
    OBVIOUS
  <2>2. sheets \in Seq(SheetRecords)
    BY <1>5, <2>1 DEF RunRecords
  <2>3. Steady
    BY <1>16, WorkingFacts
  <2> QED BY <1>5, <1>15, <1>17, <1>19, <2>1, <2>2, <2>3, SheetsStay DEF IndInv, SheetsInv, DoneInv
<1> QED BY <1>17, <1>18, <1>19, <1>20, <1>21, <1>22, <1>23, <1>24 DEF IndInv

LEMMA EndWalkStep ==
    ASSUME IndInv, NEW item, EndWalk(item)
    PROVE  IndInv'
<1> DEFINE s == item.section
<1>1. /\ Building(item) /\ s \in Surveys /\ disk' = disk
      /\ UNCHANGED <<world, data, ghosts, status, interrupted, runs, faults, report>>
  BY DEF EndWalk
<1>2. PICK rows : rows = IF Key(s) \in DOMAIN redis THEN redis[Key(s)] ELSE run.walk.rows
  OBVIOUS
<1>3. PICK sheet, new : sheet = SurveySheet(item, rows) /\ new = <<sheet>>
  OBVIOUS
<1>4. /\ Key(s) \in DOMAIN redis \/ PageOf(s) = {}
      /\ redis' = [q \in DOMAIN redis \cup {Key(s)} |-> IF q = Key(s) THEN rows ELSE redis[q]]
      /\ run' = [Add(Used(run, s), item, new) EXCEPT !.walk = NoWalk]
  BY <1>2, <1>3 DEF EndWalk
<1>5. /\ TypeInv /\ run \in RunRecords(run.names) /\ run.step \in {"build", "widgets"}
      /\ item \in Items /\ NameOf(item) \in Names /\ WalkAt(s) /\ s \in Sections
      /\ flow \in [Surveys -> {"flow1", "flow2"}]
  BY <1>1, BuildingFacts, SectionsFacts DEF IndInv, TypeInv, Building, Surveys
<1>6. rows \in RowSets
  BY <1>2, <1>5 DEF TypeInv, RunRecords, Walks
<1>7. ~OneFlow => WalkFound(s, rows)
  <2> SUFFICES ASSUME ~OneFlow PROVE WalkFound(s, rows)
    OBVIOUS
  <2>1. CASE Key(s) \in DOMAIN redis
    BY <1>1, <1>2, <2>1 DEF IndInv, RedisInv, Key
  <2>2. CASE Key(s) \notin DOMAIN redis
    <3>1. rows = run.walk.rows /\ Left(s) = {}
      BY <1>2, <1>4, <1>5, <2>2, PageFacts
    <3>2. \A c \in unmoved : c \in DOMAIN docs
      BY <1>5 DEF TypeInv, TypeOK
    <3>3. \A c \in unmoved : Included(s, docs[c].answer) =>
              run.walk.page # 1 /\ ~(docs[c].at < run.walk.after)
      BY <3>1, <3>2 DEF Left
    <3>4. CASE run.walk = NoWalk
      <4>1. run.walk.page = 1 /\ DOMAIN rows = {}
        BY <3>1, <3>4 DEF NoWalk, NoRows
      <4> QED BY <3>3, <4>1 DEF WalkFound, WalkRows
    <3>5. CASE WalkOK(s)
      <4>1. \A c \in unmoved : docs[c].at \in Nat /\ run.walk.after \in Nat
        BY <1>5, <3>2 DEF TypeInv, RunRecords, Walks
      <4>2. \A c \in unmoved : Included(s, docs[c].answer) => docs[c].at >= run.walk.after
        BY <3>3, <4>1
      <4> QED BY <3>1, <3>5, <4>2 DEF WalkFound, WalkOK
    <3> QED BY <1>5, <3>4, <3>5 DEF WalkAt
  <2> QED BY <2>1, <2>2
<1>8. Working
  BY <1>1, <1>4, <1>5 DEF Working, Add, Used, RunRecords
<1>9. PICK kept : kept = [f \in {g \in DOMAIN rows : g.kind # "blank"} |-> rows[f]]
  OBVIOUS
<1>10. kept \in RowSets /\ (WalkFound(s, rows) => SurveyComplete(s, kept))
  BY <1>6, <1>9, SurveyFacts
<1>11. /\ sheet \in SheetRecords /\ sheet.item = item /\ sheet.kind = "survey" /\ sheet.read
       /\ sheet.rows = kept
  <2>1. sheet = Filled(Sheet(item, "survey", NameOf(item)), kept)
    BY <1>3, <1>9 DEF SurveySheet
  <2> QED BY <1>5, <1>10, <2>1, SheetFacts DEF Kinds
<1>12. new \in Seq(SheetRecords) /\ Complete(item, new)
  <2>1. SheetOK(sheet) /\ Shared(sheet, run.shared)
    BY <1>1, <1>7, <1>10, <1>11 DEF SheetOK, Shared
  <2>2. Len(new) = 1 /\ new[1] = sheet /\ 1 \in 1..Len(new) /\ \A i \in 1..Len(new) : new[i] = sheet
    BY <1>3
  <2>3. HasSection(new, s)
    BY <1>1, <1>11, <2>2 DEF HasSection
  <2> QED BY <1>3, <1>5, <1>11, <2>1, <2>2, <2>3 DEF Complete
<1>13. run'.keys = run.keys \cup {Key(s)}
  BY <1>4, <1>5 DEF Add, Used, RunRecords
<1>14. Builds(item, new)
  BY <1>1, <1>4, <1>8, AddFacts
<1>15. RedisTyped' /\ RedisInv'
  BY <1>1, <1>4, <1>5, <1>6, <1>7, <1>8, RedisAdded
<1>16. DOMAIN redis' \subseteq DOMAIN redis \cup run'.keys
  BY <1>4, <1>13
<1> QED BY <1>12, <1>13, <1>14, <1>15, <1>16, BuildsStep

-----------------------------------------------------------------------------
(* From the events that are shared to the files.                           *)

\* No survey is under way unless there is something to build.
LEMMA NoWalkFacts ==
    ASSUME IndInv, run.step \notin {"build", "widgets"} \/ run.todo = {}
    PROVE  run.walk = NoWalk
BY DEF IndInv, WalkInv, Building

LEMMA ShareStep ==
    ASSUME IndInv, Share
    PROVE  IndInv'
<1>1. /\ run.step = "share"
      /\ UNCHANGED <<world, data, ghosts, status, interrupted, runs, faults, report>>
  BY DEF Share
<1>2. TypeInv /\ run \in RunRecords(run.names) /\ flow \in [Surveys -> {"flow1", "flow2"}]
  BY DEF IndInv, TypeInv
<1>3. "RESOLUTIONS" \in Sections \ Surveys
  BY SectionsFacts DEF Surveys
<1>4. PICK shared, keys :
          /\ shared = IF run.streaming THEN IF Spooled THEN Events(Query("RESOLUTIONS")) ELSE NoRows
                      ELSE StandardRows("RESOLUTIONS")
          /\ keys = IF run.streaming THEN run.keys ELSE run.keys \cup {Key("RESOLUTIONS")}
  OBVIOUS
<1>5. run' = [run EXCEPT !.step = "build", !.shared = shared, !.keys = keys]
  BY <1>2, <1>4 DEF Share, Used, RunRecords
<1>6. /\ run.streaming => redis' = redis
      /\ ~run.streaming => ReadStandard("RESOLUTIONS")
      /\ disk' = disk \/ disk' = disk \cup {<<"spool", runs, 0>>}
  BY DEF Share
<1>7. /\ shared \in RowSets
      /\ Shares => Found(ClassificationQuery, shared)
  <2>1. Query("RESOLUTIONS") = ClassificationQuery
    BY <1>2, <1>3, QueryFacts DEF Classified
  <2>2. StandardRows("RESOLUTIONS") \in RowSets /\ Found(ClassificationQuery, StandardRows("RESOLUTIONS"))
    BY <1>3, <2>1, StandardFacts
  <2>3. /\ Events(Query("RESOLUTIONS")) \in RowSets /\ NoRows \in RowSets
        /\ Found(ClassificationQuery, Events(Query("RESOLUTIONS")))
    BY <1>2, <2>1, EventsFacts, RowSetsFacts
  <2> QED BY <1>4, <2>2, <2>3 DEF Shares
<1>8. keys \in SUBSET Keys
  BY <1>2, <1>3, <1>4, QueryFacts DEF Key, RunRecords
<1>9. /\ run' \in RunRecords(run.names)
      /\ run'.step = "build" /\ run'.streaming = run.streaming /\ run'.flags = run.flags
      /\ run'.written = run.written /\ run'.names = run.names /\ run'.shared = shared
      /\ run'.todo = run.todo /\ run'.sheets = run.sheets /\ run'.keys = keys /\ run'.walk = run.walk
  BY <1>2, <1>5, <1>7, <1>8 DEF RunRecords, Steps
<1>10. Working
  BY <1>1, <1>9 DEF Working
<1>11. /\ UNCHANGED <<plan, format, flow, facts, lake, docs, live, unmoved, floor, excused,
                      status, interrupted, runs, faults, report>>
       /\ StatusInv' /\ ReportInv' /\ ResultsDropped' /\ runs \in 1..MaxRuns
  BY <1>10, WorkingFacts
<1>12. RedisTyped' /\ RedisInv' /\ DOMAIN redis' \subseteq DOMAIN redis \cup keys
  <2>1. CASE run.streaming
    BY <1>6, <1>10, <2>1, RedisKept
  <2>2. CASE ~run.streaming
    BY <1>3, <1>4, <1>6, <1>10, <2>2, ReadFacts
  <2> QED BY <2>1, <2>2
<1>13. /\ run.todo = {Item(t, 0) : t \in plan.sections} /\ run.sheets = <<>> /\ run.written = 0
  BY <1>1 DEF IndInv, TodoInv
<1>14. TypeInv'
  <2>1. /\ IsFiniteSet(run'.names) /\ disk' \subseteq FileNames
        /\ format = "XLSX" => Cardinality(run'.names) = run'.written
        /\ run'.written \in 0..Len(run'.sheets) /\ \A i \in 1..run'.written : run'.sheets[i].read
    BY <1>2, <1>6, <1>9, <1>11 DEF TypeInv, TypeOK, FileNames
  <2> QED BY <1>9, <1>10, <1>12, <2>1, WorkingTypes
<1>15. TodoInv' /\ DiskInv'
  BY <1>1, <1>6, <1>9, <1>11, <1>13 DEF IndInv, TodoInv, DiskInv
<1>16. KeysInv'
  <2>1. runs = 1 => DOMAIN redis' \subseteq keys
    BY <1>1, <1>4, <1>12 DEF IndInv, KeysInv
  <2> QED BY <1>9, <1>11, <1>13, <2>1 DEF KeysInv
<1>17. SharedInv'
  BY <1>7, <1>9, <1>11 DEF SharedInv, Shares, Spooled, Found, Answers
<1>18. WalkInv'
  BY <1>1, <1>9, NoWalkFacts DEF WalkInv
<1>19. SheetsInv' /\ DoneInv'
  <2>1. 1..Len(run'.sheets) = {} /\ 1..run'.written = {}
    BY <1>9, <1>13
  <2> QED BY <1>9, <1>11, <1>13, <2>1 DEF SheetsInv, DoneInv
<1> QED BY <1>11, <1>12, <1>14, <1>15, <1>16, <1>17, <1>18, <1>19 DEF IndInv

\* The sections are done, and the run goes on to its widgets, its files or its mail.
LEMMA MovesStep ==
    ASSUME IndInv, Working, NEW step \in {"widgets", "write", "mail"}, NEW todo \in SUBSET Items,
           run' = [run EXCEPT !.step = step, !.todo = todo],
           run.step \notin {"idle", "share"}, run.todo = {}, TodoInv', redis' = redis,
           disk' \subseteq FileNames, \A f \in disk' : f \in disk \/ f[2] = runs,
           \A w \in live : Item(plan.widgets[w].kind, w) \in todo \/ HasWidget(run.sheets, w)
    PROVE  IndInv'
<1>1. TypeInv /\ run \in RunRecords(run.names) /\ Steady /\ runs \in 1..MaxRuns
  BY WorkingFacts
<1>2. /\ run' \in RunRecords(run.names)
      /\ run'.step = step /\ run'.streaming = run.streaming /\ run'.flags = run.flags
      /\ run'.written = run.written /\ run'.names = run.names /\ run'.shared = run.shared
      /\ run'.todo = todo /\ run'.sheets = run.sheets /\ run'.keys = run.keys
      /\ run'.walk = run.walk
  BY <1>1 DEF RunRecords, Steps
<1>3. /\ UNCHANGED <<plan, format, flow, facts, lake, docs, live, unmoved, floor, excused,
                     status, interrupted, runs, faults, report>>
      /\ StatusInv' /\ ReportInv' /\ ResultsDropped'
  BY WorkingFacts
<1>4. RedisTyped' /\ RedisInv'
  BY RedisKept
<1>5. TypeInv'
  <2>1. /\ IsFiniteSet(run'.names)
        /\ format = "XLSX" => Cardinality(run'.names) = run'.written
        /\ run'.written \in 0..Len(run'.sheets) /\ \A i \in 1..run'.written : run'.sheets[i].read
    BY <1>1, <1>2 DEF TypeInv, TypeOK
  <2> QED BY <1>2, <1>4, <2>1, WorkingTypes
<1>6. DiskInv'
  BY <1>2, <1>3 DEF IndInv, DiskInv
<1>7. KeysInv'
  BY <1>2, <1>3 DEF IndInv, KeysInv, Key, Query, SurveyQuery
<1>8. SharedInv'
  BY <1>2, <1>3 DEF IndInv, SharedInv, Shares, Spooled, Found, Answers
<1>9. WalkInv'
  BY <1>2, NoWalkFacts DEF WalkInv
<1>10. SheetsInv' /\ DoneInv'
  <2>1. PICK sheets, shared : sheets = run.sheets /\ shared = run.shared
    OBVIOUS
  <2>2. sheets \in Seq(SheetRecords)
    BY <1>1, <2>1 DEF RunRecords
  <2> QED BY <1>1, <1>2, <1>3, <1>5, <2>1, <2>2, SheetsStay DEF IndInv, SheetsInv, DoneInv
<1> QED BY <1>3, <1>4, <1>5, <1>6, <1>7, <1>8, <1>9, <1>10 DEF IndInv

LEMMA ListWidgetsStep ==
    ASSUME IndInv, ListWidgets
    PROVE  IndInv'
<1> DEFINE todo == {Item(plan.widgets[w].kind, w) : w \in live}
<1>1. /\ run.step = "build" /\ run.todo = {} /\ redis' = redis /\ disk' = disk
      /\ run' = [run EXCEPT !.step = "widgets", !.todo = todo]
      /\ UNCHANGED <<world, data, ghosts, status, interrupted, runs, faults, report>>
  BY DEF ListWidgets
<1>2. TypeInv /\ run \in RunRecords(run.names) /\ run.written = 0 /\ plan' = plan
  BY <1>1 DEF IndInv, TypeInv, TodoInv, world
<1>3. todo \in SUBSET Items /\ live \subseteq 1..Len(plan.widgets)
  <2>1. live \subseteq 1..Len(plan.widgets)
    BY <1>2 DEF TypeInv, TypeOK
  <2>2. \A w \in live : w \in Nat /\ plan.widgets[w].kind \in {"custom", "crosstab"}
    BY <1>2, <2>1, PlanFacts
  <2>3. \A w \in live : Item(plan.widgets[w].kind, w) \in Items
    BY <2>2, ItemFacts
  <2> QED BY <2>1, <2>3
<1>4. run'.step = "widgets" /\ run'.todo = todo /\ run'.written = 0 /\ run'.sheets = run.sheets
  BY <1>1, <1>2 DEF RunRecords
<1>5. Working /\ TodoInv'
  BY <1>1, <1>2, <1>3, <1>4 DEF Working, TodoInv
<1>6. disk' \subseteq FileNames
  BY <1>1, <1>2 DEF TypeInv, TypeOK, FileNames
<1>7. \A w \in live : Item(plan.widgets[w].kind, w) \in todo
  OBVIOUS
<1> HIDE DEF todo
<1> QED BY <1>1, <1>3, <1>5, <1>6, <1>7, MovesStep

LEMMA StartWritingStep ==
    ASSUME IndInv, StartWriting
    PROVE  IndInv'
<1>1. /\ run.step = "widgets" /\ run.todo = {} /\ redis' = redis
      /\ disk' = disk \/ disk' = disk \cup {<<"xlsx", runs, 0>>}
      /\ UNCHANGED <<world, data, ghosts, status, interrupted, runs, faults, report>>
  BY DEF StartWriting
<1>2. TypeInv /\ run \in RunRecords(run.names) /\ runs \in 1..MaxRuns /\ run.written = 0
  BY <1>1, AtWork DEF IndInv, TypeInv, TodoInv
<1>3. run' = [run EXCEPT !.step = "write", !.todo = {}]
  BY <1>1, <1>2 DEF StartWriting, RunRecords
<1>4. run'.step = "write" /\ run'.todo = {} /\ run'.written = 0
  BY <1>2, <1>3 DEF RunRecords
<1>5. Working /\ TodoInv'
  BY <1>1, <1>4 DEF Working, TodoInv
<1>6. disk' \subseteq FileNames /\ \A f \in disk' : f \in disk \/ f[2] = runs
  BY <1>1, <1>2 DEF TypeInv, TypeOK, FileNames
<1>7. \A w \in live : HasWidget(run.sheets, w)
  BY <1>1 DEF IndInv, DoneInv
<1> QED BY <1>1, <1>3, <1>5, <1>6, <1>7, MovesStep

LEMMA ConcludeStep ==
    ASSUME IndInv, Conclude
    PROVE  IndInv'
<1>1. /\ run.step = "write" /\ run.written = Len(run.sheets) /\ redis' = redis
      /\ disk' = disk \ Spools
      /\ UNCHANGED <<world, data, floor, status, interrupted, runs, faults, report>>
  BY DEF Conclude
<1>2. TypeInv /\ run \in RunRecords(run.names) /\ run.todo = {} /\ disk \subseteq FileNames
  BY <1>1 DEF IndInv, TypeInv, TypeOK, TodoInv, FileNames
<1>3. CASE interrupted
  <2>1. run' = NoRun /\ excused' = excused \cup (Files \ Spools)
    BY <1>3 DEF Conclude
  <2>2. disk' \subseteq excused'
    BY <1>1, <2>1 DEF IndInv, DiskInv, Files
  <2>3. Stopped
    BY <1>1, <1>2, <2>1, <2>2 DEF Stopped
  <2> QED BY <2>3, StoppedStep
<1>4. CASE ~interrupted
  <2>1. run' = [run EXCEPT !.step = "mail", !.todo = {}] /\ excused' = excused
    BY <1>2, <1>4 DEF Conclude, RunRecords
  <2>2. run'.step = "mail" /\ run'.todo = {} /\ run'.written = Len(run'.sheets)
    BY <1>1, <1>2, <2>1 DEF RunRecords
  <2>3. Working /\ TodoInv'
    BY <1>1, <2>1, <2>2 DEF Working, TodoInv, ghosts
  <2>4. disk' \subseteq FileNames /\ \A f \in disk' : f \in disk
    BY <1>1, <1>2
  <2>5. \A w \in live : HasWidget(run.sheets, w)
    BY <1>1, <1>2 DEF IndInv, DoneInv
  <2> QED BY <1>1, <1>2, <2>1, <2>3, <2>4, <2>5, MovesStep
<1> QED BY <1>3, <1>4

-----------------------------------------------------------------------------
(* A worksheet is written.                                                 *)

\* The worksheet that is next is written, as it is or with the rows read for it.
LEMMA WrittenStep ==
    ASSUME IndInv, NEW i, Writing(i), ~NameTaken(i), NEW sheet \in SheetRecords,
           run' = Written(i, sheet),
           sheet.item = run.sheets[i].item, sheet.kind = run.sheets[i].kind,
           sheet.name = run.sheets[i].name, sheet.read,
           SheetOK(sheet), Shared(sheet, run.shared),
           UNCHANGED <<world, data, ghosts, status, interrupted, runs, faults, redis, report>>,
           disk' = disk \/ disk' = disk \cup {<<"csv", runs, i>>}
    PROVE  IndInv'
<1>1. /\ TypeInv /\ run \in RunRecords(run.names) /\ run.step = "write" /\ run.todo = {}
      /\ i = run.written + 1 /\ i <= Len(run.sheets) /\ IsFiniteSet(run.names)
      /\ format = "XLSX" => Cardinality(run.names) = run.written
      /\ run.written \in Nat /\ run.sheets \in Seq(SheetRecords) /\ disk \subseteq FileNames
      /\ \A j \in 1..run.written : run.sheets[j].read
  BY DEF Writing, IndInv, TypeInv, TypeOK, TodoInv, RunRecords, FileNames
<1>2. PICK sheets, name, names :
          /\ sheets = [run.sheets EXCEPT ![i] = sheet] /\ name = UniqueName(sheet.name, run.names)
          /\ names = IF format = "XLSX" THEN run.names \cup {name} ELSE run.names
  OBVIOUS
<1>3. /\ sheets \in Seq(SheetRecords) /\ Len(sheets) = Len(run.sheets) /\ i \in 1..Len(sheets)
      /\ sheets[i] = sheet /\ \A j \in 1..Len(sheets) : j # i => sheets[j] = run.sheets[j]
  BY <1>1, <1>2
<1>4. run' = [run EXCEPT !.written = i, !.sheets = sheets, !.names = names]
  BY <1>1, <1>2 DEF Written, RunRecords
<1>5. /\ run' \in RunRecords(names) /\ run'.names = names
      /\ run'.step = "write" /\ run'.streaming = run.streaming /\ run'.flags = run.flags
      /\ run'.written = i /\ run'.shared = run.shared
      /\ run'.todo = {} /\ run'.sheets = sheets /\ run'.keys = run.keys /\ run'.walk = run.walk
  <2>1. i \in Nat
    BY <1>1
  <2> QED BY <1>1, <1>3, <1>4, <2>1 DEF RunRecords
<1>6. Working
  BY <1>1, <1>5 DEF Working
<1>7. /\ Steady /\ runs \in 1..MaxRuns
      /\ UNCHANGED <<plan, format, flow, facts, lake, docs, live, unmoved, floor, excused,
                     status, interrupted, runs, faults, report>>
      /\ StatusInv' /\ ReportInv' /\ ResultsDropped'
  BY <1>6, WorkingFacts
<1>8. RedisTyped' /\ RedisInv'
  BY <1>6, RedisKept
<1>9. IsFiniteSet(names) /\ (format = "XLSX" => Cardinality(names) = i)
  <2>1. format = "XLSX" => name \notin run.names
    BY <1>2 DEF NameTaken, UniqueName
  <2>2. IsFiniteSet(run.names \cup {name})
        /\ (name \notin run.names => Cardinality(run.names \cup {name}) = Cardinality(run.names) + 1)
    <3>1. PICK used : used = run.names
      OBVIOUS
    <3> QED BY <1>1, <3>1, FS_AddElement
  <2> QED BY <1>1, <1>2, <2>1, <2>2
<1>11. \A j \in 1..i : sheets[j].read
  BY <1>1, <1>3
<1>12. TypeInv'
  <2>1. run' \in RunRecords(run'.names)
    BY <1>5
  <2>2. disk' \subseteq FileNames
    BY <1>1, <1>7 DEF FileNames
  <2>3. run'.written \in 0..Len(run'.sheets) /\ \A j \in 1..run'.written : run'.sheets[j].read
    BY <1>1, <1>3, <1>5, <1>11
  <2> QED BY <1>5, <1>6, <1>8, <1>9, <2>1, <2>2, <2>3, WorkingTypes
<1>13. TodoInv' /\ DiskInv' /\ WalkInv'
  BY <1>1, <1>5, <1>7, NoWalkFacts DEF IndInv, TodoInv, DiskInv, WalkInv
<1>14. KeysInv'
  BY <1>1, <1>5, <1>7 DEF IndInv, KeysInv, Key, Query, SurveyQuery
<1>15. SharedInv'
  BY <1>1, <1>5, <1>7 DEF IndInv, SharedInv, Shares, Spooled, Found, Answers
<1>16. SheetsInv'
  <2>1. PICK shared : shared = run.shared
    OBVIOUS
  <2>2. \A j \in 1..Len(run.sheets) : /\ SheetOK(run.sheets[j]) /\ Shared(run.sheets[j], run.shared)
                                      /\ run.streaming \/ run.sheets[j].read
    BY DEF IndInv, SheetsInv
  <2>3. \A j \in 1..Len(sheets) : /\ SheetOK(sheets[j]) /\ Shared(sheets[j], shared)
                                  /\ run.streaming \/ sheets[j].read
    BY <1>3, <2>1, <2>2
  <2>4. \A j \in 1..Len(sheets) : SheetOK(sheets[j])' /\ Shared(sheets[j], shared)'
    BY <1>1, <1>3, <1>7, <1>12, <2>3, SheetsStay
  <2> QED BY <1>5, <1>11, <2>1, <2>3, <2>4 DEF SheetsInv
<1>17. DoneInv'
  <2>1. \A j \in 1..Len(sheets) : sheets[j].item = run.sheets[j].item /\ sheets[j].kind = run.sheets[j].kind
    BY <1>3
  <2>2. \A s \in plan.sections : HasSection(run.sheets, s)
    BY <1>1 DEF IndInv, DoneInv
  <2>3. \A w \in live : HasWidget(run.sheets, w)
    BY <1>1 DEF IndInv, DoneInv
  <2>4. \A s : HasSection(run.sheets, s) => HasSection(sheets, s)
    BY <1>3, <2>1 DEF HasSection
  <2>5. \A w : HasWidget(run.sheets, w) => HasWidget(sheets, w)
    BY <1>3, <2>1 DEF HasWidget
  <2>6. /\ \A s \in plan.sections : HasSection(sheets, s)'
        /\ \A w \in live : HasWidget(sheets, w)'
    BY <1>1, <1>3, <1>7, <1>12, <2>2, <2>3, <2>4, <2>5, SheetsStay
  <2> QED BY <1>5, <1>7, <2>6 DEF DoneInv
<1> QED BY <1>7, <1>8, <1>12, <1>13, <1>14, <1>15, <1>16, <1>17 DEF IndInv

LEMMA WriteInMemoryStep ==
    ASSUME IndInv, NEW i, WriteInMemory(i)
    PROVE  IndInv'
<1>1. /\ Writing(i) /\ ~run.streaming /\ ~NameTaken(i) /\ disk' = disk
      /\ UNCHANGED <<world, data, ghosts, status, interrupted, runs, faults, redis, report>>
  BY DEF WriteInMemory
<1>2. /\ run \in RunRecords(run.names) /\ run.sheets \in Seq(SheetRecords)
      /\ i \in 1..Len(run.sheets)
  BY <1>1 DEF IndInv, TypeInv, RunRecords, Writing
<1>3. PICK sheet : sheet = run.sheets[i]
  OBVIOUS
<1>4. sheet \in SheetRecords /\ SheetOK(sheet) /\ Shared(sheet, run.shared) /\ sheet.read
  BY <1>1, <1>2, <1>3 DEF IndInv, SheetsInv
<1>5. run' = Written(i, sheet)
  BY <1>3 DEF WriteInMemory
<1> QED BY <1>1, <1>3, <1>4, <1>5, WrittenStep

LEMMA WriteSheetStep ==
    ASSUME IndInv, NEW i, WriteSheet(i)
    PROVE  IndInv'
<1>1. /\ Writing(i) /\ run.streaming /\ ~NameTaken(i)
      /\ UNCHANGED <<world, data, ghosts, status, interrupted, runs, faults, redis, report>>
      /\ disk' = disk \/ disk' = disk \cup {<<"csv", runs, i>>}
  BY DEF WriteSheet
<1>2. /\ TypeInv /\ run \in RunRecords(run.names) /\ run.sheets \in Seq(SheetRecords)
      /\ i \in 1..Len(run.sheets) /\ flow \in [Surveys -> {"flow1", "flow2"}]
  BY <1>1 DEF IndInv, TypeInv, RunRecords, Writing
<1>3. PICK old : old = run.sheets[i]
  OBVIOUS
<1>4. /\ old \in SheetRecords /\ SheetOK(old) /\ Shared(old, run.shared)
  BY <1>2, <1>3 DEF IndInv, SheetsInv
<1> DEFINE s == old.item.section
<1>5. CASE old.read
  <2>1. run' = Written(i, old)
    BY <1>3, <1>5 DEF WriteSheet
  <2> QED BY <1>1, <1>3, <1>4, <1>5, <2>1, WrittenStep
<1>6. CASE ~old.read
  <2>1. PICK rows : rows = IF FromSpool(i) THEN run.shared ELSE Events(Query(s))
    OBVIOUS
  <2>2. PICK kept, sheet : kept = KeptRows(s, rows) /\ sheet = Filled(old, kept)
    OBVIOUS
  <2>3. run' = Written(i, sheet)
    BY <1>3, <1>6, <2>1, <2>2 DEF WriteSheet
  <2>4. old.kind = "events" /\ s \in Sections \cup {"custom"} /\ (s \in Sections => s \in plan.sections)
    BY <1>2, <1>4, <1>6, PlanFacts, SectionsFacts DEF SheetOK, SheetRecords, Kinds
  <2>5. rows \in RowSets /\ Found(Query(s), rows)
    <3>1. CASE FromSpool(i)
      <4>1. s = "RESOLUTIONS" /\ Shares
        BY <1>3, <3>1 DEF FromSpool, Spooled, Shares, Classified
      <4>2. Query(s) = ClassificationQuery
        BY <1>2, <2>4, <4>1, QueryFacts DEF Classified
      <4> QED BY <1>1, <1>2, <2>1, <3>1, <4>1, <4>2 DEF IndInv, SharedInv, RunRecords, Writing
    <3>2. CASE ~FromSpool(i)
      BY <1>2, <2>1, <3>2, EventsFacts
    <3> QED BY <3>1, <3>2
  <2>6. kept \in RowSets /\ ListComplete(s, kept)
    BY <2>2, <2>5, KeptFacts
  <2>7. /\ sheet \in SheetRecords /\ sheet.item = old.item /\ sheet.kind = old.kind
        /\ sheet.name = old.name /\ sheet.read /\ sheet.rows = kept
    BY <1>4, <2>2, <2>6 DEF Filled, SheetRecords
  <2>8. SheetOK(sheet)
    BY <1>4, <2>4, <2>6, <2>7 DEF SheetOK
  <2>9. Shared(sheet, run.shared)
    <3>1. Classified \subseteq plan.sections /\ s = "RESOLUTIONS" => rows = run.shared
      BY <1>1, <1>3, <2>1 DEF FromSpool, Spooled
    <3> QED BY <2>2, <2>4, <2>7, <3>1 DEF Shared
  <2> QED BY <1>1, <1>3, <2>3, <2>7, <2>8, <2>9, WrittenStep
<1> QED BY <1>5, <1>6

-----------------------------------------------------------------------------
(* The theorems.                                                           *)

LEMMA NextIndInv ==
    ASSUME IndInv, [Next]_vars
    PROVE  IndInv'
<1>1. CASE UNCHANGED vars
  BY <1>1, StutterStep
<1>2. CASE \E f \in facts : Record(f)
  BY <1>2, RecordStep
<1>3. CASE \E c \in DOMAIN docs : RunFlow(c)
  BY <1>3, RunFlowStep
<1>4. CASE \E w \in live : DeleteWidget(w)
  BY <1>4, DeleteWidgetStep
<1>5. CASE Interrupt \/ Sweep \/ Die \/ Raise
  BY <1>5, InterruptStep, SweepStep, DieStep, RaiseStep
<1>6. CASE \E k \in DOMAIN redis : Expire(k)
  BY <1>6, ExpireStep
<1>7. CASE Begin \/ Share
  BY <1>7, BeginStep, ShareStep
<1>8. CASE \E item \in run.todo : BuildStep(item)
  BY <1>8, BuildLazyStep, BuildListStep, BuildSummaryStep, WalkPageStep, EndWalkStep, WalkTooLongStep
     DEF BuildStep
<1>9. CASE ListWidgets \/ StartWriting \/ Conclude \/ Mail
  BY <1>9, ListWidgetsStep, StartWritingStep, ConcludeStep, MailStep
<1>10. CASE \E i \in 1..Len(run.sheets) : WriteInMemory(i) \/ WriteSheet(i) \/ NameRefused(i)
  BY <1>10, WriteInMemoryStep, WriteSheetStep, NameRefusedStep
<1> QED BY <1>1, <1>2, <1>3, <1>4, <1>5, <1>6, <1>7, <1>8, <1>9, <1>10 DEF Next

LEMMA IndInvHolds == Spec => []IndInv
<1>1. Init => IndInv
  BY InitIndInv
<1>2. IndInv /\ [Next]_vars => IndInv'
  BY NextIndInv
<1> QED BY <1>1, <1>2, PTL DEF Spec

\* The variables keep their types, a worksheet that is written has been read, and a
\* workbook has one name for each worksheet written.
THEOREM TypeCorrect == Spec => []TypeOK
<1>1. IndInv => TypeOK
  BY DEF IndInv, TypeInv
<1> QED BY <1>1, IndInvHolds, PTL

\* No spool and no file stays on the disk of a worker when a run has ended, except those
\* of a run that was interrupted or killed and a CSV whose rows raised (the finally of
\* generate and temp_paths).
THEOREM CleanDisk == Spec => []DiskIsClean
<1>1. IndInv => DiskIsClean
  BY DEF IndInv, DiskInv, DiskIsClean
<1> QED BY <1>1, IndInvHolds, PTL

\* A ready report leaves nothing in redis if it was run once, and its surveys' results not
\* even if it was run again (_add_cache_key, _clear_cache_keys).
THEOREM NothingCached == Spec => []ResultsDropped
<1>1. IndInv => ResultsDropped
  BY DEF IndInv
<1> QED BY <1>1, IndInvHolds, PTL

\* Nothing is mailed before the report is ready.
Unsent == status # "READY" => report = <<>>

LEMMA UnsentStep ==
    ASSUME IndInv, Unsent, [Next]_vars
    PROVE  Unsent'
<1>1. run.step # "idle" => status # "READY"
  BY DEF IndInv, StatusInv
<1>2. SUFFICES ASSUME ~Mail PROVE report' = report /\ (status = "READY" => status' = "READY")
  <2>1. CASE Mail
    BY <2>1 DEF Mail, Unsent
  <2> QED BY <1>2, <2>1 DEF Unsent
<1>3. CASE UNCHANGED vars
  BY <1>3 DEF vars
<1>4. CASE \E f \in facts : Record(f)
  BY <1>4 DEF Record
<1>5. CASE \E c \in DOMAIN docs : RunFlow(c)
  BY <1>5 DEF RunFlow
<1>6. CASE \E w \in live : DeleteWidget(w)
  BY <1>6 DEF DeleteWidget
<1>7. CASE Interrupt \/ Sweep \/ Die
  BY <1>7 DEF Interrupt, Sweep, Die
<1>8. CASE Raise
  BY <1>1, <1>8 DEF Raise, Fail, Building, Writing
<1>9. CASE \E k \in DOMAIN redis : Expire(k)
  BY <1>9 DEF Expire
<1>10. CASE Begin
  BY <1>10 DEF Begin
<1>11. CASE Share \/ ListWidgets \/ StartWriting \/ Conclude
  BY <1>11 DEF Share, ListWidgets, StartWriting, Conclude
<1>12. CASE \E item \in run.todo : BuildStep(item)
  <2>1. PICK item \in run.todo : BuildStep(item)
    BY <1>12
  <2>2. CASE BuildLazy(item) \/ BuildSummary(item)
    BY <2>2 DEF BuildLazy, BuildSummary
  <2>3. CASE BuildList(item)
    BY <2>3 DEF BuildList
  <2>4. CASE WalkPage(item) \/ EndWalk(item)
    BY <2>4 DEF WalkPage, EndWalk
  <2>5. CASE WalkTooLong(item)
    BY <1>1, <2>5 DEF WalkTooLong, Fail, Building
  <2> QED BY <2>1, <2>2, <2>3, <2>4, <2>5 DEF BuildStep
<1>13. CASE \E i \in 1..Len(run.sheets) : WriteInMemory(i) \/ WriteSheet(i) \/ NameRefused(i)
  BY <1>1, <1>13 DEF WriteInMemory, WriteSheet, NameRefused, Fail, Writing
<1> QED BY <1>2, <1>3, <1>4, <1>5, <1>6, <1>7, <1>8, <1>9, <1>10, <1>11, <1>12, <1>13 DEF Next

LEMMA UnsentHolds == Spec => []Unsent
<1>1. Init => Unsent
  BY DEF Init, Unsent
<1>2. IndInv /\ Unsent /\ [Next]_vars => Unsent'
  BY UnsentStep
<1> QED BY <1>1, <1>2, IndInvHolds, PTL DEF Spec

\* The contacts of the rows that Resolutions keeps are those of all but the odd ones.
LEMMA KeptUrns ==
    ASSUME NEW rows \in RowSets, NEW least \in {1, 2}
    PROVE  /\ Urns(KeptRows("RESOLUTIONS", rows), least) \subseteq Urns(rows, least)
           /\ Urns(rows, 2) \subseteq Urns(rows, 1)
           /\ \A u \in Urns(rows, 1) \ Urns(KeptRows("RESOLUTIONS", rows), 1) :
                 \E f \in DOMAIN rows : f.kind = "odd" /\ u = f.urn
<1> DEFINE kept == KeptRows("RESOLUTIONS", rows)
<1>1. \A f \in DOMAIN rows : rows[f] \in Nat
  BY RowSetsFacts
<1>2. /\ kept \in RowSets /\ DOMAIN kept = {g \in DOMAIN rows : g.kind # "odd"}
      /\ \A f \in DOMAIN kept : kept[f] = rows[f]
  BY KeptFacts DEF KeptRows, DropsOdd
<1> HIDE DEF kept
<1>3. Urns(kept, least) \subseteq Urns(rows, least)
  BY <1>1, <1>2, UrnsGrow
<1>4. ASSUME NEW n \in {1, 2}, NEW u \in Urns(rows, n)
      PROVE  \E g \in DOMAIN rows : u = g.urn /\ rows[g] >= 1
  BY <1>1 DEF Urns
<1>5. Urns(rows, 2) \subseteq Urns(rows, 1)
  BY <1>4 DEF Urns
<1>6. ASSUME NEW u \in Urns(rows, 1) \ Urns(kept, 1)
      PROVE  \E f \in DOMAIN rows : f.kind = "odd" /\ u = f.urn
  <2>1. PICK g \in DOMAIN rows : u = g.urn /\ rows[g] >= 1
    BY <1>4
  <2>2. g \notin DOMAIN kept
    BY <1>2, <2>1 DEF Urns
  <2> QED BY <1>2, <2>1, <2>2
<1> QED BY <1>3, <1>5, <1>6 DEF kept

\* The worksheets that are made of the classification events agree on the contacts,
\* although events are recorded between the retrievals of a run
\* (_ReplayableDatalakeEventsSpool and the list of a standard run).
THEOREM SheetsAgreeAlways == Spec => []SheetsAgree
<1>1. ASSUME IndInv, Unsent PROVE SheetsAgree
  <2> SUFFICES ASSUME NEW i \in Sheets("events", "RESOLUTIONS"), NEW j \in Sheets("unique", "CONTACTS"),
                      NEW k \in Sheets("returning", "CONTACTS")
               PROVE  /\ Urns(report[i].rows, 1) \subseteq report[j].urns
                      /\ Urns(report[i].rows, 2) \subseteq report[k].urns
                      /\ report[j].urns \ Urns(report[i].rows, 1)
                            \subseteq {f.urn : f \in {g \in facts : g.kind = "odd"}}
                      /\ report[k].urns \subseteq report[j].urns
    BY DEF SheetsAgree
  <2>1. /\ i \in 1..Len(report) /\ report[i].kind = "events" /\ report[i].item.section = "RESOLUTIONS"
        /\ j \in 1..Len(report) /\ report[j].kind = "unique" /\ k \in 1..Len(report)
        /\ report[k].kind = "returning"
    BY DEF Sheets
  <2>2. status = "READY"
    BY <1>1, <2>1 DEF Unsent
  <2>3. PICK rows \in RowSets :
            /\ Classified \subseteq plan.sections => DOMAIN rows \subseteq facts
            /\ \A n \in 1..Len(report) : Shared(report[n], rows)
    BY <1>1, <2>2 DEF IndInv, ReportInv
  <2>4. Classified \subseteq plan.sections /\ report[i].read
    BY <1>1, <2>1, <2>2 DEF IndInv, ReportInv, SheetOK, Classified, ListSections
  <2>5. /\ report[i].rows = KeptRows("RESOLUTIONS", rows)
        /\ report[j].urns = Urns(rows, 1) /\ report[k].urns = Urns(rows, 2)
    BY <2>1, <2>3, <2>4 DEF Shared
  <2> QED BY <2>3, <2>4, <2>5, KeptUrns
<1> QED BY <1>1, IndInvHolds, UnsentHolds, PTL

\* A ready report has a worksheet for each section asked for and for each widget that still
\* exists, with every event there was when the report was first run, with the last answer of
\* each contact once, and with nothing else (the part of SectionsAnswered about ready
\* reports).
THEOREM WhatWasAsked == Spec => []EachAnswered
<1>1. ASSUME IndInv PROVE EachAnswered
  <2> SUFFICES ASSUME status = "READY"
               PROVE  /\ \A s \in plan.sections :
                            \/ Answered(s) \/ (s \in Surveys /\ OneFlow)
                            \/ s = "RESOLUTIONS" /\ \A f \in facts : Answers(Query(s), f) => floor[f] = 0
                      /\ \A w \in live : \E i \in 1..Len(report) :
                            /\ report[i].item = Item(plan.widgets[w].kind, w)
                            /\ report[i].kind = "events" => ListComplete("custom", report[i].rows)
    BY DEF EachAnswered
  <2>1. /\ \A i \in 1..Len(report) : SheetOK(report[i]) /\ report[i].read
        /\ \A s \in plan.sections : HasSection(report, s)
        /\ \A w \in live : HasWidget(report, w)
        /\ TypeInv
    BY <1>1 DEF IndInv, ReportInv
  <2>2. ASSUME NEW s \in plan.sections
        PROVE  \/ Answered(s) \/ (s \in Surveys /\ OneFlow)
               \/ s = "RESOLUTIONS" /\ \A f \in facts : Answers(Query(s), f) => floor[f] = 0
    <3>1. CASE \E i \in 1..Len(report) : /\ report[i].kind = IF s \in Surveys THEN "survey" ELSE "events"
                                         /\ report[i].item.section = s
      <4>1. PICK i \in 1..Len(report) : /\ report[i].kind = IF s \in Surveys THEN "survey" ELSE "events"
                                        /\ report[i].item.section = s
        BY <3>1
      <4>2. CASE s \in Surveys
        BY <2>1, <4>1, <4>2 DEF Answered, Sheets, SheetOK
      <4>3. CASE s \notin Surveys
        BY <2>1, <4>1, <4>3 DEF Answered, Sheets, SheetOK
      <4> QED BY <4>2, <4>3
    <3>2. CASE \E i \in 1..Len(report) : report[i].kind = "summary" /\ report[i].item.section = s
      BY <3>2 DEF Answered, Sheets
    <3>3. CASE s = "CONTACTS" /\ \E i, j \in 1..Len(report) :
                                    report[i].kind = "unique" /\ report[j].kind = "returning"
      <4>1. PICK i \in 1..Len(report), j \in 1..Len(report) :
                report[i].kind = "unique" /\ report[j].kind = "returning"
        BY <3>3
      <4>2. /\ report[i].item.section = "CONTACTS" /\ ContactsComplete(1, report[i].urns)
            /\ report[j].item.section = "CONTACTS" /\ ContactsComplete(2, report[j].urns)
        BY <2>1, <4>1 DEF SheetOK
      <4> QED BY <3>3, <4>1, <4>2 DEF Answered, Sheets
    <3> QED BY <2>1, <3>1, <3>2, <3>3 DEF HasSection
  <2>3. ASSUME NEW w \in live
        PROVE  \E i \in 1..Len(report) :
                  /\ report[i].item = Item(plan.widgets[w].kind, w)
                  /\ report[i].kind = "events" => ListComplete("custom", report[i].rows)
    <3>1. PICK i \in 1..Len(report) : report[i].item = Item(plan.widgets[w].kind, w)
      BY <2>1 DEF HasWidget
    <3>2. report[i].item.section \in {"custom", "crosstab"} /\ report[i].item.section \notin Sections
      <4>1. w \in 1..Len(plan.widgets)
        BY <2>1 DEF TypeInv, TypeOK
      <4>2. plan.widgets[w].kind \in {"custom", "crosstab"}
        BY <2>1, <4>1, PlanFacts
      <4>3. report[i].item.section = plan.widgets[w].kind
        BY <3>1 DEF Item
      <4> QED BY <4>2, <4>3, SectionsFacts
    <3>3. report[i].kind = "events" => ListComplete("custom", report[i].rows)
      BY <2>1, <3>2 DEF SheetOK, ListSections
    <3> QED BY <3>1, <3>3
  <2> QED BY <2>2, <2>3
<1> QED BY <1>1, IndInvHolds, PTL

-----------------------------------------------------------------------------
(* Names of worksheets, which clash only if those of the widgets do.       *)

\* What a worksheet is of, and the name it asks for.
Named(sheet) ==
    /\ sheet.item.widget = 0 => sheet.item.section \in plan.sections
    /\ sheet.item.widget # 0 => /\ sheet.item.widget \in 1..Len(plan.widgets)
                                /\ sheet.item.section = plan.widgets[sheet.item.widget].kind
    /\ sheet.kind \in {"unique", "returning"} =>
           sheet.item = Item("CONTACTS", 0) /\ sheet.name = <<sheet.kind, NoRest, 0>>
    /\ sheet.kind \notin {"unique", "returning"} => sheet.name = NameOf(sheet.item)

\* Worksheets of one item are those of contacts.
Apart(a, b) ==
    a.item = b.item => a.kind # b.kind /\ a.kind \in {"unique", "returning"}
                                       /\ b.kind \in {"unique", "returning"}

\* How each of some worksheets got its name: it is the one it asked for, or that of
\* one before it and then a counter took the place of its end.
Gave(sheets, last, given) ==
    \A i \in 1..last :
        \/ given[i] = sheets[i].name
        \/ /\ \E j \in 1..(i - 1) : sheets[j].name = sheets[i].name
           /\ \E c \in 1..20 : given[i] = <<sheets[i].name[1], NoRest, c>>
NamesGiven(sheets, last, names) ==
    \E given : Gave(sheets, last, given) /\ names = {given[i] : i \in 1..last}

NamedInv ==
    /\ \A i \in 1..Len(run.sheets) : Named(run.sheets[i]) /\ run.sheets[i].item \notin run.todo
    /\ \A i, j \in 1..Len(run.sheets) : i # j => Apart(run.sheets[i], run.sheets[j])
    /\ run.step \in {"share", "build"} => \A i \in 1..Len(run.sheets) : run.sheets[i].item.widget = 0
    /\ format = "XLSX" => NamesGiven(run.sheets, run.written, run.names)

\* The sections' names differ from each other, and so do the worksheets of widgets.
LEMMA ApartFacts ==
    ASSUME TypeInv, NEW a \in SheetRecords, NEW b \in SheetRecords, Named(a), Named(b), Apart(a, b),
           a.name = b.name
    PROVE  a.item.widget # b.item.widget
<1> SUFFICES ASSUME a.item.widget = b.item.widget PROVE FALSE
  OBVIOUS
<1>0. /\ a.item \in [section: Sections \cup {"custom", "crosstab"}, widget: Nat]
      /\ b.item \in [section: Sections \cup {"custom", "crosstab"}, widget: Nat]
  BY DEF SheetRecords, Items
<1>1. CASE a.item = b.item
  <2>1. a.kind # b.kind /\ a.kind \in {"unique", "returning"} /\ b.kind \in {"unique", "returning"}
    BY <1>1 DEF Apart
  <2> QED BY <2>1 DEF Named
<1>2. CASE a.item # b.item
  <2>1. a.item.section # b.item.section
    BY <1>0, <1>2
  <2>2. a.item.widget = 0 /\ b.item.widget = 0
    BY <2>1 DEF Named
  <2>3. /\ a.item.section \in Sections /\ b.item.section \in Sections
        /\ "unique" \notin Sections /\ "returning" \notin Sections
    BY <2>2, PlanFacts, SectionsFacts DEF Named
  <2>4. NameOf(a.item) = <<a.item.section, NoRest, 0>> /\ NameOf(b.item) = <<b.item.section, NoRest, 0>>
    BY <2>2 DEF NameOf
  <2>5. CASE a.kind \in {"unique", "returning"}
    <3>1. b.kind \notin {"unique", "returning"}
      BY <1>2, <2>5 DEF Named
    <3> QED BY <2>3, <2>4, <2>5, <3>1 DEF Named
  <2>6. CASE a.kind \notin {"unique", "returning"}
    <3>1. CASE b.kind \in {"unique", "returning"}
      BY <2>3, <2>4, <2>6, <3>1 DEF Named
    <3>2. CASE b.kind \notin {"unique", "returning"}
      BY <2>1, <2>4, <2>6, <3>2 DEF Named
    <3> QED BY <3>1, <3>2
  <2> QED BY <2>5, <2>6
<1> QED BY <1>1, <1>2

\* A name has no counter until it is given one.
LEMMA NamesFacts ==
    ASSUME TypeInv, NEW a \in SheetRecords, Named(a)
    PROVE  /\ a.name = <<a.name[1], a.name[2], 0>>
           /\ a.item.widget = 0 => a.name \in Titles /\ a.name[2] = NoRest
           /\ a.item.widget # 0 => /\ a.item.widget \in 1..Len(plan.widgets)
                                   /\ a.name = plan.widgets[a.item.widget].name
<1>0. "CONTACTS" \notin {"custom", "crosstab"}
  OBVIOUS
<1>1. CASE a.kind \in {"unique", "returning"}
  <2>1. a.item.widget = 0 /\ a.name = <<a.kind, NoRest, 0>>
    BY <1>1 DEF Named, Item
  <2> QED BY <1>1, <2>1 DEF Titles
<1>2. CASE a.kind \notin {"unique", "returning"} /\ a.item.widget = 0
  <2>1. a.name = <<a.item.section, NoRest, 0>> /\ a.item.section \in plan.sections
    BY <1>2 DEF Named, NameOf
  <2> QED BY <1>2, <2>1 DEF Titles
<1>3. CASE a.kind \notin {"unique", "returning"} /\ a.item.widget # 0
  <2>1. /\ a.name = plan.widgets[a.item.widget].name /\ a.item.widget \in 1..Len(plan.widgets)
        /\ plan \in Plans
    BY <1>3 DEF Named, NameOf, TypeInv, TypeOK
  <2>2. plan.widgets[a.item.widget].name =
            <<plan.widgets[a.item.widget].name[1], plan.widgets[a.item.widget].name[2], 0>>
    BY <2>1, PlansAssumption
  <2> QED BY <1>3, <2>1, <2>2
<1> QED BY <1>1, <1>2, <1>3

\* Two widgets of a long name, and two worksheets of a name that begins like it.
LEMMA PairsClash ==
    ASSUME TypeInv, NEW sheets \in Seq(SheetRecords), \A i \in 1..Len(sheets) : Named(sheets[i]),
           \A i, j \in 1..Len(sheets) : i # j => Apart(sheets[i], sheets[j]),
           NEW a \in 1..Len(sheets), NEW b \in 1..Len(sheets), NEW c \in 1..Len(sheets),
           NEW d \in 1..Len(sheets), a # b, a # c, a # d, b # d,
           sheets[a].name = sheets[c].name, sheets[a].name[2] # NoRest,
           sheets[b].name = sheets[d].name, sheets[a].name[1] = sheets[b].name[1]
    PROVE  NamesClash
<1>1. \A i \in 1..Len(sheets) :
          /\ sheets[i].item.widget = 0 => sheets[i].name \in Titles /\ sheets[i].name[2] = NoRest
          /\ sheets[i].item.widget # 0 => /\ sheets[i].item.widget \in 1..Len(plan.widgets)
                                          /\ sheets[i].name = plan.widgets[sheets[i].item.widget].name
  BY NamesFacts
<1>2. \A i, j \in 1..Len(sheets) :
          i # j /\ sheets[i].name = sheets[j].name => sheets[i].item.widget # sheets[j].item.widget
  BY ApartFacts
<1>3. PICK A, C : A = sheets[a].item.widget /\ C = sheets[c].item.widget
  OBVIOUS
<1>4. /\ A \in 1..Len(plan.widgets) /\ C \in 1..Len(plan.widgets) /\ A # C
      /\ plan.widgets[A].name = sheets[a].name /\ plan.widgets[C].name = sheets[a].name
  BY <1>1, <1>2, <1>3
<1>5. ASSUME NEW e \in 1..Len(sheets), NEW f \in 1..Len(sheets), e # f, a # e, a # f,
             sheets[e].item.widget # 0, sheets[e].name = sheets[f].name, sheets[a].name[1] = sheets[e].name[1]
      PROVE  NamesClash
  <2>1. PICK E, F : E = sheets[e].item.widget /\ F = sheets[f].item.widget
    OBVIOUS
  <2>2. E \in 1..Len(plan.widgets) /\ plan.widgets[E].name = sheets[e].name
    BY <1>1, <1>5, <2>1
  <2>3. A # E
    BY <1>2, <1>3, <1>4, <1>5, <2>1, <2>2
  <2>4. \/ plan.widgets[E].name \in Titles
        \/ \E w \in 1..Len(plan.widgets) : plan.widgets[w].name = plan.widgets[E].name /\ w \notin {A, E}
    <3>1. CASE F = 0
      BY <1>1, <1>5, <2>1, <2>2, <3>1
    <3>2. CASE F # 0
      <4>1. F \in 1..Len(plan.widgets) /\ plan.widgets[F].name = sheets[f].name
        BY <1>1, <2>1, <3>2
      <4>2. F # E /\ F # A
        BY <1>2, <1>3, <1>4, <1>5, <2>1, <4>1
      <4> QED BY <1>5, <2>2, <4>1, <4>2
    <3> QED BY <3>1, <3>2
  <2>5. plan.widgets[A].name[1] = plan.widgets[E].name[1] /\ plan.widgets[A].name[2] # NoRest
    BY <1>4, <1>5, <2>2
  <2>6. E \in 1..Len(plan.widgets) /\ A \in 1..Len(plan.widgets) /\ C \in 1..Len(plan.widgets) /\ A # C
    BY <1>4, <2>2
  <2>7. plan.widgets[C].name = plan.widgets[A].name
    BY <1>4
  <2> DEFINE named(n) == {w \in 1..Len(plan.widgets) : plan.widgets[w].name = n}
  <2>8. named(plan.widgets[A].name) # {A}
    BY <2>6, <2>7
  <2>9. plan.widgets[E].name \in Titles \/ named(plan.widgets[E].name) \ {A, E} # {}
    BY <2>4
  <2> QED BY <2>3, <2>5, <2>6, <2>8, <2>9 DEF NamesClash
<1>6. CASE sheets[b].item.widget # 0
  BY <1>5, <1>6
<1>7. CASE sheets[b].item.widget = 0
  <2>1. sheets[d].item.widget # 0
    BY <1>2, <1>7
  <2> QED BY <1>5, <2>1
<1> QED BY <1>6, <1>7

\* A name and its counters have all been given to worksheets that asked for the name.
Exhausted(sheets, i, given) ==
    \A c \in 0..20 : \E j \in 1..(i - 1) :
        given[j] = <<sheets[i].name[1], NoRest, c>> /\ sheets[j].name = sheets[i].name

LEMMA CountersRunOut ==
    ASSUME TypeInv, NEW sheets \in Seq(SheetRecords), \A i \in 1..Len(sheets) : Named(sheets[i]),
           \A i, j \in 1..Len(sheets) : i # j => Apart(sheets[i], sheets[j]),
           NEW i \in 1..Len(sheets), NEW given, Exhausted(sheets, i, given)
    PROVE  NamesClash
<1>0. /\ \A n \in 1..Len(sheets) : sheets[n] \in SheetRecords /\ Named(sheets[n])
      /\ \A n, m \in 1..Len(sheets) : n # m => Apart(sheets[n], sheets[m])
  OBVIOUS
<1> DEFINE name == sheets[i].name
           Got(c, j) == given[j] = <<name[1], NoRest, c>> /\ sheets[j].name = name
           at == [c \in 0..21 |-> IF c = 21 THEN i ELSE CHOOSE j \in 1..(i - 1) : Got(c, j)]
           same == {w \in 1..Len(plan.widgets) : plan.widgets[w].name = name}
           widget == [c \in 0..21 |-> sheets[at[c]].item.widget]
<1>1. \A c \in 0..20 : at[c] \in 1..(i - 1) /\ Got(c, at[c])
  <2> TAKE c \in 0..20
  <2>1. at[c] = CHOOSE j \in 1..(i - 1) : Got(c, j)
    <3>1. c \in 0..21 /\ c # 21
      OBVIOUS
    <3> HIDE DEF Got
    <3> QED BY <3>1
  <2>2. \E j \in 1..(i - 1) : Got(c, j)
    BY DEF Exhausted
  <2> HIDE DEF at, Got
  <2> QED BY <2>1, <2>2
<1>2. at[21] = i
  OBVIOUS
<1>3. \A c, d \in 0..20 : Got(c, at[c]) /\ Got(d, at[d]) /\ at[c] = at[d] => c = d
  <2> HIDE DEF at
  <2> SUFFICES ASSUME NEW c \in 0..20, NEW d \in 0..20,
                      <<name[1], NoRest, c>> = <<name[1], NoRest, d>>
               PROVE  c = d
    OBVIOUS
  <2> QED OBVIOUS
<1>4. \A c \in 0..21 : at[c] \in 1..Len(sheets) /\ sheets[at[c]].name = name
  <2>1. \A c \in 0..21 : c = 21 \/ c \in 0..20
    OBVIOUS
  <2>2. \A j \in 1..(i - 1) : j \in 1..Len(sheets)
    OBVIOUS
  <2> HIDE DEF at
  <2> QED BY <1>1, <1>2, <2>1, <2>2
<1>5. \A c, d \in 0..21 : at[c] = at[d] => c = d
  <2>1. \A c \in 0..21 : c = 21 \/ c \in 0..20
    OBVIOUS
  <2>2. i \notin 1..(i - 1)
    OBVIOUS
  <2> HIDE DEF at, Got
  <2> QED BY <1>1, <1>2, <1>3, <2>1, <2>2
<1> HIDE DEF at
<1>6. widget \in Injection(0..21, same \cup {0})
  <2>1. ASSUME NEW c \in 0..21 PROVE widget[c] \in same \cup {0}
    <3>1. PICK n \in 1..Len(sheets) : n = at[c] /\ sheets[n].name = name
      BY <1>4
    <3>2. sheets[n] \in SheetRecords /\ Named(sheets[n])
      BY <1>0
    <3>3. sheets[n].item.widget \in same \cup {0}
      BY <3>1, <3>2, NamesFacts
    <3> QED BY <3>1, <3>3
  <2>2. ASSUME NEW c \in 0..21, NEW d \in 0..21, c # d PROVE widget[c] # widget[d]
    <3>1. PICK n \in 1..Len(sheets), m \in 1..Len(sheets) :
              n = at[c] /\ m = at[d] /\ sheets[n].name = name /\ sheets[m].name = name
      BY <1>4
    <3>2. n # m
      BY <1>5, <2>2, <3>1
    <3>3. /\ sheets[n] \in SheetRecords /\ Named(sheets[n]) /\ sheets[m] \in SheetRecords
          /\ Named(sheets[m]) /\ Apart(sheets[n], sheets[m])
      BY <1>0, <3>2
    <3>4. sheets[n].item.widget # sheets[m].item.widget
      BY <3>1, <3>3, ApartFacts
    <3> QED BY <3>1, <3>4
  <2> HIDE DEF same
  <2>3. widget \in [0..21 -> same \cup {0}]
    BY <2>1
  <2> QED BY <2>2, <2>3 DEF Injection, IsInjective
<1>7. IsFiniteSet(same) /\ Cardinality(same \cup {0}) = Cardinality(same) + 1 /\ IsFiniteSet(same \cup {0})
  <2>1. IsFiniteSet(1..Len(plan.widgets)) /\ 0 \notin 1..Len(plan.widgets)
    <3>1. 1 \in Int /\ Len(plan.widgets) \in Int
      BY PlanFacts
    <3>2. IsFiniteSet(1..Len(plan.widgets))
      BY <3>1, FS_Interval
    <3> QED BY <3>2
  <2>2. IsFiniteSet(same) /\ 0 \notin same
    <3>1. same \subseteq 1..Len(plan.widgets)
      OBVIOUS
    <3> HIDE DEF same
    <3> QED BY <2>1, <3>1, FS_Subset
  <2> HIDE DEF same
  <2> QED BY <2>2, FS_AddElement
<1>8. Cardinality(0..21) = 22
  <2>1. 0 \in Int /\ 21 \in Int
    OBVIOUS
  <2>2. Cardinality(0..21) = IF 0 > 21 THEN 0 ELSE 21 - 0 + 1
    BY <2>1, FS_Interval
  <2> QED BY <2>2
<1>9. Cardinality(same) > 20 /\ same # {}
  <2> HIDE DEF same, widget
  <2>1. Cardinality(0..21) <= Cardinality(same \cup {0})
    BY <1>6, <1>7, FS_Injection
  <2>2. Cardinality(same) \in Nat
    BY <1>7, FS_CardinalityType
  <2> HIDE DEF at
  <2>3. Cardinality(same) > 20
    <3>1. PICK n : n = Cardinality(same)
      OBVIOUS
    <3>2. 22 <= n + 1 /\ n \in Nat
      BY <1>7, <1>8, <2>1, <2>2, <3>1
    <3> QED BY <3>1, <3>2
  <2>4. same # {}
    <3> SUFFICES ASSUME same = {} PROVE FALSE
      OBVIOUS
    <3>1. Cardinality(same) = 0
      BY FS_EmptySet
    <3> QED BY <2>3, <3>1
  <2> QED BY <2>3, <2>4
<1>10. PICK w \in 1..Len(plan.widgets) : plan.widgets[w].name = name
  BY <1>9
<1>11. {v \in 1..Len(plan.widgets) : plan.widgets[v].name = plan.widgets[w].name} = same
  BY <1>10
<1> QED BY <1>9, <1>11 DEF NamesClash

\* A name that a worksheet may ask for was given to one that asked for it.
LEMMA GivenAsAsked ==
    ASSUME TypeInv, NEW sheets \in Seq(SheetRecords), \A i \in 1..Len(sheets) : Named(sheets[i]),
           NEW last \in Nat, last <= Len(sheets), NEW given, Gave(sheets, last, given),
           NEW n \in 1..last, NEW m \in 1..Len(sheets), given[n] = sheets[m].name
    PROVE  sheets[n].name = sheets[m].name
<1> SUFFICES ASSUME given[n] # sheets[n].name PROVE FALSE
  OBVIOUS
<1>1. PICK c \in 1..20 : given[n] = <<sheets[n].name[1], NoRest, c>>
  BY DEF Gave
<1>2. sheets[m].name = <<sheets[m].name[1], sheets[m].name[2], 0>>
  BY NamesFacts
<1>3. given[n][3] = c /\ sheets[m].name[3] = 0
  BY <1>1, <1>2
<1> QED BY <1>3

\* A workbook refuses no name unless the names of the widgets clash.
LEMMA NotTaken ==
    ASSUME IndInv, NamedInv, NEW i, Writing(i), NameTaken(i)
    PROVE  NamesClash
<1>1. /\ TypeInv /\ i \in 1..Len(run.sheets) /\ i = run.written + 1 /\ run.written \in Nat
      /\ run.sheets \in Seq(SheetRecords) /\ format = "XLSX"
  BY DEF IndInv, TypeInv, RunRecords, Writing, NameTaken
<1>2. PICK sheets, name, used, last :
          /\ sheets = run.sheets /\ name = sheets[i].name /\ used = run.names /\ last = run.written
  OBVIOUS
<1>3. /\ sheets \in Seq(SheetRecords) /\ i \in 1..Len(sheets)
      /\ \A n \in 1..Len(sheets) : Named(sheets[n])
      /\ \A n, m \in 1..Len(sheets) : n # m => Apart(sheets[n], sheets[m])
  BY <1>1, <1>2 DEF NamedInv
<1>4. name \in used /\ (Counters(name, used) = {} \/ UniqueName(name, used) \in used)
  BY <1>2 DEF NameTaken
<1>5. PICK given : Gave(sheets, last, given) /\ used = {given[n] : n \in 1..last}
  BY <1>1, <1>2 DEF NamedInv, NamesGiven
<1>6. \A n \in 1..Len(sheets) : sheets[n].name = <<sheets[n].name[1], sheets[n].name[2], 0>>
  BY <1>1, <1>3, NamesFacts
<1>7. /\ last = i - 1 /\ last \in Nat /\ last <= Len(sheets)
      /\ \A n \in 1..last : n \in 1..Len(sheets) /\ n # i
  BY <1>1, <1>2, <1>3
<1>8. PICK first \in 1..last : given[first] = name
  BY <1>4, <1>5
<1>9. ASSUME NEW n \in 1..last, given[n] # sheets[n].name
      PROVE  /\ \E j \in 1..(n - 1) : sheets[j].name = sheets[n].name
             /\ \E c \in 1..20 : given[n] = <<sheets[n].name[1], NoRest, c>>
  BY <1>5, <1>9 DEF Gave
<1>10. sheets[first].name = name
  <2>1. given[first] = sheets[i].name
    BY <1>2, <1>8
  <2> SUFFICES ASSUME given[first] # sheets[first].name PROVE FALSE
    BY <1>8
  <2>2. PICK c \in 1..20 : given[first] = <<sheets[first].name[1], NoRest, c>>
    BY <1>9
  <2>3. sheets[i].name = <<sheets[i].name[1], sheets[i].name[2], 0>>
    BY <1>3, <1>6
  <2>4. given[first][3] = c /\ sheets[i].name[3] = 0
    BY <2>2, <2>3
  <2> QED BY <2>1, <2>4
\* A worksheet with this counter asked for a name that begins alike and that another had.
<1>11. ASSUME NEW c \in 1..20, NEW rest, <<name[1], rest, c>> \in used
       PROVE  /\ rest = NoRest
              /\ \E n \in 1..last : /\ given[n] = <<name[1], NoRest, c>> /\ sheets[n].name[1] = name[1]
                                    /\ \E j \in 1..(n - 1) : sheets[j].name = sheets[n].name
  <2>1. PICK n \in 1..last : given[n] = <<name[1], rest, c>>
    BY <1>5, <1>11
  <2>2. given[n] # sheets[n].name
    <3>1. sheets[n].name = <<sheets[n].name[1], sheets[n].name[2], 0>>
      BY <1>6, <1>7
    <3>2. sheets[n].name[3] = 0 /\ given[n][3] = c
      BY <2>1, <3>1
    <3> QED BY <3>2
  <2>3. PICK d \in 1..20 : given[n] = <<sheets[n].name[1], NoRest, d>>
    BY <1>9, <2>2
  <2>4. /\ given[n][1] = name[1] /\ given[n][2] = rest /\ given[n][3] = c
        /\ given[n][1] = sheets[n].name[1] /\ given[n][2] = NoRest
    BY <2>1, <2>3
  <2> QED BY <1>9, <2>1, <2>2, <2>4
\* Two pairs of worksheets whose names begin alike, one of them long.
<1>12. ASSUME NEW a \in 1..Len(sheets), NEW b \in 1..Len(sheets), NEW c \in 1..Len(sheets),
              NEW d \in 1..Len(sheets), a # b, a # c, a # d, b # d, sheets[a].name[2] # NoRest,
              sheets[a].name = sheets[c].name, sheets[b].name = sheets[d].name,
              sheets[a].name[1] = sheets[b].name[1]
       PROVE  NamesClash
  BY <1>1, <1>3, <1>12, PairsClash
<1>13. CASE name[2] # NoRest
  <2>1. \A c \in 1..20 : <<name[1], name[2], c>> \notin used
    BY <1>11, <1>13
  <2>2. Counters(name, used) = 1..20
    BY <2>1 DEF Counters
  <2>3. Min(Counters(name, used)) = 1
    <3>1. PICK least : least = Min(1..20)
      OBVIOUS
    <3>2. least \in 1..20 /\ \A y \in 1..20 : least <= y
      <4>1. 1..20 \in SUBSET Nat /\ 1..20 # {}
        OBVIOUS
      <4> QED BY <3>1, <4>1, MinIsLeast
    <3> QED BY <2>2, <3>1, <3>2
  <2>4. <<name[1], NoRest, 1>> \in used
    BY <1>4, <2>2, <2>3 DEF UniqueName
  <2>5. PICK n \in 1..last : /\ sheets[n].name[1] = name[1]
                             /\ \E j \in 1..(n - 1) : sheets[j].name = sheets[n].name
    BY <1>11, <2>4
  <2>6. PICK j \in 1..(n - 1) : sheets[j].name = sheets[n].name
    BY <2>5
  <2>7. j \in 1..last /\ j # n
    BY <1>7, <2>6
  <2>8. /\ i \in 1..Len(sheets) /\ first \in 1..Len(sheets) /\ n \in 1..Len(sheets)
        /\ j \in 1..Len(sheets) /\ i # n /\ i # first /\ i # j /\ n # j
    BY <1>3, <1>7, <2>7
  <2>9. /\ sheets[i].name[2] # NoRest /\ sheets[i].name = sheets[first].name
        /\ sheets[n].name = sheets[j].name /\ sheets[i].name[1] = sheets[n].name[1]
    BY <1>2, <1>10, <1>13, <2>5, <2>6
  <2> QED BY <1>12, <2>8, <2>9
<1>14. CASE name[2] = NoRest
  <2>1. name = <<name[1], NoRest, 0>>
    BY <1>2, <1>3, <1>6, <1>14
  <2>2. Counters(name, used) = {}
    <3> SUFFICES ASSUME Counters(name, used) # {} PROVE FALSE
      OBVIOUS
    <3>1. PICK least : least = Min(Counters(name, used))
      OBVIOUS
    <3>2. Counters(name, used) \in SUBSET Nat
      BY DEF Counters
    <3>3. least \in Counters(name, used)
      BY <3>1, <3>2, MinIsLeast
    <3> QED BY <1>4, <1>14, <3>1, <3>3 DEF UniqueName, Counters
  <2>3. \A c \in 1..20 : <<name[1], NoRest, c>> \in used
    BY <1>14, <2>2 DEF Counters
  <2>4. CASE \E n \in 1..last : /\ sheets[n].name[1] = name[1] /\ sheets[n].name[2] # NoRest
                                /\ \E j \in 1..(n - 1) : sheets[j].name = sheets[n].name
    <3>1. PICK n \in 1..last : /\ sheets[n].name[1] = name[1] /\ sheets[n].name[2] # NoRest
                               /\ \E j \in 1..(n - 1) : sheets[j].name = sheets[n].name
      BY <2>4
    <3>2. PICK j \in 1..(n - 1) : sheets[j].name = sheets[n].name
      BY <3>1
    <3>3. j \in 1..last /\ j # n /\ n # i /\ n # first
      BY <1>7, <1>10, <1>14, <3>1, <3>2
    <3>4. /\ n \in 1..Len(sheets) /\ i \in 1..Len(sheets) /\ j \in 1..Len(sheets)
          /\ first \in 1..Len(sheets) /\ n # i /\ n # j /\ n # first /\ i # first
      BY <1>3, <1>7, <3>3
    <3>5. /\ sheets[n].name[2] # NoRest /\ sheets[n].name = sheets[j].name
          /\ sheets[i].name = sheets[first].name /\ sheets[n].name[1] = sheets[i].name[1]
      BY <1>2, <1>10, <3>1, <3>2
    <3> QED BY <1>12, <3>4, <3>5
  <2>5. CASE ~\E n \in 1..last : /\ sheets[n].name[1] = name[1] /\ sheets[n].name[2] # NoRest
                                 /\ \E j \in 1..(n - 1) : sheets[j].name = sheets[n].name
    <3>1. ASSUME NEW c \in 0..20
          PROVE  \E n \in 1..(i - 1) : given[n] = <<name[1], NoRest, c>> /\ sheets[n].name = name
      <4>1. CASE c = 0
        BY <1>7, <1>8, <1>10, <2>1, <4>1
      <4>2. CASE c \in 1..20
        <5>1. PICK n \in 1..last : /\ given[n] = <<name[1], NoRest, c>> /\ sheets[n].name[1] = name[1]
                                   /\ \E j \in 1..(n - 1) : sheets[j].name = sheets[n].name
          BY <1>11, <2>3, <4>2
        <5>2. sheets[n].name[2] = NoRest
          BY <2>5, <5>1
        <5>3. sheets[n].name = name
          BY <1>6, <1>7, <2>1, <5>1, <5>2
        <5> QED BY <1>7, <5>1, <5>3
      <4> QED BY <4>1, <4>2
    <3>2. Exhausted(sheets, i, given)
      BY <1>2, <3>1 DEF Exhausted
    <3> QED BY <1>1, <1>3, <3>2, CountersRunOut
  <2> QED BY <2>4, <2>5
<1> QED BY <1>13, <1>14

LEMMA NamedStays ==
    ASSUME plan' = plan, NEW a
    PROVE  Named(a)' <=> Named(a)
BY DEF Named, NameOf

LEMMA NamedQuiet ==
    ASSUME NamedInv, plan' = plan, format' = format, run'.sheets = run.sheets,
           run'.written = run.written, run'.names = run.names,
           \A i \in 1..Len(run.sheets) : run.sheets[i].item \notin run'.todo,
           run'.step \in {"share", "build"} => run.step \in {"share", "build"}
    PROVE  NamedInv'
<1>1. PICK sheets, written, names :
          sheets = run.sheets /\ written = run.written /\ names = run.names
  OBVIOUS
<1>2. \A i \in 1..Len(sheets) : Named(sheets[i])'
  BY <1>1, NamedStays DEF NamedInv
<1>3. (format = "XLSX" => NamesGiven(run.sheets, run.written, run.names))'
  <2>1. run'.sheets = sheets /\ run'.written = written /\ run'.names = names
    BY <1>1
  <2>2. format = "XLSX" => NamesGiven(sheets, written, names)
    BY <1>1 DEF NamedInv
  <2>3. NamesGiven(run.sheets, run.written, run.names)' <=> NamesGiven(sheets, written, names)
    BY <2>1 DEF NamesGiven, Gave
  <2> QED BY <2>2, <2>3
<1>4. (\A i, j \in 1..Len(run.sheets) : i # j => Apart(run.sheets[i], run.sheets[j]))'
  BY DEF NamedInv, Apart
<1> QED BY <1>1, <1>2, <1>3, <1>4 DEF NamedInv

LEMMA NamedNone ==
    ASSUME run'.sheets = <<>>, run'.written = 0, run'.names = {}
    PROVE  NamedInv'
<1>1. Len(run'.sheets) = 0 /\ 1..0 = {}
  OBVIOUS
<1>2. NamesGiven(run'.sheets, 0, {})
  BY <1>1 DEF NamesGiven, Gave
<1> QED BY <1>1, <1>2 DEF NamedInv, NamesGiven, Gave

\* The worksheets of an item are added to those of the run.
Adds(item, new) ==
    /\ Building(item) /\ plan' = plan /\ format' = format
    /\ run'.sheets = run.sheets \o new /\ run'.written = run.written /\ run'.names = run.names
    /\ run'.todo = run.todo \ {item} /\ run'.step = run.step

LEMMA NamedAdd ==
    ASSUME IndInv, NamedInv, NEW item, NEW T, NEW new \in Seq(T), Adds(item, new),
           \A i \in 1..Len(new) : Named(new[i]) /\ new[i].item = item,
           \A i, j \in 1..Len(new) : i # j => Apart(new[i], new[j])
    PROVE  NamedInv'
<1>0. /\ Building(item) /\ plan' = plan /\ format' = format
      /\ run'.sheets = run.sheets \o new /\ run'.written = run.written /\ run'.names = run.names
      /\ run'.todo = run.todo \ {item} /\ run'.step = run.step
  BY DEF Adds
<1>1. /\ run.sheets \in Seq(SheetRecords) /\ run.written = 0 /\ run.step \in {"build", "widgets"}
      /\ item \in run.todo
  BY DEF IndInv, TypeInv, RunRecords, TodoInv, Adds, Building
<1>2. PICK old, sheets : old = run.sheets /\ sheets = old \o new
  OBVIOUS
<1>3. \A i \in 1..Len(sheets) : \/ i \in 1..Len(old) /\ sheets[i] = old[i]
                                \/ i - Len(old) \in 1..Len(new) /\ sheets[i] = new[i - Len(old)]
  BY <1>1, <1>2
<1>4. /\ \A i \in 1..Len(old) : Named(old[i]) /\ old[i].item \notin run.todo
      /\ \A i, j \in 1..Len(old) : i # j => Apart(old[i], old[j])
      /\ run.step = "build" => \A i \in 1..Len(old) : old[i].item.widget = 0
  BY <1>2 DEF NamedInv
<1>5. \A i \in 1..Len(sheets) : Named(sheets[i])' /\ sheets[i].item \notin run.todo \ {item}
  <2> TAKE i \in 1..Len(sheets)
  <2>1. CASE i \in 1..Len(old) /\ sheets[i] = old[i]
    BY <1>0, <1>4, <2>1, NamedStays
  <2>2. CASE i - Len(old) \in 1..Len(new) /\ sheets[i] = new[i - Len(old)]
    BY <1>0, <2>2, NamedStays
  <2> QED BY <1>3, <2>1, <2>2
<1>6. ASSUME NEW i \in 1..Len(sheets), NEW j \in 1..Len(sheets), i # j
      PROVE  Apart(sheets[i], sheets[j])
  <2>1. CASE i \in 1..Len(old) /\ sheets[i] = old[i]
    <3>1. CASE j \in 1..Len(old) /\ sheets[j] = old[j]
      BY <1>4, <1>6, <2>1, <3>1
    <3>2. CASE j - Len(old) \in 1..Len(new) /\ sheets[j] = new[j - Len(old)]
      <4>1. sheets[j].item = item /\ sheets[i].item # item
        BY <1>1, <1>4, <2>1, <3>2
      <4> QED BY <4>1 DEF Apart
    <3> QED BY <1>3, <3>1, <3>2
  <2>2. CASE i - Len(old) \in 1..Len(new) /\ sheets[i] = new[i - Len(old)]
    <3>1. CASE j \in 1..Len(old) /\ sheets[j] = old[j]
      <4>1. sheets[i].item = item /\ sheets[j].item # item
        BY <1>1, <1>4, <2>2, <3>1
      <4> QED BY <4>1 DEF Apart
    <3>2. CASE j - Len(old) \in 1..Len(new) /\ sheets[j] = new[j - Len(old)]
      <4>1. PICK n \in 1..Len(new), m \in 1..Len(new) : n # m /\ sheets[i] = new[n] /\ sheets[j] = new[m]
        <5>1. i - Len(old) # j - Len(old)
          BY <1>1, <1>2, <1>6
        <5> QED BY <2>2, <3>2, <5>1
      <4>2. Apart(new[n], new[m])
        BY <4>1
      <4>3. Apart(new[n], new[m]) <=> Apart(sheets[i], sheets[j])
        BY <4>1
      <4> QED BY <4>2, <4>3
    <3> QED BY <1>3, <3>1, <3>2
  <2> QED BY <1>3, <2>1, <2>2
<1>7. run.step = "build" => \A i \in 1..Len(sheets) : sheets[i].item.widget = 0
  <2>1. run.step = "build" => item.widget = 0
    BY <1>0, BuildingFacts DEF Item
  <2>2. \A i \in 1..Len(new) : new[i].item.widget = item.widget
    OBVIOUS
  <2> QED BY <1>3, <1>4, <2>1, <2>2
<1>8. format = "XLSX" => NamesGiven(sheets, 0, run.names)
  <2>1. 1..0 = {}
    OBVIOUS
  <2> QED BY <1>1, <2>1 DEF NamedInv, NamesGiven, Gave
<1>9. run'.sheets = sheets /\ run'.written = 0
  BY <1>0, <1>1, <1>2
<1> QED BY <1>0, <1>1, <1>5, <1>6, <1>7, <1>8, <1>9 DEF NamedInv, Apart, NamesGiven, Gave

LEMMA NamedWritten ==
    ASSUME IndInv, NamedInv, NEW i, Writing(i), ~NameTaken(i), NEW sheet,
           sheet.item = run.sheets[i].item, sheet.kind = run.sheets[i].kind,
           sheet.name = run.sheets[i].name,
           run' = Written(i, sheet), plan' = plan, format' = format
    PROVE  NamedInv'
<1>1. /\ TypeInv /\ run.sheets \in Seq(SheetRecords) /\ i \in 1..Len(run.sheets) /\ run.todo = {}
      /\ run.written \in Nat /\ i = run.written + 1 /\ run.step = "write" /\ run \in RunRecords(run.names)
  BY DEF IndInv, TypeInv, RunRecords, Writing, TodoInv
<1>2. PICK old, sheets, used, name, names :
          /\ old = run.sheets /\ sheets = [old EXCEPT ![i] = sheet] /\ used = run.names
          /\ name = UniqueName(sheet.name, used)
          /\ names = IF format = "XLSX" THEN used \cup {name} ELSE used
  OBVIOUS
<1>3. /\ Len(sheets) = Len(old) /\ i \in 1..Len(old) /\ old \in Seq(SheetRecords)
      /\ \A j \in 1..Len(old) : /\ sheets[j].item = old[j].item /\ sheets[j].kind = old[j].kind
                                /\ sheets[j].name = old[j].name
  BY <1>1, <1>2
<1>4. run' = [run EXCEPT !.written = i, !.sheets = sheets, !.names = names]
  BY <1>1, <1>2 DEF Written, RunRecords
<1>5. /\ run'.sheets = sheets /\ run'.written = i /\ run'.names = names /\ run'.todo = {}
      /\ run'.step = "write"
  BY <1>1, <1>4 DEF RunRecords
<1>6. /\ \A j \in 1..Len(old) : Named(old[j])
      /\ \A j, k \in 1..Len(old) : j # k => Apart(old[j], old[k])
  BY <1>2 DEF NamedInv
<1>7. \A j \in 1..Len(sheets) : Named(sheets[j])'
  <2> TAKE j \in 1..Len(sheets)
  <2>1. Named(old[j]) /\ NameOf(sheets[j].item) = NameOf(old[j].item)
    BY <1>3, <1>6
  <2>2. Named(sheets[j])
    BY <1>3, <2>1 DEF Named
  <2> QED BY <2>2, NamedStays
<1>8. \A j, k \in 1..Len(sheets) : j # k => Apart(sheets[j], sheets[k])
  BY <1>3, <1>6 DEF Apart
<1>9. ASSUME format = "XLSX" PROVE NamesGiven(sheets, i, names)
  <2>1. PICK given : Gave(old, run.written, given) /\ used = {given[n] : n \in 1..run.written}
    BY <1>2, <1>9 DEF NamedInv, NamesGiven
  <2>2. PICK all : all = [n \in 1..i |-> IF n = i THEN name ELSE given[n]]
    OBVIOUS
  <2>3. 1..i = 1..run.written \cup {i} /\ i \notin 1..run.written
    BY <1>1
  <2>4. all[i] = name /\ \A n \in 1..run.written : all[n] = given[n]
    BY <2>2, <2>3
  <2>5. names = {all[n] : n \in 1..i}
    BY <1>2, <1>9, <2>1, <2>3, <2>4
  <2>6. ASSUME NEW n \in 1..run.written
        PROVE  \/ all[n] = sheets[n].name
               \/ /\ \E j \in 1..(n - 1) : sheets[j].name = sheets[n].name
                  /\ \E c \in 1..20 : all[n] = <<sheets[n].name[1], NoRest, c>>
    <3>1. n \in 1..Len(old) /\ \A j \in 1..(n - 1) : j \in 1..Len(old)
      BY <1>1, <1>3
    <3>2. sheets[n].name = old[n].name /\ \A j \in 1..(n - 1) : sheets[j].name = old[j].name
      BY <1>3, <3>1
    <3>3. \/ given[n] = old[n].name
          \/ /\ \E j \in 1..(n - 1) : old[j].name = old[n].name
             /\ \E c \in 1..20 : given[n] = <<old[n].name[1], NoRest, c>>
      BY <2>1 DEF Gave
    <3> QED BY <2>4, <3>2, <3>3
  <2>7. \/ all[i] = sheets[i].name
        \/ /\ \E j \in 1..(i - 1) : sheets[j].name = sheets[i].name
           /\ \E c \in 1..20 : all[i] = <<sheets[i].name[1], NoRest, c>>
    <3>1. sheets[i].name = sheet.name /\ sheet.name = old[i].name
      BY <1>2, <1>3
    <3>2. CASE sheet.name \notin used
      BY <1>2, <2>4, <3>1, <3>2 DEF UniqueName
    <3>3. CASE sheet.name \in used
      <4>1. Counters(sheet.name, used) # {}
        BY <1>2, <1>9, <3>3 DEF NameTaken
      <4>2. PICK least : least = Min(Counters(sheet.name, used))
        OBVIOUS
      <4>3. least \in 1..20
        <5>1. Counters(sheet.name, used) \in SUBSET Nat
          BY DEF Counters
        <5>2. least \in Counters(sheet.name, used)
          BY <4>1, <4>2, <5>1, MinIsLeast
        <5> QED BY <5>2 DEF Counters
      <4>4. all[i] = <<sheets[i].name[1], NoRest, least>>
        BY <1>2, <2>4, <3>1, <3>3, <4>2 DEF UniqueName
      <4>5. PICK first \in 1..run.written : given[first] = old[i].name
        BY <2>1, <3>1, <3>3
      <4>6. old[first].name = old[i].name
        <5>1. run.written <= Len(old)
          BY <1>1, <1>2
        <5> QED BY <1>1, <1>3, <1>6, <2>1, <4>5, <5>1, GivenAsAsked
      <4>7. first \in 1..(i - 1) /\ first \in 1..Len(old)
        BY <1>1, <1>2
      <4> QED BY <1>3, <4>3, <4>4, <4>6, <4>7
    <3> QED BY <3>2, <3>3
  <2>8. Gave(sheets, i, all)
    BY <2>3, <2>6, <2>7 DEF Gave
  <2> QED BY <2>5, <2>8 DEF NamesGiven
<1>10. (format = "XLSX" => NamesGiven(run.sheets, run.written, run.names))'
  BY <1>5, <1>9 DEF NamesGiven, Gave
<1>11. (\A j, k \in 1..Len(run.sheets) : j # k => Apart(run.sheets[j], run.sheets[k]))'
  BY <1>5, <1>8 DEF Apart
<1> QED BY <1>5, <1>7, <1>10, <1>11 DEF NamedInv

\* What an item is given: no worksheet, one of its name, or those of contacts.
Given(item, new) ==
    \/ new = <<>>
    \/ \E sheet : /\ new = <<sheet>> /\ sheet.item = item /\ sheet.kind \notin {"unique", "returning"}
                  /\ sheet.name = NameOf(item)
    \/ \E a, b : /\ item.section = "CONTACTS" /\ new = <<a, b>> /\ a.item = item /\ b.item = item
                 /\ a.kind = "unique" /\ a.name = <<"unique", NoRest, 0>>
                 /\ b.kind = "returning" /\ b.name = <<"returning", NoRest, 0>>

LEMMA NamedGiven ==
    ASSUME IndInv, NamedInv, NEW item, NEW new, Adds(item, new), Given(item, new)
    PROVE  NamedInv'
<1>1. Building(item) /\ "CONTACTS" \in Sections /\ Len(plan.widgets) \in Nat
  BY SectionsFacts, PlanFacts DEF Adds, IndInv
<1>2. /\ item.widget = 0 => item.section \in plan.sections
      /\ item.widget # 0 => /\ item.widget \in 1..Len(plan.widgets)
                            /\ item.section = plan.widgets[item.widget].kind
      /\ item.section = "CONTACTS" => item = Item("CONTACTS", 0)
  <2>1. CASE run.step = "build"
    <3>1. item = Item(item.section, 0) /\ item.section \in plan.sections
      BY <1>1, <2>1, BuildingFacts
    <3>2. item.widget = 0
      BY <3>1 DEF Item
    <3> QED BY <3>1, <3>2
  <2>2. CASE run.step = "widgets"
    <3>1. /\ item.widget \in 1..Len(plan.widgets) /\ item.section \in {"custom", "crosstab"}
          /\ item = Item(plan.widgets[item.widget].kind, item.widget)
      BY <1>1, <2>2, BuildingFacts
    <3>2. item.section = plan.widgets[item.widget].kind /\ item.widget # 0
      BY <1>1, <3>1 DEF Item
    <3> QED BY <3>1, <3>2
  <2> QED BY <1>1, <2>1, <2>2, BuildingFacts
<1>3. CASE new = <<>>
  <2>1. new \in Seq(Nat) /\ 1..Len(new) = {}
    BY <1>3
  <2> QED BY <2>1, NamedAdd
<1>4. CASE \E sheet : /\ new = <<sheet>> /\ sheet.item = item /\ sheet.kind \notin {"unique", "returning"}
                      /\ sheet.name = NameOf(item)
  <2>1. PICK sheet : /\ new = <<sheet>> /\ sheet.item = item /\ sheet.kind \notin {"unique", "returning"}
                     /\ sheet.name = NameOf(item)
    BY <1>4
  <2>2. Named(sheet)
    BY <1>2, <2>1 DEF Named
  <2>3. new \in Seq({sheet}) /\ \A i \in 1..Len(new) : new[i] = sheet /\ i = 1
    BY <2>1
  <2> QED BY <2>1, <2>2, <2>3, NamedAdd
<1>5. CASE \E a, b : /\ item.section = "CONTACTS" /\ new = <<a, b>> /\ a.item = item /\ b.item = item
                     /\ a.kind = "unique" /\ a.name = <<"unique", NoRest, 0>>
                     /\ b.kind = "returning" /\ b.name = <<"returning", NoRest, 0>>
  <2>1. PICK a, b : /\ item.section = "CONTACTS" /\ new = <<a, b>> /\ a.item = item /\ b.item = item
                    /\ a.kind = "unique" /\ a.name = <<"unique", NoRest, 0>>
                    /\ b.kind = "returning" /\ b.name = <<"returning", NoRest, 0>>
    BY <1>5
  <2>2. Named(a) /\ Named(b)
    BY <1>2, <2>1 DEF Named
  <2>3. Apart(a, b) /\ Apart(b, a)
    BY <2>1 DEF Apart
  <2>4. new \in Seq({a, b}) /\ \A i \in 1..Len(new) : (i = 1 /\ new[i] = a) \/ (i = 2 /\ new[i] = b)
    BY <2>1
  <2>5. \A i \in 1..Len(new) : Named(new[i]) /\ new[i].item = item
    BY <2>1, <2>2, <2>4
  <2>6. \A i, j \in 1..Len(new) : i # j => Apart(new[i], new[j])
    BY <2>3, <2>4
  <2> QED BY <2>4, <2>5, <2>6, NamedAdd
<1> QED BY <1>3, <1>4, <1>5 DEF Given

LEMMA SheetNamed ==
    ASSUME NEW item, NEW kind, NEW name, NEW rows, NEW urns
    PROVE  /\ LET sheet == Sheet(item, kind, name)
              IN sheet.item = item /\ sheet.kind = kind /\ sheet.name = name
           /\ LET sheet == Filled(Sheet(item, kind, name), rows)
              IN sheet.item = item /\ sheet.kind = kind /\ sheet.name = name
           /\ LET sheet == Counted(Sheet(item, kind, name), urns)
              IN sheet.item = item /\ sheet.kind = kind /\ sheet.name = name
BY DEF Sheet, Filled, Counted

LEMMA ContactsGiven ==
    ASSUME NEW item, item.section = "CONTACTS", NEW rows
    PROVE  Given(item, ContactSheets(item, rows))
<1>1. PICK a, b :
          /\ a = Counted(Sheet(item, "unique", <<"unique", NoRest, 0>>), Urns(rows, 1))
          /\ b = Counted(Sheet(item, "returning", <<"returning", NoRest, 0>>), Urns(rows, 2))
  OBVIOUS
<1>2. /\ a.item = item /\ a.kind = "unique" /\ a.name = <<"unique", NoRest, 0>>
      /\ b.item = item /\ b.kind = "returning" /\ b.name = <<"returning", NoRest, 0>>
  BY <1>1, SheetNamed
<1>3. ContactSheets(item, rows) = <<a, b>>
  BY <1>1 DEF ContactSheets
<1> QED BY <1>2, <1>3 DEF Given

LEMMA OneGiven ==
    ASSUME NEW item, NEW kind, kind \notin {"unique", "returning"}, NEW rows
    PROVE  /\ Given(item, <<Sheet(item, kind, NameOf(item))>>)
           /\ Given(item, <<Filled(Sheet(item, kind, NameOf(item)), rows)>>)
<1>1. PICK a, b, name : a = Sheet(item, kind, name) /\ b = Filled(Sheet(item, kind, name), rows)
                        /\ name = NameOf(item)
  OBVIOUS
<1>2. /\ a.item = item /\ a.kind = kind /\ a.name = name
      /\ b.item = item /\ b.kind = kind /\ b.name = name
  BY <1>1, SheetNamed
<1>3. Given(item, <<a>>) /\ Given(item, <<b>>)
  BY <1>1, <1>2 DEF Given
<1> QED BY <1>1, <1>3

LEMMA BuiltNamed ==
    ASSUME IndInv, NamedInv, NEW item, BuildLazy(item) \/ BuildList(item) \/ BuildSummary(item) \/ EndWalk(item)
    PROVE  NamedInv'
<1>1. Building(item) /\ plan' = plan /\ format' = format /\ run \in RunRecords(run.names)
  BY DEF BuildLazy, BuildList, BuildSummary, EndWalk, world, IndInv, TypeInv
<1>2. ASSUME NEW new, \/ run' = Add(run, item, new)
                      \/ run' = Add(Used(run, item.section), item, new)
                      \/ run' = [Add(Used(run, item.section), item, new) EXCEPT !.walk = NoWalk]
      PROVE  Adds(item, new)
  BY <1>1, <1>2 DEF Adds, Add, Used, RunRecords
<1>3. CASE BuildLazy(item)
  <2>1. CASE item.section # "CONTACTS"
    <3>1. run' = Add(run, item, <<Sheet(item, "events", NameOf(item))>>)
      BY <1>3, <2>1 DEF BuildLazy
    <3> QED BY <1>2, <3>1, OneGiven, NamedGiven
  <2>2. CASE item.section = "CONTACTS"
    <3>1. PICK rows : run' = Add(run, item, ContactSheets(item, rows))
      BY <1>3, <2>2 DEF BuildLazy
    <3> QED BY <1>2, <2>2, <3>1, ContactsGiven, NamedGiven
  <2> QED BY <2>1, <2>2
<1>4. CASE BuildList(item)
  <2> DEFINE sheet(rows) == Filled(Sheet(item, "events", NameOf(item)), KeptRows(item.section, rows))
  <2>1. CASE item.section = "CONTACTS"
    <3>1. run' = Add(run, item, ContactSheets(item, run.shared))
      BY <1>4, <2>1 DEF BuildList
    <3> QED BY <1>2, <2>1, <3>1, ContactsGiven, NamedGiven
  <2>2. ASSUME NEW rows PROVE Given(item, <<sheet(rows)>>) /\ Given(item, <<>>)
    BY OneGiven DEF Given
  <2> HIDE DEF sheet
  <2>3. CASE item.section = "RESOLUTIONS"
    <3>1. run' = Add(run, item, IF Empty(run.shared) THEN <<>> ELSE <<sheet(run.shared)>>)
      BY <1>4, <2>3 DEF BuildList, sheet
    <3>2. PICK new : run' = Add(run, item, new) /\ (new = <<>> \/ new = <<sheet(run.shared)>>)
      BY <3>1
    <3> QED BY <1>2, <2>2, <3>2, NamedGiven
  <2>4. CASE item.section \notin {"CONTACTS", "RESOLUTIONS"}
    <3>1. run' = Add(Used(run, item.section), item, <<sheet(StandardRows(item.section))>>)
      BY <1>4, <2>4 DEF BuildList, sheet
    <3> QED BY <1>2, <2>2, <3>1, NamedGiven
  <2> QED BY <2>1, <2>3, <2>4
<1>5. CASE BuildSummary(item)
  <2>1. PICK rows : run' = Add(run, item, <<Filled(Sheet(item, "summary", NameOf(item)), rows)>>)
    BY <1>5 DEF BuildSummary
  <2> QED BY <1>2, <2>1, OneGiven, NamedGiven
<1>6. CASE EndWalk(item)
  <2>1. PICK rows : run' = [Add(Used(run, item.section), item, <<SurveySheet(item, rows)>>) EXCEPT !.walk = NoWalk]
    BY <1>6 DEF EndWalk
  <2>2. Given(item, <<SurveySheet(item, rows)>>)
    BY OneGiven DEF SurveySheet
  <2> QED BY <1>2, <2>1, <2>2, NamedGiven
<1> QED BY <1>3, <1>4, <1>5, <1>6

\* Steps of the run but those that build: nothing is added, or the run begins or ends.
LEMMA NamedAround ==
    ASSUME IndInv, NamedInv, UNCHANGED <<plan, format, run>>
    PROVE  NamedInv'
<1>1. NamedInv => \A i \in 1..Len(run.sheets) : run.sheets[i].item \notin run.todo
  BY DEF NamedInv
<1> QED BY <1>1, NamedQuiet

LEMMA NamedFresh ==
    ASSUME NoRun = run' \/ (run'.sheets = <<>> /\ run'.written = 0 /\ run'.names = {})
    PROVE  NamedInv'
BY NamedNone DEF NoRun

LEMMA NextNamed ==
    ASSUME IndInv, NamedInv, [Next]_vars
    PROVE  NamedInv'
<1>1. run \in RunRecords(run.names) /\ TypeInv
  BY DEF IndInv, TypeInv
<1>2. CASE UNCHANGED vars
  BY <1>2, NamedAround DEF vars, world
<1>3. CASE \E f \in facts : Record(f)
  BY <1>3, NamedAround DEF Record, world
<1>4. CASE \E c \in DOMAIN docs : RunFlow(c)
  BY <1>4, NamedAround DEF RunFlow, world
<1>5. CASE \E w \in live : DeleteWidget(w)
  BY <1>5, NamedAround DEF DeleteWidget, world
<1>6. CASE Interrupt \/ Sweep
  BY <1>6, NamedAround DEF Interrupt, Sweep, world
<1>7. CASE Die
  BY <1>7, NamedFresh DEF Die
<1>8. CASE Raise
  BY <1>8, NamedFresh DEF Raise, Fail
<1>9. CASE \E k \in DOMAIN redis : Expire(k)
  BY <1>9, NamedAround DEF Expire, world
<1>10. CASE Begin
  BY <1>10, NamedFresh DEF Begin, NoRun
<1>11. CASE Share
  <2>1. /\ plan' = plan /\ format' = format /\ run.step = "share" /\ run'.step = "build"
        /\ run'.sheets = run.sheets /\ run'.written = run.written /\ run'.names = run.names
    BY <1>1, <1>11 DEF Share, Used, world, RunRecords
  <2>2. run.sheets = <<>> /\ run.written = 0
    BY <2>1 DEF IndInv, TodoInv
  <2>3. 1..Len(run.sheets) = {}
    BY <2>2
  <2> QED BY <2>1, <2>3, NamedQuiet
<1>12. CASE \E item \in run.todo : BuildStep(item)
  <2>1. PICK item \in run.todo : BuildStep(item)
    BY <1>12
  <2>2. CASE BuildLazy(item) \/ BuildList(item) \/ BuildSummary(item) \/ EndWalk(item)
    BY <2>2, BuiltNamed
  <2>3. CASE WalkPage(item)
    <3>1. /\ plan' = plan /\ format' = format /\ run'.step = run.step /\ run'.todo = run.todo
          /\ run'.sheets = run.sheets /\ run'.written = run.written /\ run'.names = run.names
      BY <1>1, <2>3 DEF WalkPage, world, RunRecords
    <3>2. \A i \in 1..Len(run.sheets) : run.sheets[i].item \notin run.todo
      BY DEF NamedInv
    <3> QED BY <3>1, <3>2, NamedQuiet
  <2>4. CASE WalkTooLong(item)
    BY <2>4, NamedFresh DEF WalkTooLong, Fail
  <2> QED BY <2>1, <2>2, <2>3, <2>4 DEF BuildStep
<1>13. CASE ListWidgets
  <2>1. /\ plan' = plan /\ format' = format /\ run.step = "build" /\ run'.step = "widgets"
        /\ run'.sheets = run.sheets /\ run'.written = run.written /\ run'.names = run.names
        /\ run'.todo = {Item(plan.widgets[w].kind, w) : w \in live}
    BY <1>1, <1>13 DEF ListWidgets, world, RunRecords
  <2>2. \A item \in run'.todo : item.widget # 0
    <3>1. live \subseteq 1..Len(plan.widgets) /\ Len(plan.widgets) \in Nat
      BY <1>1, PlanFacts DEF TypeInv, TypeOK
    <3> QED BY <2>1, <3>1 DEF Item
  <2>3. \A i \in 1..Len(run.sheets) : run.sheets[i].item.widget = 0
    BY <2>1 DEF NamedInv
  <2>4. \A i \in 1..Len(run.sheets) : run.sheets[i].item \notin run'.todo
    BY <2>2, <2>3
  <2> QED BY <2>1, <2>4, NamedQuiet
<1>14. CASE StartWriting
  <2>1. /\ plan' = plan /\ format' = format /\ run'.step = "write" /\ run'.todo = {}
        /\ run'.sheets = run.sheets /\ run'.written = run.written /\ run'.names = run.names
    BY <1>1, <1>14 DEF StartWriting, world, RunRecords
  <2> QED BY <2>1, NamedQuiet
<1>15. CASE \E i \in 1..Len(run.sheets) : WriteInMemory(i) \/ WriteSheet(i) \/ NameRefused(i)
  <2>1. PICK i \in 1..Len(run.sheets) : WriteInMemory(i) \/ WriteSheet(i) \/ NameRefused(i)
    BY <1>15
  <2>2. CASE WriteInMemory(i)
    BY <2>2, NamedWritten DEF WriteInMemory, world
  <2>3. CASE WriteSheet(i)
    <3>1. PICK rows, sheet : /\ run' = Written(i, sheet)
                             /\ sheet = IF run.sheets[i].read THEN run.sheets[i]
                                        ELSE Filled(run.sheets[i], KeptRows(run.sheets[i].item.section, rows))
      BY <2>3 DEF WriteSheet
    <3>2. run.sheets[i] \in SheetRecords
      BY <1>1 DEF RunRecords
    <3>3. /\ sheet.item = run.sheets[i].item /\ sheet.kind = run.sheets[i].kind
          /\ sheet.name = run.sheets[i].name
      <4>1. PICK old, kept : old = run.sheets[i] /\ kept = KeptRows(run.sheets[i].item.section, rows)
        OBVIOUS
      <4>2. sheet = old \/ sheet = [old EXCEPT !.read = TRUE, !.rows = kept]
        BY <3>1, <4>1 DEF Filled
      <4> QED BY <3>2, <4>1, <4>2 DEF SheetRecords
    <3> QED BY <2>3, <3>1, <3>3, NamedWritten DEF WriteSheet, world
  <2>4. CASE NameRefused(i)
    BY <2>4, NamedFresh DEF NameRefused, Fail
  <2> QED BY <2>1, <2>2, <2>3, <2>4
<1>16. CASE Conclude
  <2>1. plan' = plan /\ format' = format
    BY <1>16 DEF Conclude, world
  <2>2. CASE run' = NoRun
    BY <2>2, NamedFresh
  <2>3. CASE run' = [run EXCEPT !.step = "mail"]
    <3>1. /\ run'.step = "mail" /\ run'.todo = run.todo
          /\ run'.sheets = run.sheets /\ run'.written = run.written /\ run'.names = run.names
      BY <1>1, <2>3 DEF RunRecords
    <3>2. \A i \in 1..Len(run.sheets) : run.sheets[i].item \notin run.todo
      BY DEF NamedInv
    <3> QED BY <2>1, <3>1, <3>2, NamedQuiet
  <2> QED BY <1>16, <2>2, <2>3 DEF Conclude
<1>17. CASE Mail
  BY <1>17, NamedFresh DEF Mail
<1> QED BY <1>2, <1>3, <1>4, <1>5, <1>6, <1>7, <1>8, <1>9, <1>10, <1>11, <1>12, <1>13, <1>14,
           <1>15, <1>16, <1>17 DEF Next

-----------------------------------------------------------------------------
(* Why a report fails.                                                     *)

\* The contacts that the walk over a survey has passed, and those that have answered since.
Passed == {c \in DOMAIN docs : docs[c].at >= run.walk.after}

\* Every page but the last was full, and the last was not empty.
Length(s) ==
    /\ (run.walk.page - 2) * PageSize < Cardinality(Passed)
    /\ (run.walk.page - 1) * PageSize <= Cardinality(Passed) \/ Left(s) = {}
LengthInv ==
    run.walk = NoWalk \/ (run.walk.page > 1 /\ \E s \in Surveys : Building(Item(s, 0)) /\ Length(s))

\* A report that met no fault, whose names do not clash and whose surveys are not too long,
\* has not failed.
CauseInv ==
    faults = 0 /\ ~NamesClash /\ ~TooManyAnswers =>
        status # "FAILED" /\ (run.step # "idle" => status = "IN_PROGRESS")

\* A page is full, or the last.
LEMMA PageIsFull ==
    ASSUME TypeInv, NEW s
    PROVE  /\ IsFiniteSet(PageOf(s)) /\ Cardinality(PageOf(s)) \in Nat
           /\ PageOf(s) # Left(s) => Cardinality(PageOf(s)) >= PageSize
<1> DEFINE Above(c) == {d \in Left(s) : docs[d].at > docs[c].at}
           Rest == Left(s) \ PageOf(s)
<1>1. PageOf(s) = {c \in Left(s) : Cardinality(Above(c)) < PageSize}
  BY DEF PageOf, Left
<1>2. \A c \in Left(s) : docs[c].at \in Nat /\ docs[c].at <= Cardinality(Contacts) + MaxMoves
  BY DEF TypeInv, Left
<1>3. IsFiniteSet(PageOf(s)) /\ Cardinality(PageOf(s)) \in Nat
  <2>1. PageOf(s) \subseteq Contacts
    BY PageFacts DEF TypeInv, Left
  <2> QED BY <2>1, FS_Subset, FS_CardinalityType, BoundsAssumption
<1>4. ASSUME PageOf(s) # Left(s) PROVE Cardinality(PageOf(s)) >= PageSize
  <2> DEFINE Times == {docs[c].at : c \in Rest}
             bound == Cardinality(Contacts) + MaxMoves
  <2>1. Rest # {}
    BY <1>4, PageFacts
  <2>2. Times \in SUBSET Nat /\ Times # {} /\ \A y \in Times : y <= bound
    BY <1>2, <2>1
  <2>3. bound \in Nat
    BY BoundsAssumption, FS_CardinalityType
  <2>4. PICK last : last \in Times /\ \A y \in Times : y <= last
    <3> HIDE DEF Times, bound
    <3> QED BY <2>2, <2>3, MaxIsGreatest
  <2>5. PICK c \in Rest : docs[c].at = last
    BY <2>4
  <2>6. Above(c) \subseteq PageOf(s)
    BY <1>2, <2>4, <2>5
  <2>7. Cardinality(Above(c)) <= Cardinality(PageOf(s)) /\ Cardinality(Above(c)) \in Nat
    <3> HIDE DEF Above
    <3> QED BY <1>3, <2>6, FS_Subset, FS_CardinalityType
  <2>8. ~(Cardinality(Above(c)) < PageSize)
    BY <1>1, <2>5
  <2>9. PICK n : n = Cardinality(Above(c))
    OBVIOUS
  <2> HIDE DEF Above
  <2> QED BY <1>3, <2>7, <2>8, <2>9, BoundsAssumption
<1> QED BY <1>3, <1>4

LEMMA PassedFacts ==
    ASSUME TypeInv
    PROVE  /\ IsFiniteSet(DOMAIN docs) /\ IsFiniteSet(Passed)
           /\ Cardinality(Passed) \in Nat /\ Cardinality(DOMAIN docs) \in Nat
           /\ Cardinality(Passed) <= Cardinality(DOMAIN docs)
<1>1. IsFiniteSet(DOMAIN docs) /\ Passed \subseteq DOMAIN docs
  BY FS_Subset, BoundsAssumption DEF TypeInv, Passed
<1> QED BY <1>1, FS_Subset, FS_CardinalityType

\* A walk that reaches its limit has more answers than fit.
LEMMA LimitReached ==
    ASSUME IndInv, LengthInv, NEW item, WalkTooLong(item)
    PROVE  TooManyAnswers
<1>1. /\ run.walk.page >= PageLimit /\ run.walk.page \in Nat \ {0} /\ PageLimit \in Nat
      /\ PageSize \in Nat \ {0}
      /\ Cardinality(Passed) \in Nat /\ Cardinality(DOMAIN docs) \in Nat
      /\ Cardinality(Passed) <= Cardinality(DOMAIN docs)
  BY PassedFacts, BoundsAssumption DEF WalkTooLong, IndInv, TypeInv, RunRecords, Walks
<1>2. PICK n, d, p : n = run.walk.page /\ d = Cardinality(DOMAIN docs) /\ p = Cardinality(Passed)
  OBVIOUS
<1>3. n >= PageLimit /\ n \in Nat \ {0} /\ d \in Nat /\ p \in Nat /\ p <= d
  BY <1>1, <1>2
<1>4. (n - 2) * PageSize < d
  <2>1. CASE run.walk = NoWalk
    <3>1. n = 1
      BY <1>2, <2>1 DEF NoWalk
    <3>2. (1 - 2) * PageSize = -PageSize
      BY <1>1
    <3> QED BY <1>1, <1>3, <3>1, <3>2
  <2>2. CASE run.walk # NoWalk
    <3>1. (n - 2) * PageSize < p
      BY <1>2, <2>2 DEF LengthInv, Length
    <3>2. (n - 2) * PageSize \in Int
      BY <1>1, <1>3
    <3> QED BY <1>3, <3>1, <3>2
  <2> QED BY <2>1, <2>2
<1>5. (PageLimit - 2) * PageSize <= (n - 2) * PageSize
  BY <1>1, <1>3
<1>6. (PageLimit - 2) * PageSize \in Int /\ (n - 2) * PageSize \in Int
  BY <1>1, <1>3
<1>7. d > (PageLimit - 2) * PageSize
  BY <1>3, <1>4, <1>5, <1>6
<1> QED BY <1>2, <1>7 DEF TooManyAnswers

LEMMA PlaceType ==
    ASSUME NEW s \in Sections
    PROVE  Place(Item(s, 0)) \in Nat
<1>1. PICK i \in DOMAIN SectionOrder : SectionOrder[i] = s
  BY DEF Sections
<1>2. Place(Item(s, 0)) = CHOOSE j \in DOMAIN SectionOrder : SectionOrder[j] = s
  BY DEF Place, Item
<1>3. Place(Item(s, 0)) \in DOMAIN SectionOrder
  BY <1>1, <1>2
<1> QED BY <1>3 DEF SectionOrder

\* A page more: the contacts on it are passed.
LEMMA LengthWalk ==
    ASSUME IndInv, LengthInv, NEW item, WalkPage(item)
    PROVE  LengthInv'
<1> DEFINE s == item.section
<1>1. /\ Building(item) /\ s \in Surveys /\ plan' = plan /\ docs' = docs
  BY DEF WalkPage, world, data
<1>2. PICK page, after, rows :
          /\ page = PageOf(s) /\ page # {} /\ after = Min({docs[c].at : c \in page})
          /\ run' = [run EXCEPT !.walk = [page |-> run.walk.page + 1, after |-> after, rows |-> rows]]
  BY DEF WalkPage
<1>3. /\ TypeInv /\ run \in RunRecords(run.names) /\ item = Item(s, 0) /\ s \in Sections
      /\ run.walk.page \in Nat \ {0} /\ run.walk.after \in Nat
  BY <1>1, BuildingFacts, SectionsFacts DEF IndInv, TypeInv, RunRecords, Walks, Surveys
<1>4. /\ run'.walk.page = run.walk.page + 1 /\ run'.walk.after = after
      /\ run'.step = run.step /\ run'.todo = run.todo
  BY <1>2, <1>3 DEF RunRecords
<1>5. \A c \in DOMAIN docs : docs[c].at \in Nat
  BY <1>3 DEF TypeInv
<1>6. \A c \in page : c \in DOMAIN docs /\ c \in Left(s)
  BY <1>2, <1>3, PageFacts DEF Left
<1>7. after \in Nat /\ (\A c \in page : after <= docs[c].at) /\ \E c \in page : after = docs[c].at
  <2> DEFINE Times == {docs[c].at : c \in page}
  <2>1. Times \in SUBSET Nat /\ Times # {}
    BY <1>2, <1>5, <1>6
  <2>2. after \in Times /\ \A y \in Times : after <= y
    <3>1. after = Min(Times)
      BY <1>2
    <3> HIDE DEF Times
    <3> QED BY <2>1, <3>1, MinIsLeast
  <2> QED BY <2>1, <2>2
<1>8. PICK n, before, passed :
          /\ n = run.walk.page /\ passed = {c \in DOMAIN docs : docs[c].at >= after}
          /\ before = {c \in DOMAIN docs : n # 1 /\ docs[c].at >= run.walk.after}
  OBVIOUS
<1>9. Passed' = passed /\ (n # 1 => Passed = before)
  BY <1>1, <1>4, <1>8 DEF Passed
<1>10. before \cup page \subseteq passed /\ before \cap page = {}
  <2>1. CASE n = 1
    BY <1>6, <1>7, <1>8, <1>9, <2>1
  <2>2. CASE n # 1
    <3>1. \A c \in page : docs[c].at < run.walk.after
      BY <1>6, <1>8, <2>2 DEF Left
    <3>2. after < run.walk.after
      BY <1>7, <3>1
    <3>3. \A c \in before : c \in DOMAIN docs /\ docs[c].at >= run.walk.after
      BY <1>8, <2>2
    <3>4. \A c \in before : docs[c].at >= after /\ c \notin page
      BY <1>3, <1>5, <1>7, <3>1, <3>2, <3>3
    <3> QED BY <1>6, <1>7, <1>8, <1>9, <3>3, <3>4
  <2> QED BY <2>1, <2>2
<1>11. PICK a, b, c : a = Cardinality(before) /\ b = Cardinality(page) /\ c = Cardinality(passed)
  OBVIOUS
<1>12. a \in Nat /\ b \in Nat /\ c \in Nat /\ a + b <= c /\ b >= 1 /\ (page # Left(s) => b >= PageSize)
  <2>1. IsFiniteSet(DOMAIN docs) /\ IsFiniteSet(page) /\ b \in Nat /\ (page # Left(s) => b >= PageSize)
    BY <1>2, <1>3, <1>11, PassedFacts, PageIsFull
  <2>2. IsFiniteSet(before) /\ IsFiniteSet(passed)
    <3>1. before \subseteq DOMAIN docs /\ passed \subseteq DOMAIN docs
      BY <1>8
    <3> QED BY <2>1, <3>1, FS_Subset
  <2>3. a \in Nat /\ c \in Nat
    BY <1>11, <2>2, FS_CardinalityType
  <2>4. Cardinality(before \cup page) = a + b - Cardinality(before \cap page)
    BY <1>11, <2>1, <2>2, FS_Union
  <2>5. Cardinality(before \cap page) = 0
    BY <1>10, FS_EmptySet
  <2>6. Cardinality(before \cup page) <= c
    BY <1>10, <1>11, <2>2, FS_Subset
  <2>7. b # 0
    BY <1>2, <1>11, <2>1, FS_EmptySet
  <2> QED BY <2>1, <2>3, <2>4, <2>5, <2>6, <2>7
<1>13. (n - 1) * PageSize <= a
  <2>1. CASE n = 1
    <3>1. (1 - 1) * PageSize = 0
      BY BoundsAssumption
    <3> QED BY <1>12, <2>1, <3>1
  <2>2. CASE n # 1
    <3>1. run.walk # NoWalk
      BY <1>8, <2>2 DEF NoWalk
    <3>2. PICK t \in Surveys : Building(Item(t, 0)) /\ Length(t)
      BY <3>1 DEF LengthInv
    <3>3. t = s
      <4>1. s \in Sections /\ t \in Sections
        BY <1>3, <3>2, SectionsFacts DEF Surveys
      <4>2. Place(Item(s, 0)) \in Nat /\ Place(Item(t, 0)) \in Nat
        BY <4>1, PlaceType
      <4>3. Place(Item(s, 0)) <= Place(Item(t, 0)) /\ Place(Item(t, 0)) <= Place(Item(s, 0))
        BY <1>1, <1>3, <3>2 DEF Building
      <4> QED BY <4>1, <4>2, <4>3, OnePlace
    <3>4. Left(s) # {}
      BY <1>2, <1>6
    <3> QED BY <1>8, <1>9, <1>11, <2>2, <3>2, <3>3, <3>4 DEF Length
  <2> QED BY <2>1, <2>2
<1>14. Building(item)'
  <2>1. \A other : Place(other)' = Place(other)
    BY <1>1 DEF Place
  <2> QED BY <1>1, <1>4, <2>1 DEF Building
<1>15. Length(s)'
  <2>1. (n + 1 - 2) * PageSize < c
    <3>1. n + 1 - 2 = n - 1 /\ (n - 1) * PageSize \in Int
      BY <1>3, <1>8, BoundsAssumption
    <3> QED BY <1>12, <1>13, <3>1
  <2>2. (n + 1 - 1) * PageSize <= c \/ page = Left(s)
    <3>1. (n + 1 - 1) * PageSize = (n - 1) * PageSize + PageSize /\ (n - 1) * PageSize \in Int
      BY <1>3, <1>8, BoundsAssumption
    <3> QED BY <1>12, <1>13, <3>1, BoundsAssumption
  <2>3. page = Left(s) => Left(s)' = {}
    <3> SUFFICES ASSUME page = Left(s), NEW d \in Left(s)' PROVE FALSE
      OBVIOUS
    <3>1. /\ d \in DOMAIN docs /\ Included(s, docs[d].answer) /\ docs[d].at < after
      BY <1>1, <1>3, <1>4 DEF Left, Included
    <3>2. d \in Left(s)
      <4>1. run.walk.page = 1 \/ after < run.walk.after
        BY <1>6, <1>7 DEF Left
      <4>2. docs[d].at \in Nat
        BY <1>5, <3>1
      <4>3. run.walk.page = 1 \/ docs[d].at < run.walk.after
        BY <1>3, <1>7, <3>1, <4>1, <4>2
      <4> QED BY <3>1, <4>3 DEF Left
    <3> QED BY <1>5, <1>7, <3>1, <3>2
  <2>4. run'.walk.page = n + 1 /\ Cardinality(Passed') = c
    BY <1>4, <1>8, <1>9, <1>11
  <2>5. (n + 1 - 1) * PageSize <= c \/ Left(s)' = {}
    BY <2>2, <2>3
  <2>6. PICK m : m = n + 1
    OBVIOUS
  <2>7. (m - 2) * PageSize < c /\ ((m - 1) * PageSize <= c \/ Left(s)' = {})
    <3>1. n \in Int /\ m - 2 = n + 1 - 2 /\ m - 1 = n + 1 - 1
      BY <1>3, <1>8, <2>6
    <3> QED BY <2>1, <2>5, <3>1
  <2> QED BY <2>4, <2>6, <2>7 DEF Length
<1> QED BY <1>1, <1>3, <1>4, <1>8, <1>14, <1>15 DEF LengthInv

\* A contact who runs the flow again is passed.
LEMMA LengthFlow ==
    ASSUME IndInv, LengthInv, NEW c \in DOMAIN docs, RunFlow(c)
    PROVE  LengthInv'
<1>1. /\ TypeInv /\ plan' = plan /\ run' = run
  BY DEF IndInv, RunFlow, world
<1>2. PICK last, a : /\ last = Max({docs[d].at : d \in DOMAIN docs})
                     /\ docs' = [docs EXCEPT ![c] = [at |-> last + 1, answer |-> a]]
  BY DEF RunFlow
<1>3. \A d \in DOMAIN docs : docs[d].at \in Nat /\ docs[d].at <= Cardinality(Contacts) + MaxMoves
  BY <1>1 DEF TypeInv
<1>4. last \in Nat /\ \A d \in DOMAIN docs : docs[d].at <= last
  <2> DEFINE Times == {docs[d].at : d \in DOMAIN docs}
             bound == Cardinality(Contacts) + MaxMoves
  <2>1. Times \in SUBSET Nat /\ Times # {} /\ \A y \in Times : y <= bound
    BY <1>3
  <2>2. bound \in Nat
    BY BoundsAssumption, FS_CardinalityType
  <2>3. last \in Times /\ \A y \in Times : y <= last
    <3>1. last = Max(Times)
      BY <1>2
    <3> HIDE DEF Times, bound
    <3> QED BY <2>1, <2>2, <3>1, MaxIsGreatest
  <2> QED BY <2>1, <2>3
<1>5. /\ DOMAIN docs' = DOMAIN docs /\ docs'[c].at = last + 1
      /\ \A d \in DOMAIN docs : d # c => docs'[d] = docs[d]
  BY <1>2
<1>6. CASE run.walk = NoWalk
  BY <1>1, <1>6 DEF LengthInv
<1>7. CASE run.walk # NoWalk
  <2>1. PICK s \in Surveys : run.walk.page > 1 /\ Building(Item(s, 0)) /\ Length(s)
    BY <1>7 DEF LengthInv
  <2>2. PICK before, passed, after, n :
            /\ before = Passed /\ passed = Passed' /\ after = run.walk.after /\ n = run.walk.page
    OBVIOUS
  <2>3. after \in Nat /\ n \in Nat \ {0}
    BY <1>1, <2>2 DEF TypeInv, RunRecords, Walks
  <2>4. before \subseteq passed
    BY <1>1, <1>3, <1>4, <1>5, <2>2, <2>3 DEF Passed
  <2>5. IsFiniteSet(passed)
    <3>1. IsFiniteSet(DOMAIN docs)
      BY <1>1, PassedFacts
    <3>2. passed \subseteq DOMAIN docs
      BY <1>5, <2>2 DEF Passed
    <3> QED BY <3>1, <3>2, FS_Subset
  <2>6. /\ Cardinality(before) <= Cardinality(passed)
        /\ Cardinality(before) \in Nat /\ Cardinality(passed) \in Nat
    BY <2>4, <2>5, FS_Subset, FS_CardinalityType
  <2>7. Left(s) = {} => Left(s)' = {}
    <3> SUFFICES ASSUME Left(s) = {}, NEW d \in Left(s)' PROVE FALSE
      OBVIOUS
    <3>1. d \in DOMAIN docs /\ Included(s, docs'[d].answer) /\ docs'[d].at < after
      BY <1>1, <1>5, <2>1, <2>2, <2>3 DEF Left, Included
    <3>2. d # c
      <4>1. \E e \in DOMAIN docs : docs[e].at >= after
        <5>1. PICK p : p = Cardinality(before)
          OBVIOUS
        <5>2. (n - 2) * PageSize < p /\ n > 1 /\ p \in Nat
          BY <2>1, <2>2, <2>6, <5>1 DEF Length
        <5>3. (n - 2) * PageSize >= 0
          BY <2>3, <5>2, BoundsAssumption
        <5>4. p # 0
          BY <2>3, <5>2, <5>3, BoundsAssumption
        <5>5. before # {}
          BY <5>1, <5>4, FS_EmptySet
        <5> QED BY <2>2, <5>5 DEF Passed
      <4> QED BY <1>3, <1>4, <1>5, <2>3, <3>1, <4>1
    <3>3. docs'[d] = docs[d]
      BY <1>5, <3>1, <3>2
    <3> QED BY <2>2, <3>1, <3>3 DEF Left
  <2>8. PICK x, y : x = Cardinality(before) /\ y = Cardinality(passed)
    OBVIOUS
  <2>9. /\ (n - 2) * PageSize < x
        /\ (n - 1) * PageSize <= x \/ Left(s) = {}
        /\ x <= y /\ x \in Nat /\ y \in Nat
    BY <2>1, <2>2, <2>6, <2>8 DEF Length
  <2>10. (n - 2) * PageSize \in Int /\ (n - 1) * PageSize \in Int
    BY <2>3, BoundsAssumption
  <2>11. (n - 2) * PageSize < y /\ ((n - 1) * PageSize <= y \/ Left(s)' = {})
    BY <2>7, <2>9, <2>10
  <2>12. Length(s)'
    BY <1>1, <2>2, <2>8, <2>11 DEF Length
  <2>13. Building(Item(s, 0))'
    BY <1>1, <2>1 DEF Building, Place
  <2> QED BY <1>1, <2>1, <2>12, <2>13 DEF LengthInv
<1> QED BY <1>6, <1>7

LEMMA LengthQuiet ==
    ASSUME LengthInv, UNCHANGED <<plan, docs, run>>
    PROVE  LengthInv'
<1>1. \A s : Building(Item(s, 0))' = Building(Item(s, 0)) /\ Length(s)' = Length(s)
  BY DEF Building, Place, Length, Passed, Left, Included
<1> QED BY <1>1 DEF LengthInv

LEMMA NextLength ==
    ASSUME IndInv, LengthInv, [Next]_vars
    PROVE  LengthInv'
<1>1. run \in RunRecords(run.names)
  BY DEF IndInv, TypeInv
<1>2. ASSUME run'.walk = NoWalk PROVE LengthInv'
  BY <1>2 DEF LengthInv
<1>3. NoRun.walk = NoWalk
  BY DEF NoRun
<1>4. CASE UNCHANGED vars
  BY <1>4, LengthQuiet DEF vars, world, data
<1>5. CASE \E f \in facts : Record(f)
  BY <1>5, LengthQuiet DEF Record, world
<1>6. CASE \E c \in DOMAIN docs : RunFlow(c)
  BY <1>6, LengthFlow
<1>7. CASE \E w \in live : DeleteWidget(w)
  BY <1>7, LengthQuiet DEF DeleteWidget, world
<1>8. CASE Interrupt \/ Sweep
  BY <1>8, LengthQuiet DEF Interrupt, Sweep, world, data
<1>9. CASE Die \/ Raise
  BY <1>2, <1>3, <1>9 DEF Die, Raise, Fail
<1>10. CASE \E k \in DOMAIN redis : Expire(k)
  BY <1>10, LengthQuiet DEF Expire, world, data
<1>11. CASE Begin
  BY <1>2, <1>11 DEF Begin, NoRun
<1>12. CASE Share \/ ListWidgets \/ StartWriting
  <2>1. run.walk = NoWalk
    BY <1>12, NoWalkFacts DEF Share, ListWidgets, StartWriting
  <2>2. run'.walk = run.walk
    <3>1. CASE Share
      BY <1>1, <3>1 DEF Share, Used, RunRecords
    <3>2. CASE ListWidgets \/ StartWriting
      BY <1>1, <3>2 DEF ListWidgets, StartWriting, RunRecords
    <3> QED BY <1>12, <3>1, <3>2
  <2> QED BY <1>2, <2>1, <2>2
<1>13. CASE \E item \in run.todo : BuildStep(item)
  <2>1. PICK item \in run.todo : BuildStep(item)
    BY <1>13
  <2>2. CASE BuildLazy(item) \/ BuildList(item) \/ BuildSummary(item)
    <3>1. Building(item) /\ item.section \notin Surveys
      BY <2>2 DEF BuildLazy, BuildList, BuildSummary, IsList, Summary, Surveys, Invoked
    <3>2. run.walk = NoWalk
      BY <3>1, BuildingFacts
    <3>3. run'.walk = run.walk
      <4>1. PICK r, new : run' = Add(r, item, new) /\ (r = run \/ r = Used(run, item.section))
        <5>1. CASE BuildLazy(item)
          BY <5>1 DEF BuildLazy
        <5>2. CASE BuildList(item)
          BY <5>2 DEF BuildList
        <5>3. CASE BuildSummary(item)
          BY <5>3 DEF BuildSummary
        <5> QED BY <2>2, <5>1, <5>2, <5>3
      <4> QED BY <1>1, <4>1 DEF Add, Used, RunRecords
    <3> QED BY <1>2, <3>2, <3>3
  <2>3. CASE WalkPage(item)
    BY <2>3, LengthWalk
  <2>4. CASE EndWalk(item)
    BY <1>1, <1>2, <2>4 DEF EndWalk, Add, Used, RunRecords
  <2>5. CASE WalkTooLong(item)
    BY <1>2, <1>3, <2>5 DEF WalkTooLong, Fail
  <2> QED BY <2>1, <2>2, <2>3, <2>4, <2>5 DEF BuildStep
<1>14. CASE \E i \in 1..Len(run.sheets) : WriteInMemory(i) \/ WriteSheet(i) \/ NameRefused(i)
  <2>1. PICK i \in 1..Len(run.sheets) : WriteInMemory(i) \/ WriteSheet(i) \/ NameRefused(i)
    BY <1>14
  <2>2. CASE NameRefused(i)
    BY <1>2, <1>3, <2>2 DEF NameRefused, Fail
  <2>3. CASE WriteInMemory(i) \/ WriteSheet(i)
    <3>1. run.walk = NoWalk
      BY <2>3, NoWalkFacts DEF WriteInMemory, WriteSheet, Writing
    <3>2. PICK sheet : run' = Written(i, sheet)
      BY <2>3 DEF WriteInMemory, WriteSheet
    <3> QED BY <1>1, <1>2, <3>1, <3>2 DEF Written, RunRecords
  <2> QED BY <2>1, <2>2, <2>3
<1>15. CASE Conclude \/ Mail
  <2>1. run.walk = NoWalk
    BY <1>15, NoWalkFacts DEF Conclude, Mail
  <2>2. run' = NoRun \/ run' = [run EXCEPT !.step = "mail"]
    BY <1>15 DEF Conclude, Mail
  <2> QED BY <1>1, <1>2, <1>3, <2>1, <2>2 DEF RunRecords
<1> QED BY <1>4, <1>5, <1>6, <1>7, <1>8, <1>9, <1>10, <1>11, <1>12, <1>13, <1>14, <1>15 DEF Next

\* No step undoes a cause, and only what raises makes a report fail.
LEMMA CauseStays ==
    ASSUME IndInv, CauseInv, plan' = plan, DOMAIN docs' = DOMAIN docs,
           \/ Fault
           \/ faults' = faults /\ (NamesClash \/ TooManyAnswers)
           \/ faults' = faults /\ status' = status /\ (run.step = "idle" => run'.step = "idle")
           \/ status' = "IN_PROGRESS"
           \/ status' = "READY" /\ run'.step = "idle"
    PROVE  CauseInv'
<1>1. NamesClash' = NamesClash /\ TooManyAnswers' = TooManyAnswers
  BY DEF NamesClash, TooManyAnswers, Titles
<1>2. faults \in Nat
  BY BoundsAssumption DEF IndInv, TypeInv, TypeOK
<1> QED BY <1>1, <1>2 DEF CauseInv, Fault

LEMMA NextCause ==
    ASSUME IndInv, NamedInv, LengthInv, CauseInv, [Next]_vars
    PROVE  CauseInv'
<1>1. run \in RunRecords(run.names) /\ NoRun.step = "idle"
  BY DEF IndInv, TypeInv, NoRun
<1>2. ASSUME UNCHANGED <<plan, docs, faults, status>>, run.step = "idle" => run'.step = "idle"
      PROVE  CauseInv'
  BY <1>2, CauseStays
<1>3. CASE UNCHANGED vars
  BY <1>2, <1>3 DEF vars, world, data
<1>4. CASE \E f \in facts : Record(f)
  BY <1>2, <1>4 DEF Record, world
<1>5. CASE \E c \in DOMAIN docs : RunFlow(c)
  <2>1. plan' = plan /\ DOMAIN docs' = DOMAIN docs /\ UNCHANGED <<faults, status, run>>
    BY <1>5 DEF RunFlow, world
  <2> QED BY <2>1, CauseStays
<1>6. CASE \E w \in live : DeleteWidget(w)
  BY <1>2, <1>6 DEF DeleteWidget, world
<1>7. CASE Interrupt
  BY <1>2, <1>7 DEF Interrupt, world, data
<1>8. CASE Sweep \/ Die
  <2>1. plan' = plan /\ docs' = docs /\ Fault
    BY <1>8 DEF Sweep, Die, world, data
  <2> QED BY <2>1, CauseStays
<1>9. CASE Raise
  <2>1. plan' = plan /\ docs' = docs
    BY <1>9 DEF Raise, Fail, world, data
  <2>2. run.step # "idle"
    BY <1>9 DEF Raise, Building, Writing
  <2>3. CASE Fault
    BY <2>1, <2>3, CauseStays
  <2>4. CASE status # "IN_PROGRESS" /\ faults' = faults
    <3>1. faults # 0 \/ NamesClash \/ TooManyAnswers
      BY <2>2, <2>4 DEF CauseInv
    <3>2. CASE NamesClash \/ TooManyAnswers
      BY <2>1, <2>4, <3>2, CauseStays
    <3>3. CASE faults # 0
      BY <2>4, <3>3 DEF CauseInv
    <3> QED BY <3>1, <3>2, <3>3
  <2> QED BY <1>9, <2>3, <2>4 DEF Raise
<1>10. CASE \E k \in DOMAIN redis : Expire(k)
  BY <1>2, <1>10 DEF Expire, world, data
<1>11. CASE Begin
  BY <1>11, CauseStays DEF Begin, world
<1>12. CASE Share
  BY <1>2, <1>12 DEF Share, world, data
<1>13. CASE ListWidgets \/ StartWriting
  BY <1>2, <1>13 DEF ListWidgets, StartWriting, world, data
<1>14. CASE \E item \in run.todo : BuildStep(item)
  <2>1. PICK item \in run.todo : BuildStep(item)
    BY <1>14
  <2>2. run.step # "idle"
    BY <2>1 DEF BuildStep, BuildLazy, BuildList, BuildSummary, WalkPage, EndWalk, WalkTooLong, Building
  <2>3. CASE BuildLazy(item) \/ BuildList(item) \/ BuildSummary(item)
    BY <1>2, <2>2, <2>3 DEF BuildLazy, BuildList, BuildSummary, world, data
  <2>4. CASE WalkPage(item) \/ EndWalk(item)
    BY <1>2, <2>2, <2>4 DEF WalkPage, EndWalk, world, data
  <2>5. CASE WalkTooLong(item)
    <3>1. TooManyAnswers
      BY <2>5, LimitReached
    <3>2. plan' = plan /\ docs' = docs /\ faults' = faults
      BY <2>5 DEF WalkTooLong, Fail, world, data
    <3> QED BY <3>1, <3>2, CauseStays
  <2> QED BY <2>1, <2>3, <2>4, <2>5 DEF BuildStep
<1>15. CASE \E i \in 1..Len(run.sheets) : WriteInMemory(i) \/ WriteSheet(i) \/ NameRefused(i)
  <2>1. PICK i \in 1..Len(run.sheets) : WriteInMemory(i) \/ WriteSheet(i) \/ NameRefused(i)
    BY <1>15
  <2>2. Writing(i) /\ run.step # "idle"
    BY <2>1 DEF WriteInMemory, WriteSheet, NameRefused, Writing
  <2>3. CASE WriteInMemory(i) \/ WriteSheet(i)
    BY <1>2, <2>2, <2>3 DEF WriteInMemory, WriteSheet, world, data
  <2>4. CASE NameRefused(i)
    <3>1. NamesClash
      BY <2>2, <2>4, NotTaken DEF NameRefused
    <3>2. plan' = plan /\ docs' = docs /\ faults' = faults
      BY <2>4 DEF NameRefused, Fail, world, data
    <3> QED BY <3>1, <3>2, CauseStays
  <2> QED BY <2>1, <2>3, <2>4
<1>16. CASE Conclude
  <2>1. UNCHANGED <<plan, docs, faults, status>> /\ run.step # "idle"
    BY <1>16 DEF Conclude, world, data
  <2> QED BY <1>2, <2>1
<1>17. CASE Mail
  BY <1>1, <1>17, CauseStays DEF Mail, world, data
<1> QED BY <1>3, <1>4, <1>5, <1>6, <1>7, <1>8, <1>9, <1>10, <1>11, <1>12, <1>13, <1>14, <1>15,
           <1>16, <1>17 DEF Next

\* A report fails by itself only when names clash once they are cut or when a survey is
\* longer than its page limit; otherwise one that has ended without any fault is ready
\* (ensure_unique_worksheet_name, elastic_page_limit).
THEOREM FailsOnlyForACause == Spec => []FailsForACause
<1>1. Init => NamedInv /\ LengthInv /\ CauseInv
  <2>1. Init => run = NoRun /\ status = "PENDING"
    BY DEF Init
  <2>2. run = NoRun => NamedInv
    <3>1. Len(<<>>) = 0 /\ 1..0 = {}
      OBVIOUS
    <3>2. NamesGiven(<<>>, 0, {})
      BY <3>1 DEF NamesGiven, Gave
    <3> QED BY <3>1, <3>2 DEF NamedInv, NoRun
  <2>3. run = NoRun => LengthInv
    BY DEF LengthInv, NoRun
  <2>4. run = NoRun /\ status = "PENDING" => CauseInv
    BY DEF CauseInv, NoRun
  <2> QED BY <2>1, <2>2, <2>3, <2>4
<1>2. IndInv /\ NamedInv /\ LengthInv /\ CauseInv /\ [Next]_vars => (NamedInv /\ LengthInv /\ CauseInv)'
  BY NextNamed, NextLength, NextCause
<1>3. CauseInv => FailsForACause
  BY DEF CauseInv, FailsForACause, Ended
<1> QED BY <1>1, <1>2, <1>3, IndInvHolds, PTL DEF Spec

\* A report that ended without any fault is ready unless it had a cause to fail, and a ready
\* one answers what was asked for.
THEOREM SectionsAreAnswered == Spec => []SectionsAnswered
<1>1. FailsForACause /\ EachAnswered => SectionsAnswered
  BY DEF SectionsAnswered
<1> QED BY <1>1, FailsOnlyForACause, WhatWasAsked, PTL
===============================================================================
