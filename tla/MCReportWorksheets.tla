-------------------------- MODULE MCReportWorksheets --------------------------
(* The plans that TLC checks ReportWorksheets with.                         *)
EXTENDS ReportWorksheets

Widget(kind, head, tail) == [kind |-> kind, name |-> <<head, tail, 0>>]
Ask(sections, widgets) == [sections |-> sections, widgets |-> widgets]

\* Sections that share events, a flow, a key or a flag; widgets named as a section, as
\* each other, and as each other once they are cut; two pairs of widgets whose names
\* begin alike.
SomePlans ==
    {Ask(s, <<>>) : s \in {{"RESOLUTIONS"}, {"CONTACTS"}, Classified, Topics, Surveys, Invoked,
                          {"CSAT_AI", "NPS_AI"}, {"ADDED_TO_CART", "SEARCH_TERMS"}}}
    \cup {Ask({"RESOLUTIONS"}, <<Widget("custom", "RESOLUTIONS", NoRest)>>),
          Ask({}, <<Widget("custom", "long", "x"), Widget("crosstab", "long", "x")>>),
          Ask({}, <<Widget("crosstab", "long", "x"), Widget("crosstab", "long", "x"),
                    Widget("crosstab", "long", "x")>>),
          Ask({}, <<Widget("custom", "long", "x"), Widget("crosstab", "long", "x"),
                    Widget("crosstab", "long", "y")>>),
          Ask({}, <<Widget("crosstab", "long", NoRest), Widget("crosstab", "long", NoRest),
                    Widget("crosstab", "long", "x"), Widget("crosstab", "long", "x")>>)}

\* Two contacts, or two agents, or what rows leave out.
Facts(key, urns, agents, kinds) == [key: {key}, urn: urns, agent: agents, kind: kinds]

AboutPlan(p) ==
    UNION {Facts("conversation_classification", IF "CONTACTS" \in p.sections THEN {1, 2} ELSE {1},
                 {Own}, {"plain", "odd"}) : s \in p.sections \cap Classified}
    \cup UNION {Facts("topics", {1}, {Own}, {"plain", "human"}) : s \in p.sections \cap Topics}
    \cup UNION {Facts(s, {1}, {Own, Other}, {"plain"}) :
                s \in p.sections \cap {"CSAT_AI", "NPS_AI", "ADDED_TO_CART", "SEARCH_TERMS"}}
    \cup UNION {Facts(s, {1}, {Own}, {"plain", "odd"}) : s \in p.sections \cap Invoked}
    \cup UNION {Facts("custom", {1}, {Own, Other}, {"plain"}) :
                w \in {v \in 1..Len(p.widgets) : p.widgets[v].kind = "custom"}}

TwoFacts(p) == {s \in SUBSET AboutPlan(p) : Cardinality(s) = Min({2, Cardinality(AboutPlan(p))})}

SomeFacts == [p \in SomePlans |-> TwoFacts(p)]
===============================================================================
