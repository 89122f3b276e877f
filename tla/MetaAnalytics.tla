---------------------------- MODULE MetaAnalytics ----------------------------
(***************************************************************************)
(* What the analytics of a message template add up to when the numbers of  *)
(* a WABA have moved to another: the days asked of each WABA, the answers  *)
(* of Meta in redis, and their merging.                                    *)
(*                                                                         *)
(* One template and one product.  The counts of a day (sent, delivered,    *)
(* read, clicked) are added alike, so one of them stands for all; the      *)
(* percentages are computed from the sums.  A range that reaches the       *)
(* present ends at the current second, which is part of its key in redis:  *)
(* nobody finds it there again, and it is not stored in the model.         *)
(***************************************************************************)
EXTENDS Integers, Sequences, FiniteSums, Functions

CONSTANTS
    Requests,   \* web processes that serve a request for analytics
    MaxDay,     \* bound: days
    MaxSent,    \* bound: messages of a WABA in a day
    MaxCached   \* bound: answers in redis at once

ASSUME BoundsAssumption == MaxDay \in Nat \ {0} /\ MaxSent \in Nat /\ MaxCached \in Nat

VARIABLES
    today,
    migrated,   \* the day in migration_data, or Never
    cloned,     \* the old WABA has a template of that name
    sent,       \* messages of each WABA in each day
    cache,      \* answers of Meta in redis
    ask         \* the request each process serves

vars == <<today, migrated, cloned, sent, cache, ask>>

Days == 1..MaxDay
Never == 0
Wabas == {"old", "new"}
Ranges == {r \in [start: Days, end: Days] : r.start <= r.end}
Keys == [waba: Wabas, range: Ranges]

\* messages-analytics of the front end and of other services, the use case that
\* adds up several WABAs, and the conversions, which call the client for one WABA.
Entries == {"public", "internal", "multi", "client"}

DaysOf(range) == range.start..range.end
Volume(waba, range) == SumOver(sent[waba], DaysOf(range))

Answers == [total: Nat, points: UNION {[D -> 0..2 * MaxSent] : D \in SUBSET Days},
            bare: BOOLEAN]
Nothing == [total |-> 0, points |-> <<>>, bare |-> FALSE]

NoAsk == [step |-> "idle", entry |-> "public", waba |-> "old", range |-> [start |-> 1, end |-> 1],
          todo |-> <<>>, got |-> <<>>, floor |-> 0, skipped |-> FALSE, answer |-> Nothing]

TypeOK ==
    /\ today \in Days /\ migrated \in Days \cup {Never} /\ cloned \in BOOLEAN
    /\ sent \in [Wabas -> [Days -> 0..MaxSent]]
    /\ DOMAIN cache \subseteq Keys /\ \A k \in DOMAIN cache : cache[k] \in Answers
    /\ \A a \in Requests :
        /\ ask[a].step \in {"idle", "fetch", "done", "failed"}
        /\ ask[a].entry \in Entries /\ ask[a].waba \in Wabas /\ ask[a].range \in Ranges
        /\ ask[a].todo \in Seq(Keys) /\ Len(ask[a].todo) + Len(ask[a].got) <= 2
        /\ \A i \in 1..Len(ask[a].got) : ask[a].got[i] \in Answers
        /\ ask[a].answer.total \in Nat /\ ask[a].floor \in Nat /\ ask[a].skipped \in BOOLEAN

Init ==
    /\ today = 1 /\ migrated = Never
    /\ cloned \in BOOLEAN
    /\ sent = [w \in Wabas |-> [d \in Days |-> 0]]
    /\ cache = <<>>
    /\ ask = [a \in Requests |-> NoAsk]

-----------------------------------------------------------------------------
(* Time and traffic.                                                       *)

NewDay ==
    /\ today < MaxDay
    /\ today' = today + 1
    /\ UNCHANGED <<migrated, cloned, sent, cache, ask>>

\* The webhook saves migration_data with the current time.
Migrate ==
    /\ migrated = Never
    /\ migrated' = today
    /\ UNCHANGED <<today, cloned, sent, cache, ask>>

\* Traffic reaches the new WABA once it exists, and may still reach the old one.
Send(w) ==
    /\ w = "new" => migrated # Never
    /\ w = "old" => cloned
    /\ sent[w][today] < MaxSent
    /\ sent' = [sent EXCEPT ![w][today] = @ + 1]
    /\ UNCHANGED <<today, migrated, cloned, cache, ask>>

-----------------------------------------------------------------------------
(* The days to ask of each WABA.                                           *)

OnWaba(w, range) == [waba |-> w, range |-> range]

\* Mutant of Periods: the old WABA is asked until the day before the migration.
PeriodsSplit(w, range) ==
    IF w = "old" \/ migrated = Never THEN <<OnWaba(w, range)>>
    ELSE IF range.end < migrated THEN <<OnWaba("old", range)>>
    ELSE (IF range.start < migrated
          THEN <<OnWaba("old", [range EXCEPT !.end = migrated - 1])>> ELSE <<>>)
         \o <<OnWaba("new", [range EXCEPT !.start = IF @ < migrated THEN migrated ELSE @])>>

\* resolve_waba_analytics_periods.  Only the dashboard of the new WABA carries
\* migration_data.
Periods(w, range) ==
    IF w = "old" \/ migrated = Never THEN <<OnWaba(w, range)>>
    ELSE IF range.end < migrated THEN <<OnWaba("old", range)>>
    ELSE <<OnWaba("old", range),
           OnWaba("new", [range EXCEPT !.start = IF @ < migrated THEN migrated ELSE @])>>

\* The periods for which the template has an id on the WABA; only the first can be
\* on another WABA than the one asked.  The front end's requests ask the current
\* WABA for the whole range if that leaves none.
Resolved(entry, w, range) ==
    LET periods == Periods(w, range)
        known == IF Head(periods).waba = w \/ cloned THEN periods ELSE Tail(periods)
    IN CASE entry = "client" -> <<OnWaba(w, range)>>
         [] known = <<>> /\ entry \in {"public", "internal"} -> <<OnWaba(w, range)>>
         [] OTHER -> known

\* What was sent in the range to a number now on the WABA.
Truth(entry, w, range) ==
    (IF entry = "client" /\ w = "new" THEN 0 ELSE Volume("old", range))
    + (IF w = "new" THEN Volume("new", range) ELSE 0)

\* A request names the WABA of a dashboard.  The internal one gives a list of
\* templates, of which Meta has no preview: it has no answer for a migrated WABA.
Begin(a, entry, range) ==
    /\ ask[a].step \in {"idle", "done", "failed"}
    /\ LET w == IF migrated = Never THEN "old" ELSE "new" IN
       ask' = [ask EXCEPT ![a] =
         IF entry = "internal" /\ w = "new" THEN [NoAsk EXCEPT !.step = "failed"]
         ELSE [NoAsk EXCEPT !.step = "fetch", !.entry = entry, !.waba = w, !.range = range,
                            !.todo = Resolved(entry, w, range),
                            !.floor = Truth(entry, w, range)]]
    /\ UNCHANGED <<today, migrated, cloned, sent, cache>>

\* The look-up of the old template raises: several WABAs go on without it.
LookupFails(a) ==
    /\ ask[a].step = "fetch" /\ ask[a].got = <<>> /\ ~ask[a].skipped
    /\ ask[a].todo # <<>> /\ Head(ask[a].todo).waba # ask[a].waba
    /\ ask' = [ask EXCEPT ![a] = IF @.entry = "multi"
                                 THEN [@ EXCEPT !.todo = Tail(ask[a].todo), !.skipped = TRUE]
                                 ELSE [NoAsk EXCEPT !.step = "failed"]]
    /\ UNCHANGED <<today, migrated, cloned, sent, cache>>

-----------------------------------------------------------------------------
(* MetaGraphAPIClient.get_messages_analytics                               *)

\* format_messages_metrics_data: the points are left out if the caller asks so.
Response(key, include) ==
    LET w == key.waba
        days == {d \in DaysOf(key.range) : sent[w][d] > 0}
    IN [total |-> Volume(w, key.range),
        points |-> IF include THEN [d \in days |-> sent[w][d]] ELSE <<>>,
        bare |-> ~include]

\* The range does not reach the present.
Kept(key) == key.range.end < today

Receive(a, answer) ==
    ask' = [ask EXCEPT ![a].got = Append(@, answer), ![a].todo = Tail(@)]

\* The key of redis does not say whether the answer has its points.
Fetch(a) ==
    /\ ask[a].step = "fetch" /\ ask[a].todo # <<>>
    /\ LET key == Head(ask[a].todo)
           fresh == Response(key, ask[a].entry # "internal")
       IN \/ /\ key \in DOMAIN cache
             /\ Receive(a, cache[key])
             /\ UNCHANGED cache
          \/ /\ key \notin DOMAIN cache
             /\ Receive(a, fresh)
             /\ cache' = IF Kept(key) /\ Cardinality(DOMAIN cache) < MaxCached
                         THEN [k \in DOMAIN cache \cup {key} |->
                                 IF k = key THEN fresh ELSE cache[k]]
                         ELSE cache
    /\ UNCHANGED <<today, migrated, cloned, sent>>

\* Meta answers with an error: several WABAs go on if it is the old one.
FetchFails(a) ==
    /\ ask[a].step = "fetch" /\ ask[a].todo # <<>>
    /\ LET key == Head(ask[a].todo) IN
       /\ key \notin DOMAIN cache
       /\ ask' = [ask EXCEPT ![a] = IF @.entry = "multi" /\ key.waba # @.waba
                                    THEN [@ EXCEPT !.todo = Tail(ask[a].todo), !.skipped = TRUE]
                                    ELSE [NoAsk EXCEPT !.step = "failed"]]
    /\ UNCHANGED <<today, migrated, cloned, sent, cache>>

\* The time to live of an hour.
Expire(key) ==
    /\ key \in DOMAIN cache
    /\ cache' = Restrict(cache, DOMAIN cache \ {key})
    /\ UNCHANGED <<today, migrated, cloned, sent, ask>>

-----------------------------------------------------------------------------
(* Merging.                                                                *)

At(points, d) == IF d \in DOMAIN points THEN points[d] ELSE 0

\* Mutant of AddPoints: a day of the second answer replaces that of the first.
AddPointsReplacing(p, q) ==
    [d \in DOMAIN p \cup DOMAIN q |-> IF d \in DOMAIN q THEN q[d] ELSE p[d]]

\* data_points by date
AddPoints(p, q) == [d \in DOMAIN p \cup DOMAIN q |-> At(p, d) + At(q, d)]

\* merge_messages_analytics
Merge(x, y) ==
    [total |-> x.total + y.total, points |-> AddPoints(x.points, y.points),
     bare |-> x.bare \/ y.bare]

\* One answer is given as it is.  The use case of several WABAs adds up points.
Consolidated(r) ==
    LET merged == IF Len(r.got) = 1 THEN r.got[1]
                  ELSE IF r.got = <<>> THEN Nothing ELSE Merge(r.got[1], r.got[2])
    IN IF r.entry = "multi" THEN [merged EXCEPT !.total = Total(merged.points)] ELSE merged

Answer(a) ==
    /\ ask[a].step = "fetch" /\ ask[a].todo = <<>>
    /\ ask' = [ask EXCEPT ![a].answer = Consolidated(ask[a]), ![a].step = "done", ![a].got = <<>>]
    /\ UNCHANGED <<today, migrated, cloned, sent, cache>>

-----------------------------------------------------------------------------

AskStep(a) == LookupFails(a) \/ Fetch(a) \/ FetchFails(a) \/ Answer(a)

Next ==
    \/ NewDay \/ Migrate
    \/ \E w \in Wabas : Send(w)
    \/ \E a \in Requests, entry \in Entries, range \in Ranges : Begin(a, entry, range)
    \/ \E a \in Requests : AskStep(a)
    \/ \E key \in Keys : Expire(key)

Spec == Init /\ [][Next]_vars

-----------------------------------------------------------------------------
(* Properties.                                                             *)

\* The totals answered, of one WABA or summed over several, are those of the
\* traffic of both WABAs of the number in the range (the conversions have only
\* that of the WABA they name): a message is counted once, on
\* whichever WABA and side of the migration day it fell, also when redis or the
\* days before a migration give a part of them.  What is sent while the answer is
\* made may be counted or not; a sum over several WABAs may lack the old WABA that
\* was skipped after an error, or what an internal request has cached without points.
TotalsAreTraffic ==
    \A a \in Requests : ask[a].step = "done" =>
        /\ ask[a].answer.total <= Truth(ask[a].entry, ask[a].waba, ask[a].range)
        /\ \/ ask[a].floor <= ask[a].answer.total
           \/ ask[a].entry = "multi" /\ (ask[a].skipped \/ ask[a].answer.bare)

\* The points of an answer are days of the range and add up to its total, unless
\* an internal request has cached a part of it without points.
PointsAddUp ==
    \A a \in Requests : (ask[a].step = "done" /\ ask[a].entry = "public") =>
        /\ DOMAIN ask[a].answer.points \subseteq DaysOf(ask[a].range)
        /\ Total(ask[a].answer.points) = ask[a].answer.total \/ ask[a].answer.bare
=============================================================================
