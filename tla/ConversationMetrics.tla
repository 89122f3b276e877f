------------------------- MODULE ConversationMetrics -------------------------
(***************************************************************************)
(* The conversations dashboard: requests that are answered from counts of  *)
(* the data lake, kept in redis for an hour, while conversations go on     *)
(* being recorded.  A request asks one or several methods of the data lake *)
(* service (contacts asks three, each in a thread); a method looks its key *)
(* up, or sends its queries, in threads or in turn, and keeps what it      *)
(* makes of them.  The topics are those of Nexus, whose list is kept in    *)
(* redis for a minute and dropped by whoever creates or deletes a topic.   *)
(* One project and one range of dates.                                     *)
(***************************************************************************)
EXTENDS Integers, FiniteSets, FiniteSums

CONSTANTS
    Clients,        \* web processes serving the dashboard
    Editors,        \* web processes that create and delete topics
    Topics,         \* uuids of topics
    Subtopics,      \* uuids of subtopics
    TopicOf,        \* the topic a subtopic was created in
    None,           \* no topic, no subtopic
    Conversations,  \* what is recorded of a conversation that was classified
    Types,          \* of the conversations whose topics are asked for: ai, human
    Ratings,        \* what an agent records under a key: a label, an amount
    MaxRecorded,    \* bound: facts recorded
    MaxFaults       \* bound: calls and pages that fail, editors that die

ASSUME MetricsAssumption ==
    /\ TopicOf \in [Subtopics -> Topics]
    /\ Types \subseteq {"ai", "human"}
    /\ None \notin Topics \cup Subtopics
    /\ Conversations \subseteq [of: {"conversation"}, contact: STRING,
                                class: {"resolved", "unresolved", "human"},
                                topic: Topics \cup {None}, subtopic: Subtopics \cup {None}]
    /\ \A f \in Conversations : f.subtopic # None => f.topic = TopicOf[f.subtopic]
    /\ Ratings \subseteq [of: {"rating"}, agent: STRING, key: STRING,
                          label: STRING, amount: Nat]
    /\ IsFiniteSet(Topics) /\ IsFiniteSet(Subtopics)
    /\ IsFiniteSet(Conversations) /\ IsFiniteSet(Ratings)
    /\ MaxRecorded \in Nat /\ MaxFaults \in Nat

Conversions == {[of |-> "lead"], [of |-> "purchase"]}
InClass(c) == {f \in Conversations : f.class = c}

-----------------------------------------------------------------------------
(* What is asked: the methods of the data lake service, with the arguments *)
(* that are not the project and the dates.                                 *)

Ask(m) == [method |-> m]
TopicsAsk(t) == [method |-> "topics_distribution", type |-> t]
AgentAsk(m, a) == [method |-> m, agent |-> a]
KeyAsk(m, a, k) == [method |-> m, agent |-> a, key |-> k]

ContactMethods == {"unique_contacts_count", "returning_contacts_count"}
AbsoluteMethods == {"event_count", "events_values_sum", "events_values_average",
                    "events_highest_value", "events_lowest_value"}
KeyMethods == AbsoluteMethods \cup {"get_generic_metrics_by_key"}
ScoreMethods == {"csat_metrics", "nps_metrics"}
LabelMethods == ScoreMethods \cup {"agent_invocations", "tool_results",
                                   "get_generic_metrics_by_key"}

\* The keys whose events have a method of their own.
MethodOf == [weni_csat |-> "csat_metrics", weni_nps |-> "nps_metrics",
             agent_invocation |-> "agent_invocations", tool_result |-> "tool_results"]
Under(k) == {f \in Ratings : f.key = k}
Custom == {f \in Ratings : f.key \notin DOMAIN MethodOf}

\* What one request of the dashboard asks.
TopicsRequests == {{TopicsAsk(t)} : t \in Types}
TotalsRequests == {{Ask("conversations_totals")}}
ContactsRequests ==
    {{Ask("unique_contacts_count"), Ask("returning_contacts_count"),
      Ask("conversations_totals")}}
FunnelRequests == {{Ask("sales_funnel_data")}}
ScoreRequests(k) == {{AgentAsk(MethodOf[k], f.agent)} : f \in Under(k)}
LabelRequests(k) == {{Ask(MethodOf[k])}}
CustomRequests(m) == {{KeyAsk(m, f.agent, f.key)} : f \in Custom}

\* A behaviour is of one kind of request, as kinds share no key of redis, but for
\* totals and contacts, which are asked together of conversations of one class.
About(r, F) == [requests |-> r, facts |-> F]
Subjects ==
    {About(TopicsRequests, Conversations), About(TotalsRequests, Conversations),
     About(TotalsRequests \cup ContactsRequests, InClass("resolved")),
     About(FunnelRequests, Conversions)}
        \cup {About(ScoreRequests(k), Under(k)) : k \in {"weni_csat", "weni_nps"}}
        \cup {About(LabelRequests(k), Under(k)) : k \in {"agent_invocation", "tool_result"}}
        \cup {About(CustomRequests(m), Custom) : m \in KeyMethods}

Asks == UNION UNION {s.requests : s \in Subjects}

\* Mutant of CacheKey: the agent is left out.
CacheKeyOfAnyAgent(a) ==
    CASE a.method = "topics_distribution" -> <<a.method, a.type>>
      [] a.method \in KeyMethods -> <<a.method, a.key>>
      [] OTHER -> <<a.method>>

\* _get_cache_key, as each method calls it.
CacheKey(a) ==
    CASE a.method = "topics_distribution" -> <<a.method, a.type>>
      [] a.method \in ScoreMethods -> <<a.method, a.agent>>
      [] a.method \in KeyMethods -> <<a.method, a.agent, a.key>>
      [] OTHER -> <<a.method>>

\* The queries of a method.
Parts(a) ==
    CASE a.method = "topics_distribution" -> {"topics", "subtopics"}
      [] a.method = "conversations_totals" -> {"resolved", "unresolved", "human"}
      [] a.method = "sales_funnel_data" -> {"leads", "orders", "value", "sample"}
      [] OTHER -> {"all"}

\* Queries sent only when others have been answered; the others are sent at once.
After(p) == IF p = "subtopics" THEN {"topics"} ELSE {}

-----------------------------------------------------------------------------
(* What a method makes of the answers.  lake is a function from facts to   *)
(* the number of times each was recorded, as it was when a query came: the *)
(* answer holds no more than the counts that are taken from it here.       *)

CountOf(lake, S) == SumOver(lake, S \cap DOMAIN lake)

OfType(t) == {f \in Conversations : (f.class = "human") = (t = "human")}

\* Mutant of Distribution: what is not listed is dropped, not put under OTHER.
DistributionOfListed(t, list, atTopics, atSubtopics) ==
    LET in(u) == CountOf(atTopics, {f \in OfType(t) : f.topic = u})
    IN [u \in {w \in (list \cap Topics) \cup {None} : in(w) > 0} |->
           [count |-> in(u), subs |-> <<>>]]

\* TopicsDistributionSerializer, of the counts by topic and the counts by
\* subtopic: a topic that is not listed counts as OTHER, one without
\* conversations is left out, and OTHER in a topic is what its subtopics leave.
Distribution(t, list, atTopics, atSubtopics) ==
    LET known == list \cap Topics
        inTopic(u) == CountOf(atTopics, {f \in OfType(t) : f.topic = u})
        other == CountOf(atTopics, {f \in OfType(t) : f.topic \notin known})
        listed(u) == {s \in list \cap Subtopics : TopicOf[s] = u}
        inSub(s) == CountOf(atSubtopics, {f \in OfType(t) : f.subtopic = s})
        rest(u) == inTopic(u) - Total([s \in listed(u) |-> inSub(s)])
        subs(u) == IF listed(u) = {} THEN <<>>
                   ELSE [s \in listed(u) \cup {None} |->
                            IF s = None THEN rest(u) ELSE inSub(s)]
        shown == {u \in known : inTopic(u) > 0} \cup (IF other > 0 THEN {None} ELSE {})
    IN [u \in shown |->
           IF u = None THEN [count |-> other, subs |-> <<>>]
           ELSE [count |-> inTopic(u), subs |-> subs(u)]]

\* Mutant of Totals: the total leaves out the transferred conversations.
TotalsOfClosed(at) ==
    LET of(c) == CountOf(at[c], InClass(c))
    IN [resolved |-> of("resolved"), unresolved |-> of("unresolved"), human |-> of("human"),
        total |-> of("resolved") + of("unresolved")]

\* get_conversations_totals
Totals(at) ==
    LET of(c) == CountOf(at[c], InClass(c))
    IN [resolved |-> of("resolved"), unresolved |-> of("unresolved"), human |-> of("human"),
        total |-> of("resolved") + of("unresolved") + of("human")]

\* get_sales_funnel_data, with purchases of one unit of the currency.
Funnel(at) ==
    LET of(p, x) == CountOf(at[p], {[of |-> x]})
    IN [leads |-> of("leads", "lead"), orders |-> of("orders", "purchase"),
        value |-> of("value", "purchase"),
        currency |-> of("orders", "purchase") > 0 /\ of("sample", "purchase") > 0]

\* The answers to get_unique_contacts_count and get_returning_contacts_count.
ContactsWith(lake, n) ==
    LET of(p) == {f \in Conversations : f.contact = p}
    IN Cardinality({p \in {f.contact : f \in Conversations} : CountOf(lake, of(p)) >= n})

\* The events a method counts: its agent's, or anyone's, under its key.
Own(a) ==
    CASE a.method \in KeyMethods -> {f \in Custom : f.agent = a.agent /\ f.key = a.key}
      [] a.method \in ScoreMethods ->
            {f \in Ratings : f.agent = a.agent /\ f.key \in DOMAIN MethodOf
                                /\ MethodOf[f.key] = a.method}
      [] OTHER -> {f \in Ratings : f.key \in DOMAIN MethodOf /\ MethodOf[f.key] = a.method}

\* get_csat_metrics and get_nps_metrics have their scores, and leave out anything
\* else; the other methods have the labels there are.
Scores(m) ==
    IF m = "csat_metrics" THEN {"1", "2", "3", "4", "5"}
    ELSE {"0", "1", "2", "3", "4", "5", "6", "7", "8", "9", "10"}

Groups(a, lake) ==
    LET count(l) == CountOf(lake, {f \in Own(a) : f.label = l})
        labels == IF a.method \in ScoreMethods THEN Scores(a.method)
                  ELSE {l \in {f.label : f \in Own(a)} : count(l) > 0}
    IN [l \in labels |-> count(l)]

\* get_event_count, ..., get_events_lowest_value; an average is <<sum, count>>.
Absolute(a, lake) ==
    LET there == {f \in Own(a) : lake[f] > 0}
        amounts == {f.amount : f \in there}
        sum == Total([f \in there |-> lake[f] * f.amount])
    IN CASE a.method = "event_count" -> CountOf(lake, there)
         [] a.method = "events_values_sum" -> sum
         [] a.method = "events_values_average" -> <<sum, CountOf(lake, there)>>
         [] a.method = "events_highest_value" -> IF there = {} THEN 0 ELSE Max(amounts)
         [] OTHER -> IF there = {} THEN 0 ELSE Min(amounts)

\* What the method returns and keeps.
ValueOf(a, list, at) ==
    CASE a.method = "topics_distribution" ->
            Distribution(a.type, list, at["topics"], at["subtopics"])
      [] a.method = "conversations_totals" -> Totals(at)
      [] a.method = "sales_funnel_data" -> Funnel(at)
      [] a.method \in ContactMethods -> at["all"]
      [] a.method \in AbsoluteMethods -> Absolute(a, at["all"])
      [] OTHER -> Groups(a, at["all"])

\* What is found in redis is used only if python takes it as true: not an empty
\* dictionary, nor a zero.
Truthy(a, v) ==
    CASE a.method = "events_values_average" -> v[1] # 0
      [] a.method \in (ContactMethods \cup AbsoluteMethods) \ {"events_values_average"} -> v # 0
      [] a.method \in {"conversations_totals", "sales_funnel_data"} -> TRUE
      [] OTHER -> DOMAIN v # {}

\* _transform_nps_results, of the scores; percentages are left out.
Nps(v) ==
    [promoters |-> v["10"] + v["9"], passives |-> v["8"] + v["7"],
     detractors |-> SumOver(v, {"0", "1", "2", "3", "4", "5", "6"})]

-----------------------------------------------------------------------------
VARIABLES
    subject,  \* what this behaviour is about
    lake,     \* how many times each fact was recorded
    nexus,    \* the topics and subtopics of the project in Nexus
    made,     \* those that have ever been created: a uuid is not used again
    faults,
    editor,   \* where each editor is: idle, or clear
    listed,   \* the topics list in redis: {} or a singleton
    redis,    \* what is kept under each key: {} or a singleton
    req       \* of each client, what it asked and how far it is

vars == <<subject, lake, nexus, made, faults, editor, listed, redis, req>>

\* A method at work: its step, the topics it was given, the lake as it was at
\* each of its queries, and what it returns: {} or a singleton.
Task(step) == [step |-> step, list |-> {}, at |-> <<>>, value |-> {}]
Finished(at, value) == [step |-> "done", list |-> {}, at |-> at, value |-> {value}]

Keys == {CacheKey(a) : a \in Asks}

Init ==
    /\ subject \in Subjects
    /\ lake = [f \in subject.facts |-> 0]
    /\ nexus = {}
    /\ made = {}
    /\ faults = 0
    /\ editor = [e \in Editors |-> "idle"]
    /\ listed = {}
    /\ redis = [k \in Keys |-> {}]
    /\ req = [c \in Clients |-> <<>>]

At(c, a, s) == a \in DOMAIN req[c] /\ req[c][a].step = s
Ended(c) == \A a \in DOMAIN req[c] : req[c][a].step \in {"done", "failed"}
Move(c, a, task) == req' = [req EXCEPT ![c][a] = task]
To(c, a, s) == Move(c, a, [req[c][a] EXCEPT !.step = s])
Fault == faults < MaxFaults /\ faults' = faults + 1

-----------------------------------------------------------------------------
(* What goes on outside: recording, and expiry in redis.                   *)

\* An agent's conversation is classified among the topics there have been (which
\* the other subjects leave out).
Record(f) ==
    /\ CountOf(lake, DOMAIN lake) < MaxRecorded
    /\ subject.requests = TopicsRequests => {f.topic, f.subtopic} \subseteq made \cup {None}
    /\ lake' = [lake EXCEPT ![f] = @ + 1]
    /\ UNCHANGED <<subject, nexus, made, faults, editor, listed, redis, req>>

\* Mutant of ExpireList: the list is kept without a lifetime.
ListForEver ==
    /\ listed # {} /\ listed = {}
    /\ UNCHANGED vars

ExpireList ==
    /\ listed # {}
    /\ listed' = {}
    /\ UNCHANGED <<subject, lake, nexus, made, faults, editor, redis, req>>

Expire(k) ==
    /\ redis[k] # {}
    /\ redis' = [redis EXCEPT ![k] = {}]
    /\ UNCHANGED <<subject, lake, nexus, made, faults, editor, listed, req>>

-----------------------------------------------------------------------------
(* Topics are created and deleted: Nexus first, then the list in redis.    *)

EditNexus(e, new, created) ==
    /\ subject.requests = TopicsRequests
    /\ editor[e] = "idle"
    /\ nexus' = new
    /\ made' = made \cup created
    /\ editor' = [editor EXCEPT ![e] = "clear"]
    /\ UNCHANGED <<subject, lake, faults, listed, redis, req>>

CreateTopic(e) ==
    \E t \in Topics \ made : EditNexus(e, nexus \cup {t}, {t})

CreateSubtopic(e) ==
    \E s \in Subtopics \ made :
        TopicOf[s] \in nexus /\ EditNexus(e, nexus \cup {s}, {s})

DeleteTopic(e) ==
    \E t \in nexus \cap Topics :
        EditNexus(e, {u \in nexus \ {t} : u \in Topics \/ TopicOf[u] # t}, {})

DeleteSubtopic(e) ==
    \E s \in nexus \cap Subtopics : EditNexus(e, nexus \ {s}, {})

ClearList(e) ==
    /\ editor[e] = "clear"
    /\ editor' = [editor EXCEPT ![e] = "idle"]
    /\ listed' = {}
    /\ UNCHANGED <<subject, lake, nexus, made, faults, redis, req>>

\* The process dies, or redis fails, in between.
EditorDies(e) ==
    /\ editor[e] = "clear"
    /\ Fault
    /\ editor' = [editor EXCEPT ![e] = "idle"]
    /\ UNCHANGED <<subject, lake, nexus, made, listed, redis, req>>

-----------------------------------------------------------------------------
(* A request.                                                              *)

\* The topics are looked up first; the other methods start with their key.
Start(c, r) ==
    /\ Ended(c)
    /\ req' = [req EXCEPT ![c] =
                  [a \in r |-> Task(IF a.method = "topics_distribution"
                                    THEN "list" ELSE "look")]]
    /\ UNCHANGED <<subject, lake, nexus, made, faults, editor, listed, redis>>

\* get_topics
ReadList(c, a) ==
    /\ At(c, a, "list")
    /\ \/ listed = {} /\ To(c, a, "fetch")
       \/ \E l \in listed : Move(c, a, [req[c][a] EXCEPT !.step = "look", !.list = l])
    /\ UNCHANGED <<subject, lake, nexus, made, faults, editor, listed, redis>>

FetchList(c, a) ==
    /\ At(c, a, "fetch")
    /\ Move(c, a, [req[c][a] EXCEPT !.step = "keep", !.list = nexus])
    /\ UNCHANGED <<subject, lake, nexus, made, faults, editor, listed, redis>>

\* A page after the first fails: the list is what the others gave.
FetchCut(c, a) ==
    /\ At(c, a, "fetch")
    /\ Fault
    /\ \E S \in SUBSET (nexus \cap Topics) \ {{}} :
          Move(c, a, [req[c][a] EXCEPT
              !.step = "keep",
              !.list = S \cup {s \in nexus \cap Subtopics : TopicOf[s] \in S}])
    /\ UNCHANGED <<subject, lake, nexus, made, editor, listed, redis>>

KeepList(c, a) ==
    /\ At(c, a, "keep")
    /\ listed' = {req[c][a].list}
    /\ To(c, a, "look")
    /\ UNCHANGED <<subject, lake, nexus, made, faults, editor, redis>>

\* _get_cached_results
LookUp(c, a) ==
    LET found == {e \in redis[CacheKey(a)] : Truthy(a, e.value)}
    IN /\ At(c, a, "look")
       /\ \/ found = {} /\ To(c, a, "ask")
          \/ \E e \in found : Move(c, a, Finished(e.at, e.value))
       /\ UNCHANGED <<subject, lake, nexus, made, faults, editor, listed, redis>>

\* The data lake answers one of the queries.
Query(c, a, p) ==
    /\ At(c, a, "ask")
    /\ p \notin DOMAIN req[c][a].at
    /\ After(p) \subseteq DOMAIN req[c][a].at
    /\ LET answer == CASE a.method = "unique_contacts_count" -> ContactsWith(lake, 1)
                       [] a.method = "returning_contacts_count" -> ContactsWith(lake, 2)
                       [] OTHER -> lake
       IN Move(c, a, [req[c][a] EXCEPT
              !.at = [q \in DOMAIN @ \cup {p} |-> IF q = p THEN answer ELSE @[q]]])
    /\ UNCHANGED <<subject, lake, nexus, made, faults, editor, listed, redis>>

\* _save_results_to_cache, and the method returns.
Save(c, a) ==
    LET at == req[c][a].at
        value == ValueOf(a, req[c][a].list, at)
    IN /\ At(c, a, "ask")
       /\ DOMAIN at = Parts(a)
       /\ redis' = [redis EXCEPT ![CacheKey(a)] = {[value |-> value, at |-> at]}]
       /\ Move(c, a, Finished(at, value))
       /\ UNCHANGED <<subject, lake, nexus, made, faults, editor, listed>>

\* Nexus or the data lake fails: the method raises, once its threads have ended;
\* the other methods of the request go on.  (The sample of the funnel may fail
\* unnoticed when there are no orders, as if it had been answered.)
Fail(c, a) ==
    /\ At(c, a, "fetch") \/ (At(c, a, "ask") /\ DOMAIN req[c][a].at # Parts(a))
    /\ Fault
    /\ Move(c, a, Task("failed"))
    /\ UNCHANGED <<subject, lake, nexus, made, editor, listed, redis>>

-----------------------------------------------------------------------------
Work(c) ==
    \E a \in DOMAIN req[c] :
        \/ ReadList(c, a) \/ FetchList(c, a) \/ KeepList(c, a)
        \/ LookUp(c, a) \/ (\E p \in Parts(a) : Query(c, a, p)) \/ Save(c, a)

Next ==
    \/ \E f \in subject.facts : Record(f)
    \/ ExpireList
    \/ \E k \in Keys : Expire(k)
    \/ \E e \in Editors :
          \/ CreateTopic(e) \/ CreateSubtopic(e) \/ DeleteTopic(e) \/ DeleteSubtopic(e)
          \/ ClearList(e) \/ EditorDies(e)
    \/ \E c \in Clients :
          \/ \E r \in subject.requests : Start(c, r)
          \/ Work(c)
          \/ \E a \in DOMAIN req[c] : FetchCut(c, a) \/ Fail(c, a)

Spec == Init /\ [][Next]_vars

\* The topics are looked at again and again, requests are worked on, and what is
\* kept of the topics in redis expires.
LiveSpec ==
    /\ Spec
    /\ \A c \in Clients : WF_vars(Work(c))
    /\ \A r \in TopicsRequests : SF_vars(\E c \in Clients : Start(c, r))
    /\ WF_vars(ExpireList)
    /\ \A t \in Types : WF_vars(Expire(CacheKey(TopicsAsk(t))))

-----------------------------------------------------------------------------
(* Properties.                                                             *)

TypeOK ==
    /\ subject \in Subjects
    /\ lake \in [subject.facts -> 0..MaxRecorded]
    /\ nexus \subseteq made /\ made \subseteq Topics \cup Subtopics
    /\ faults \in 0..MaxFaults
    /\ editor \in [Editors -> {"idle", "clear"}]
    /\ Cardinality(listed) <= 1 /\ \A l \in listed : l \subseteq made
    /\ DOMAIN redis = Keys /\ \A k \in Keys : Cardinality(redis[k]) <= 1
    /\ \A c \in Clients : \A a \in DOMAIN req[c] :
          /\ req[c][a].step \in {"list", "fetch", "keep", "look", "ask", "done", "failed"}
          /\ DOMAIN req[c][a].at \subseteq Parts(a)

Value(c, a) == CHOOSE v \in req[c][a].value : TRUE
AskedAt(c, a) == req[c][a].at

\* All queries of the method saw the same lake.
Quiet(at) == \A p, q \in DOMAIN at : at[p] = at[q]

\* A distribution accounts for every conversation of its type there was when the
\* topics were counted, whatever list of topics it was made with: what the list
\* lacks, deleted or on a page that failed, is under OTHER.
EachTopicCounted(v, t, at) ==
    Total([u \in DOMAIN v |-> v[u].count]) = CountOf(at.topics, OfType(t))

\* Inside a topic, subtopics and OTHER make up the topic, and OTHER is not negative.
EachSubtopicCounted(v) ==
    \A u \in DOMAIN v : DOMAIN v[u].subs # {} =>
        /\ \A s \in DOMAIN v[u].subs : v[u].subs[s] >= 0
        /\ Total(v[u].subs) = v[u].count

\* The shares of a distribution make up the whole, topic by topic and inside each
\* topic (TopicsDistributionSerializer, get_topics, CacheKey).  The subtopics do
\* when both queries saw the same lake: a conversation of a subtopic recorded
\* between the two makes OTHER smaller than it is, down to below zero.
TopicsAddUp ==
    \A t \in Types, c \in Clients : At(c, TopicsAsk(t), "done") =>
        LET v == Value(c, TopicsAsk(t))
            at == AskedAt(c, TopicsAsk(t))
        IN EachTopicCounted(v, t, at) /\ (Quiet(at) => EachSubtopicCounted(v))

\* Resolved, unresolved and transferred conversations are each conversation once,
\* when the three threads saw the same lake; from contacts or alone, from redis or not.
TotalsCountOnce ==
    \A c \in Clients :
        At(c, Ask("conversations_totals"), "done")
            /\ Quiet(AskedAt(c, Ask("conversations_totals"))) =>
                Value(c, Ask("conversations_totals")).total
                    = CountOf(AskedAt(c, Ask("conversations_totals")).resolved, Conversations)

\* Orders, their value and their currency go together when the four threads saw
\* the same lake.  (Otherwise an hour may pass with orders of no currency.)
FunnelAgrees ==
    \A c \in Clients :
        At(c, Ask("sales_funnel_data"), "done")
            /\ Quiet(AskedAt(c, Ask("sales_funnel_data"))) =>
                LET v == Value(c, Ask("sales_funnel_data"))
                IN v.currency = (v.orders > 0) /\ (v.value > 0) = (v.orders > 0)

\* What is counted by label for an agent, or a key, is all and only its own, of the
\* labels that have a place, also when it comes from redis.
LabelsAreOwn ==
    \A c \in Clients : \A a \in DOMAIN req[c] : At(c, a, "done") /\ a.method \in LabelMethods =>
        LET v == Value(c, a)
            placed == {f \in subject.facts :
                          /\ \A k \in {"agent", "key"} \cap DOMAIN a : f[k] = a[k]
                          /\ a.method \in ScoreMethods => f.label \in Scores(a.method)}
        IN /\ Total(v) = CountOf(AskedAt(c, a).all, placed)
           /\ \A l \in DOMAIN v : v[l] > 0 => \E f \in placed : f.label = l

\* An absolute number is of the agent and the key it was asked for: it is zero
\* exactly when they had recorded nothing of worth, or, for the lowest amount, when
\* anything they had recorded was of no worth.
AbsolutesAreOwn ==
    \A c \in Clients : \A a \in DOMAIN req[c] :
        At(c, a, "done") /\ a.method \in AbsoluteMethods =>
            LET own == {f \in Custom : /\ f.agent = a.agent /\ f.key = a.key
                                       /\ AskedAt(c, a).all[f] > 0}
                worth == {f \in own : a.method # "event_count" => f.amount > 0}
            IN Truthy(a, Value(c, a)) <=>
                  worth # {} /\ (a.method = "events_lowest_value" => worth = own)

\* Every answer to the NPS question is a promoter's, a passive's or a detractor's.
NpsCountsEach ==
    \A c \in Clients : \A a \in DOMAIN req[c] : At(c, a, "done") /\ a.method = "nps_metrics" =>
        LET n == Nps(Value(c, a))
        IN n.promoters + n.passives + n.detractors
               = CountOf(AskedAt(c, a).all, {f \in Own(a) : f.label \in Scores(a.method)})

\* The parts of an answer agree with each other, though each comes from a query, and
\* a thread, of its own, and an hour may have passed: totals, funnel and scores.
PartsAgree == TotalsCountOnce /\ FunnelAgrees /\ NpsCountsEach

\* No answer, kept or fresh, has anything of another agent or key, or lacks its own.
AnswersAreOwn == LabelsAreOwn /\ AbsolutesAreOwn

\* A topic that stays, and has conversations, is named in the end, although lists
\* and distributions made before it was created are kept, the latter under a key
\* that does not tell the list (get_topics_distribution, services.py:562-569).
Named(u, t) ==
    \E c \in Clients : At(c, TopicsAsk(t), "done") /\ u \in DOMAIN Value(c, TopicsAsk(t))

TopicsAreNamed ==
    \A u \in Topics, t \in Types :
        <>[](/\ subject.requests = TopicsRequests /\ u \in nexus
             /\ CountOf(lake, {f \in OfType(t) : f.topic = u}) > 0) => []<>Named(u, t)
=============================================================================
