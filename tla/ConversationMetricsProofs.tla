---------------------- MODULE ConversationMetricsProofs ----------------------
(***************************************************************************)
(* For every number of clients, editors, topics, conversations and ratings: *)
(* whatever is answered, fresh or from redis, was made of what the data     *)
(* lake told the method of that very request, so that its parts add up and  *)
(* it is of the agent and the key that were asked for.                      *)
(***************************************************************************)
EXTENDS ConversationMetrics, FiniteSumProofs

\* A request, and the facts its subject is about.
IsTopics(a, F) ==
    a.method = "topics_distribution" /\ a = TopicsAsk(a.type) /\ a.type \in Types
        /\ F = Conversations
IsTotals(a, F) ==
    a.method \in ContactMethods \cup {"conversations_totals"} /\ a = Ask(a.method)
        /\ F \subseteq Conversations
IsFunnel(a, F) ==
    a.method = "sales_funnel_data" /\ a = Ask(a.method) /\ F = Conversions
IsScore(a, F, k) ==
    a.method = MethodOf[k] /\ a = AgentAsk(a.method, a.agent) /\ F = Under(k)
IsLabel(a, F, k) ==
    a.method = MethodOf[k] /\ a = Ask(a.method) /\ F = Under(k)
IsCustom(a, F) ==
    a.method \in KeyMethods /\ a = KeyAsk(a.method, a.agent, a.key) /\ F = Custom

Shape(a, F) ==
    \/ IsTopics(a, F) \/ IsTotals(a, F) \/ IsFunnel(a, F)
    \/ IsScore(a, F, "weni_csat") \/ IsScore(a, F, "weni_nps")
    \/ IsLabel(a, F, "agent_invocation") \/ IsLabel(a, F, "tool_result")
    \/ IsCustom(a, F)

Asked(s) == UNION s.requests

LEMMA ShapeOfAsked ==
    ASSUME NEW s \in Subjects, NEW a \in Asked(s)
    PROVE  Shape(a, s.facts)
<1>1. PICK r \in s.requests : a \in r
  BY DEF Asked
<1>2. CASE s = About(TopicsRequests, Conversations)
  <2>1. PICK t \in Types : r = {TopicsAsk(t)}
    BY <1>1, <1>2 DEF About, TopicsRequests
  <2> QED BY <1>1, <1>2, <2>1 DEF About, TopicsAsk, IsTopics, Shape
<1>3. CASE s = About(TotalsRequests, Conversations)
           \/ s = About(TotalsRequests \cup ContactsRequests, InClass("resolved"))
  <2>1. PICK m \in ContactMethods \cup {"conversations_totals"} : a = Ask(m)
    BY <1>1, <1>3 DEF About, TotalsRequests, ContactsRequests, ContactMethods
  <2>2. a.method = m
    BY <2>1 DEF Ask
  <2>3. s.facts \subseteq Conversations
    BY <1>3 DEF About, InClass
  <2> QED BY <2>1, <2>2, <2>3 DEF IsTotals, Shape
<1>4. CASE s = About(FunnelRequests, Conversions)
  BY <1>1, <1>4 DEF About, FunnelRequests, Ask, IsFunnel, Shape
<1>5. ASSUME NEW k \in {"weni_csat", "weni_nps"}, s = About(ScoreRequests(k), Under(k))
      PROVE  Shape(a, s.facts)
  <2>1. PICK f \in Under(k) : r = {AgentAsk(MethodOf[k], f.agent)}
    BY <1>1, <1>5 DEF About, ScoreRequests
  <2>2. a.method = MethodOf[k] /\ a = AgentAsk(a.method, a.agent) /\ s.facts = Under(k)
    BY <1>1, <1>5, <2>1 DEF About, AgentAsk
  <2> QED BY <2>2 DEF IsScore, Shape
<1>6. ASSUME NEW k \in {"agent_invocation", "tool_result"}, s = About(LabelRequests(k), Under(k))
      PROVE  Shape(a, s.facts)
  <2>1. a.method = MethodOf[k] /\ a = Ask(a.method) /\ s.facts = Under(k)
    BY <1>1, <1>6 DEF About, LabelRequests, Ask
  <2> QED BY <2>1 DEF IsLabel, Shape
<1>7. ASSUME NEW m \in KeyMethods, s = About(CustomRequests(m), Custom)
      PROVE  Shape(a, s.facts)
  <2>1. PICK f \in Custom : r = {KeyAsk(m, f.agent, f.key)}
    BY <1>1, <1>7 DEF About, CustomRequests
  <2>2. a.method = m /\ a = KeyAsk(a.method, a.agent, a.key) /\ s.facts = Custom
    BY <1>1, <1>7, <2>1 DEF About, KeyAsk
  <2> QED BY <2>2 DEF IsCustom, Shape
<1> QED BY <1>2, <1>3, <1>4, <1>5, <1>6, <1>7 DEF Subjects

\* The key of redis tells requests from each other.
LEMMA KeyTells ==
    ASSUME NEW a, NEW F, Shape(a, F), NEW b, NEW G, Shape(b, G), CacheKey(a) = CacheKey(b)
    PROVE  a = b
<1> DEFINE Plain == {"conversations_totals", "unique_contacts_count", "returning_contacts_count",
                     "sales_funnel_data", "agent_invocations", "tool_results"}
           Kind(x) == \/ /\ x.method = "topics_distribution" /\ x = TopicsAsk(x.type)
                         /\ CacheKey(x) = <<x.method, x.type>>
                      \/ /\ x.method \in ScoreMethods /\ x = AgentAsk(x.method, x.agent)
                         /\ CacheKey(x) = <<x.method, x.agent>>
                      \/ /\ x.method \in KeyMethods /\ x = KeyAsk(x.method, x.agent, x.key)
                         /\ CacheKey(x) = <<x.method, x.agent, x.key>>
                      \/ /\ x.method \in Plain /\ x = Ask(x.method)
                         /\ CacheKey(x) = <<x.method>>
<1>1. ASSUME NEW x, NEW H, Shape(x, H) PROVE Kind(x)
  <2>1. CASE IsTopics(x, H)
    BY <2>1 DEF IsTopics, CacheKey, ScoreMethods, KeyMethods, AbsoluteMethods
  <2>2. CASE IsTotals(x, H)
    BY <2>2 DEF IsTotals, CacheKey, ContactMethods, ScoreMethods, KeyMethods, AbsoluteMethods
  <2>3. CASE IsFunnel(x, H)
    BY <2>3 DEF IsFunnel, CacheKey, ScoreMethods, KeyMethods, AbsoluteMethods
  <2>4. CASE IsScore(x, H, "weni_csat") \/ IsScore(x, H, "weni_nps")
    <3>1. x.method \in ScoreMethods /\ x = AgentAsk(x.method, x.agent)
      BY <2>4 DEF IsScore, MethodOf, ScoreMethods
    <3>2. x.method # "topics_distribution" /\ x.method \notin KeyMethods
      BY <3>1 DEF ScoreMethods, KeyMethods, AbsoluteMethods
    <3> QED BY <3>1, <3>2 DEF CacheKey
  <2>5. CASE IsLabel(x, H, "agent_invocation") \/ IsLabel(x, H, "tool_result")
    BY <2>5 DEF IsLabel, CacheKey, MethodOf, ScoreMethods, KeyMethods, AbsoluteMethods
  <2>6. CASE IsCustom(x, H)
    <3>1. x.method # "topics_distribution" /\ x.method \notin ScoreMethods
      BY <2>6 DEF IsCustom, ScoreMethods, KeyMethods, AbsoluteMethods
    <3> QED BY <2>6, <3>1 DEF IsCustom, CacheKey
  <2> QED BY <1>1, <2>1, <2>2, <2>3, <2>4, <2>5, <2>6 DEF Shape
<1>2. Kind(a) /\ Kind(b)
  BY <1>1
<1>3. a.method = b.method
  BY <1>2
<1> QED BY <1>2, <1>3 DEF ScoreMethods, KeyMethods, AbsoluteMethods

LEMMA FactsAreFinite == ASSUME NEW s \in Subjects PROVE IsFiniteSet(s.facts)
<1>1. IsFiniteSet(Conversions)
  <2>1. IsFiniteSet({[of |-> "lead"]}) /\ IsFiniteSet({[of |-> "purchase"]})
    BY FS_Singleton
  <2>2. Conversions = {[of |-> "lead"]} \cup {[of |-> "purchase"]}
    BY DEF Conversions
  <2> QED BY <2>1, <2>2, FS_Union
<1>2. IsFiniteSet(Custom) /\ \A k : IsFiniteSet(Under(k))
  <2>1. Custom \subseteq Ratings /\ \A k : Under(k) \subseteq Ratings
    BY DEF Custom, Under
  <2> QED BY <2>1, MetricsAssumption, FS_Subset
<1>3. IsFiniteSet(InClass("resolved"))
  BY MetricsAssumption, FS_Subset DEF InClass
<1>4. s.facts \in {Conversations, InClass("resolved"), Conversions, Custom}
         \/ \E k : s.facts = Under(k)
  BY DEF Subjects, About
<1> QED BY <1>1, <1>2, <1>3, <1>4, MetricsAssumption

-----------------------------------------------------------------------------
(* The inductive invariant: where every reading, and every answer, is from. *)

Steps == {"list", "fetch", "keep", "look", "ask", "done", "failed"}
Lakes(F) == [F -> 0..MaxRecorded]

\* What a query of a request may have been told.
Readings(a, F) == IF a.method \in ContactMethods THEN Nat ELSE Lakes(F)

Reads(a, at, F) == DOMAIN at \subseteq Parts(a) /\ \A p \in DOMAIN at : at[p] \in Readings(a, F)

\* A value is what the method makes of the readings that go with it.
Answer(a, at, v, F) ==
    /\ Reads(a, at, F) /\ DOMAIN at = Parts(a)
    /\ \E list \in SUBSET (Topics \cup Subtopics) : v = ValueOf(a, list, at)

TaskOK(a, t, F, M) ==
    /\ DOMAIN t = {"step", "list", "at", "value"}
    /\ t.step \in Steps /\ t.list \subseteq M
    /\ Reads(a, t.at, F)
    /\ t.step = "done" => \E v : t.value = {v} /\ Answer(a, t.at, v, F)

KeptOK(k, e, s) == \E a \in Asked(s) : k = CacheKey(a) /\ Answer(a, e.at, e.value, s.facts)

SubjectInv == subject \in Subjects /\ lake \in Lakes(subject.facts) /\ faults \in 0..MaxFaults
NexusInv ==
    /\ nexus \subseteq made /\ made \subseteq Topics \cup Subtopics
    /\ editor \in [Editors -> {"idle", "clear"}]
    /\ Cardinality(listed) <= 1 /\ \A l \in listed : l \subseteq made
RedisInv ==
    /\ DOMAIN redis = Keys
    /\ \A k \in Keys : Cardinality(redis[k]) <= 1 /\ \A e \in redis[k] : KeptOK(k, e, subject)
RequestInv ==
    /\ DOMAIN req = Clients
    /\ \A c \in Clients :
          /\ DOMAIN req[c] \subseteq Asked(subject)
          /\ \A a \in DOMAIN req[c] : TaskOK(a, req[c][a], subject.facts, made)

IndInv == SubjectInv /\ NexusInv /\ RedisInv /\ RequestInv

LEMMA NoneOrOne == Cardinality({}) = 0 /\ \A x : Cardinality({x}) = 1
BY FS_EmptySet, FS_Singleton

LEMMA InitIndInv == Init => IndInv
<1> SUFFICES ASSUME Init PROVE IndInv
  OBVIOUS
<1>1. SubjectInv
  BY MetricsAssumption DEF Init, SubjectInv, Lakes
<1>2. NexusInv
  BY NoneOrOne DEF Init, NexusInv
<1>3. RedisInv
  BY NoneOrOne DEF Init, RedisInv
<1>4. RequestInv
  <2>1. DOMAIN <<>> = {}
    OBVIOUS
  <2> QED BY <2>1 DEF Init, RequestInv
<1> QED BY <1>1, <1>2, <1>3, <1>4 DEF IndInv

\* What is not touched stays as it should be.
LEMMA RequestsStay ==
    ASSUME RequestInv, UNCHANGED <<subject, req>>, made \subseteq made'
    PROVE  RequestInv'
<1>1. ASSUME NEW c \in Clients, NEW a \in DOMAIN req[c]
      PROVE  TaskOK(a, req[c][a], subject.facts, made')
  BY <1>1 DEF RequestInv, TaskOK
<1> QED BY <1>1 DEF RequestInv

LEMMA RedisStays == ASSUME RedisInv, UNCHANGED <<subject, redis>> PROVE RedisInv'
BY DEF RedisInv

LEMMA NexusStays == ASSUME NexusInv, UNCHANGED <<nexus, made, editor, listed>> PROVE NexusInv'
BY DEF NexusInv

LEMMA SubjectStays == ASSUME SubjectInv, UNCHANGED <<subject, lake, faults>> PROVE SubjectInv'
BY DEF SubjectInv

LEMMA RecordKeeps == ASSUME IndInv, NEW f \in subject.facts, Record(f) PROVE IndInv'
<1>1. lake \in [subject.facts -> 0..MaxRecorded] /\ DOMAIN lake = subject.facts
  BY DEF IndInv, SubjectInv, Lakes
<1>2. IsFiniteSet(subject.facts) /\ \A x \in subject.facts : lake[x] \in Nat
  BY <1>1, FactsAreFinite, MetricsAssumption DEF IndInv, SubjectInv
<1>3. SumOver(lake, subject.facts) = lake[f] + SumOver(lake, subject.facts \ {f})
  BY <1>2, SumElement
<1>4. SumOver(lake, subject.facts \ {f}) \in Nat
  <2>1. IsFiniteSet(subject.facts \ {f})
    BY <1>2, FS_Subset
  <2> QED BY <1>2, <2>1, SumType
<1>5. CountOf(lake, DOMAIN lake) = SumOver(lake, subject.facts)
  <2>1. DOMAIN lake \cap DOMAIN lake = subject.facts
    BY <1>1
  <2> QED BY <2>1 DEF CountOf
<1>6. lake[f] + 1 \in 0..MaxRecorded
  BY <1>2, <1>3, <1>4, <1>5, MetricsAssumption DEF Record
<1>7. SubjectInv'
  BY <1>1, <1>6 DEF Record, IndInv, SubjectInv, Lakes
<1> QED BY <1>7, NexusStays, RedisStays, RequestsStay DEF Record, IndInv

LEMMA ExpireListKeeps == ASSUME IndInv, ExpireList PROVE IndInv'
<1>1. NexusInv'
  BY NoneOrOne DEF ExpireList, IndInv, NexusInv
<1> QED BY <1>1, SubjectStays, RedisStays, RequestsStay DEF ExpireList, IndInv

LEMMA ExpireKeeps == ASSUME IndInv, NEW k \in Keys, Expire(k) PROVE IndInv'
<1>1. RedisInv'
  BY NoneOrOne DEF Expire, IndInv, RedisInv
<1> QED BY <1>1, SubjectStays, NexusStays, RequestsStay DEF Expire, IndInv

LEMMA EditKeeps ==
    ASSUME IndInv, NEW e \in Editors, NEW new, NEW created \in SUBSET (Topics \cup Subtopics),
           new \subseteq nexus \cup created, EditNexus(e, new, created)
    PROVE  IndInv'
<1>1. NexusInv'
  BY DEF EditNexus, IndInv, NexusInv
<1>2. made \subseteq made'
  BY DEF EditNexus
<1> QED BY <1>1, <1>2, SubjectStays, RedisStays, RequestsStay DEF EditNexus, IndInv

LEMMA EditorKeeps ==
    ASSUME IndInv, NEW e \in Editors,
           \/ CreateTopic(e) \/ CreateSubtopic(e) \/ DeleteTopic(e) \/ DeleteSubtopic(e)
           \/ ClearList(e) \/ EditorDies(e)
    PROVE  IndInv'
<1>1. CASE CreateTopic(e) \/ CreateSubtopic(e)
  <2>1. PICK t \in Topics \cup Subtopics : EditNexus(e, nexus \cup {t}, {t})
    BY <1>1 DEF CreateTopic, CreateSubtopic
  <2> QED BY <2>1, EditKeeps
<1>2. CASE DeleteTopic(e)
  <2>1. PICK t \in nexus \cap Topics :
           EditNexus(e, {u \in nexus \ {t} : u \in Topics \/ TopicOf[u] # t}, {})
    BY <1>2 DEF DeleteTopic
  <2> QED BY <2>1, EditKeeps
<1>3. CASE DeleteSubtopic(e)
  <2>1. PICK s \in nexus \cap Subtopics : EditNexus(e, nexus \ {s}, {})
    BY <1>3 DEF DeleteSubtopic
  <2> QED BY <2>1, EditKeeps
<1>4. CASE ClearList(e)
  <2>1. NexusInv'
    BY <1>4, NoneOrOne DEF ClearList, IndInv, NexusInv
  <2> QED BY <1>4, <2>1, SubjectStays, RedisStays, RequestsStay DEF ClearList, IndInv
<1>5. CASE EditorDies(e)
  <2>1. NexusInv'
    BY <1>5 DEF EditorDies, IndInv, NexusInv
  <2>2. SubjectInv'
    BY <1>5, MetricsAssumption DEF EditorDies, Fault, IndInv, SubjectInv
  <2> QED BY <1>5, <2>1, <2>2, RedisStays, RequestsStay DEF EditorDies, IndInv
<1> QED BY <1>1, <1>2, <1>3, <1>4, <1>5

\* A request whose task is replaced by one that is as it should be.
LEMMA MoveKeeps ==
    ASSUME RequestInv, NEW c \in Clients, NEW a \in DOMAIN req[c], NEW t,
           TaskOK(a, t, subject.facts, made), Move(c, a, t), UNCHANGED <<subject, made>>
    PROVE  RequestInv'
<1>1. DOMAIN req' = Clients /\ DOMAIN req'[c] = DOMAIN req[c] /\ req'[c][a] = t
  BY DEF RequestInv, Move
<1>2. \A b \in DOMAIN req[c] : b # a => req'[c][b] = req[c][b]
  BY DEF RequestInv, Move
<1>3. \A d \in Clients : d # c => req'[d] = req[d]
  BY DEF RequestInv, Move
<1>4. ASSUME NEW d \in Clients
      PROVE  /\ DOMAIN req'[d] \subseteq Asked(subject)
             /\ \A b \in DOMAIN req'[d] : TaskOK(b, req'[d][b], subject.facts, made)
  <2>1. CASE d = c
    BY <1>1, <1>2, <2>1 DEF RequestInv
  <2>2. CASE d # c
    BY <1>3, <2>2 DEF RequestInv
  <2> QED BY <2>1, <2>2
<1> QED BY <1>1, <1>4 DEF RequestInv

\* The next step of a task, of which the readings and the value stay.
LEMMA StepKeeps ==
    ASSUME RequestInv, NEW c \in Clients, NEW a \in DOMAIN req[c],
           NEW s \in Steps \ {"done"}, NEW l \in SUBSET made, NEW t,
           t = [req[c][a] EXCEPT !.step = s, !.list = l] \/
               (t = [req[c][a] EXCEPT !.step = s] /\ l = req[c][a].list),
           Move(c, a, t), UNCHANGED <<subject, made>>
    PROVE  RequestInv'
<1>1. TaskOK(a, req[c][a], subject.facts, made)
  BY DEF RequestInv
<1>2. /\ DOMAIN t = {"step", "list", "at", "value"}
      /\ t.step = s /\ t.list = l /\ t.at = req[c][a].at
  BY <1>1 DEF TaskOK
<1>3. TaskOK(a, t, subject.facts, made)
  BY <1>1, <1>2 DEF TaskOK
<1> QED BY <1>3, MoveKeeps

LEMMA NewTask ==
    ASSUME NEW s \in Steps \ {"done"}, NEW a, NEW F, NEW M
    PROVE  TaskOK(a, Task(s), F, M)
<1>1. DOMAIN <<>> = {}
  OBVIOUS
<1> QED BY <1>1 DEF TaskOK, Task, Reads

LEMMA StartKeeps ==
    ASSUME IndInv, NEW c \in Clients, NEW r \in subject.requests, Start(c, r)
    PROVE  IndInv'
<1>1. PICK tasks : /\ req' = [req EXCEPT ![c] = tasks]
                   /\ tasks = [a \in r |-> Task(IF a.method = "topics_distribution"
                                                THEN "list" ELSE "look")]
  BY DEF Start
<1>2. DOMAIN tasks = r /\ r \subseteq Asked(subject)
  BY <1>1 DEF Asked
<1>3. ASSUME NEW a \in r PROVE TaskOK(a, tasks[a], subject.facts, made)
  <2>1. PICK s \in {"list", "look"} : tasks[a] = Task(s)
    BY <1>1, <1>3
  <2> QED BY <2>1, NewTask DEF Steps
<1>4. DOMAIN req' = Clients /\ req'[c] = tasks /\ \A d \in Clients : d # c => req'[d] = req[d]
  BY <1>1 DEF IndInv, RequestInv
<1>5. RequestInv'
  <2>1. ASSUME NEW d \in Clients
        PROVE  /\ DOMAIN req'[d] \subseteq Asked(subject)
               /\ \A b \in DOMAIN req'[d] : TaskOK(b, req'[d][b], subject.facts, made)
    <3>1. CASE d = c
      BY <1>2, <1>3, <1>4, <3>1
    <3>2. CASE d # c
      BY <1>4, <3>2 DEF IndInv, RequestInv
    <3> QED BY <3>1, <3>2
  <2> QED BY <1>4, <2>1 DEF Start, RequestInv
<1> QED BY <1>5, SubjectStays, NexusStays, RedisStays DEF Start, IndInv

LEMMA ListsKeep ==
    ASSUME IndInv, NEW c \in Clients, NEW a \in DOMAIN req[c],
           ReadList(c, a) \/ FetchList(c, a) \/ KeepList(c, a) \/ FetchCut(c, a)
    PROVE  IndInv'
<1>1. req[c][a].list \subseteq made /\ nexus \subseteq made /\ \A l \in listed : l \subseteq made
  BY DEF IndInv, RequestInv, TaskOK, NexusInv
<1>2. CASE ReadList(c, a)
  <2>1. CASE To(c, a, "fetch")
    <3>1. PICK t : t = [req[c][a] EXCEPT !.step = "fetch"] /\ Move(c, a, t)
      BY <2>1 DEF To
    <3>2. RequestInv'
      BY <1>1, <1>2, <3>1, StepKeeps DEF ReadList, IndInv, Steps
    <3> QED BY <1>2, <3>2, SubjectStays, NexusStays, RedisStays DEF ReadList, IndInv
  <2>2. CASE \E l \in listed : Move(c, a, [req[c][a] EXCEPT !.step = "look", !.list = l])
    <3>1. PICK l, t : /\ l \in listed /\ Move(c, a, t)
                      /\ t = [req[c][a] EXCEPT !.step = "look", !.list = l]
      BY <2>2
    <3>2. RequestInv'
      BY <1>1, <1>2, <3>1, StepKeeps DEF ReadList, IndInv, Steps
    <3> QED BY <1>2, <3>2, SubjectStays, NexusStays, RedisStays DEF ReadList, IndInv
  <2> QED BY <1>2, <2>1, <2>2 DEF ReadList
<1>3. CASE FetchList(c, a)
  <2>1. PICK t : t = [req[c][a] EXCEPT !.step = "keep", !.list = nexus] /\ Move(c, a, t)
    BY <1>3 DEF FetchList
  <2>2. RequestInv'
    BY <1>1, <1>3, <2>1, StepKeeps DEF FetchList, IndInv, Steps
  <2> QED BY <1>3, <2>2, SubjectStays, NexusStays, RedisStays DEF FetchList, IndInv
<1>4. CASE KeepList(c, a)
  <2>1. PICK t : t = [req[c][a] EXCEPT !.step = "look"] /\ Move(c, a, t)
    BY <1>4 DEF KeepList, To
  <2>2. RequestInv'
    BY <1>1, <1>4, <2>1, StepKeeps DEF KeepList, IndInv, Steps
  <2>3. NexusInv'
    <3>1. PICK l : l = req[c][a].list
      OBVIOUS
    <3>2. listed' = {l} /\ l \subseteq made /\ UNCHANGED <<nexus, made, editor>>
      BY <1>1, <1>4, <3>1 DEF KeepList
    <3>3. Cardinality({l}) <= 1
      BY NoneOrOne
    <3> QED BY <3>2, <3>3 DEF IndInv, NexusInv
  <2> QED BY <1>4, <2>2, <2>3, SubjectStays, RedisStays DEF KeepList, IndInv
<1>5. CASE FetchCut(c, a)
  <2>1. PICK S, l, t :
           /\ S \in SUBSET (nexus \cap Topics) \ {{}}
           /\ l = S \cup {s \in nexus \cap Subtopics : TopicOf[s] \in S}
           /\ t = [req[c][a] EXCEPT !.step = "keep", !.list = l]
           /\ Move(c, a, t)
    BY <1>5 DEF FetchCut
  <2>2. l \subseteq made
    BY <1>1, <2>1
  <2>3. RequestInv'
    BY <1>5, <2>1, <2>2, StepKeeps DEF FetchCut, IndInv, Steps
  <2>4. SubjectInv'
    <3>1. faults < MaxFaults /\ faults' = faults + 1 /\ UNCHANGED <<subject, lake>>
      BY <1>5 DEF FetchCut, Fault
    <3> QED BY <3>1, MetricsAssumption DEF IndInv, SubjectInv
  <2> QED BY <1>5, <2>3, <2>4, NexusStays, RedisStays DEF FetchCut, IndInv
<1> QED BY <1>2, <1>3, <1>4, <1>5

LEMMA FailKeeps ==
    ASSUME IndInv, NEW c \in Clients, NEW a \in DOMAIN req[c], Fail(c, a)
    PROVE  IndInv'
<1>1. TaskOK(a, Task("failed"), subject.facts, made)
  BY NewTask DEF Steps
<1>2. PICK t : t = Task("failed") /\ Move(c, a, t)
  BY DEF Fail
<1>3. RequestInv'
  BY <1>1, <1>2, MoveKeeps DEF Fail, IndInv
<1>4. SubjectInv'
  BY MetricsAssumption DEF Fail, Fault, IndInv, SubjectInv
<1> QED BY <1>3, <1>4, NexusStays, RedisStays DEF Fail, IndInv

\* An answer of redis is an answer to the request that finds it.
LEMMA LookUpKeeps ==
    ASSUME IndInv, NEW c \in Clients, NEW a \in DOMAIN req[c], LookUp(c, a)
    PROVE  IndInv'
<1>1. a \in Asked(subject) /\ subject \in Subjects
  BY DEF IndInv, RequestInv, SubjectInv
<1>2. CASE To(c, a, "ask")
  <2>1. PICK t : t = [req[c][a] EXCEPT !.step = "ask"] /\ Move(c, a, t)
    BY <1>2 DEF To
  <2>2. req[c][a].list \subseteq made
    BY DEF IndInv, RequestInv, TaskOK
  <2>3. RequestInv'
    BY <2>1, <2>2, StepKeeps DEF LookUp, IndInv, Steps
  <2> QED BY <2>3, SubjectStays, NexusStays, RedisStays DEF LookUp, IndInv
<1>3. ASSUME NEW e \in redis[CacheKey(a)], Move(c, a, Finished(e.at, e.value))
      PROVE  IndInv'
  <2>1. CacheKey(a) \in Keys
    BY <1>1 DEF Keys, Asks, Asked
  <2>2. PICK b \in Asked(subject) :
           CacheKey(a) = CacheKey(b) /\ Answer(b, e.at, e.value, subject.facts)
    BY <2>1, <1>3 DEF IndInv, RedisInv, KeptOK
  <2>3. a = b
    BY <1>1, <2>2, ShapeOfAsked, KeyTells
  <2>4. PICK t : t = Finished(e.at, e.value)
    OBVIOUS
  <2>5. TaskOK(a, t, subject.facts, made)
    BY <2>2, <2>3, <2>4 DEF TaskOK, Finished, Steps, Answer
  <2>6. RequestInv'
    BY <1>3, <2>4, <2>5, MoveKeeps DEF LookUp, IndInv
  <2> QED BY <2>6, SubjectStays, NexusStays, RedisStays DEF LookUp, IndInv
<1> QED BY <1>2, <1>3 DEF LookUp

LEMMA ContactsCounted == ASSUME NEW L, NEW n PROVE ContactsWith(L, n) \in Nat
<1> DEFINE all == {f.contact : f \in Conversations}
           of(p) == {f \in Conversations : f.contact = p}
           enough == {p \in all : CountOf(L, of(p)) >= n}
<1>1. IsFiniteSet(all)
  <2>1. PICK contact : contact = [f \in Conversations |-> f.contact]
    OBVIOUS
  <2>2. IsFiniteSet({contact[f] : f \in Conversations})
    BY MetricsAssumption, FiniteImage
  <2>3. all = {contact[f] : f \in Conversations}
    BY <2>1
  <2> QED BY <2>2, <2>3
<1>2. Cardinality(enough) \in Nat
  BY <1>1, CardLess
<1>3. ContactsWith(L, n) = Cardinality(enough)
  BY DEF ContactsWith
<1> QED BY <1>2, <1>3

LEMMA QueryKeeps ==
    ASSUME IndInv, NEW c \in Clients, NEW a \in DOMAIN req[c], NEW p \in Parts(a), Query(c, a, p)
    PROVE  IndInv'
<1>1. PICK task : task = req[c][a]
  OBVIOUS
<1>2. TaskOK(a, task, subject.facts, made) /\ task.step = "ask"
  BY <1>1 DEF IndInv, RequestInv, Query, At
<1>3. PICK answer, t :
         /\ t = [task EXCEPT !.at = [q \in DOMAIN @ \cup {p} |-> IF q = p THEN answer ELSE @[q]]]
         /\ Move(c, a, t)
         /\ answer = CASE a.method = "unique_contacts_count" -> ContactsWith(lake, 1)
                       [] a.method = "returning_contacts_count" -> ContactsWith(lake, 2)
                       [] OTHER -> lake
  BY <1>1 DEF Query
<1>4. answer \in Readings(a, subject.facts)
  <2>1. lake \in Lakes(subject.facts)
    BY DEF IndInv, SubjectInv
  <2> QED BY <1>3, <2>1, ContactsCounted DEF Readings, ContactMethods
<1>5. /\ DOMAIN t = {"step", "list", "at", "value"} /\ t.step = "ask" /\ t.list = task.list
      /\ t.at = [q \in DOMAIN task.at \cup {p} |-> IF q = p THEN answer ELSE task.at[q]]
  BY <1>2, <1>3 DEF TaskOK
<1>6. Reads(a, t.at, subject.facts)
  BY <1>2, <1>4, <1>5 DEF TaskOK, Reads
<1>7. TaskOK(a, t, subject.facts, made)
  BY <1>2, <1>5, <1>6 DEF TaskOK, Steps
<1>8. UNCHANGED <<subject, lake, nexus, made, faults, editor, listed, redis>>
  BY DEF Query
<1>9. RequestInv'
  BY <1>3, <1>7, <1>8, MoveKeeps DEF IndInv
<1> QED BY <1>8, <1>9, SubjectStays, NexusStays, RedisStays DEF IndInv

LEMMA SaveKeeps ==
    ASSUME IndInv, NEW c \in Clients, NEW a \in DOMAIN req[c], Save(c, a)
    PROVE  IndInv'
<1>1. PICK at, list, value, e, t :
         /\ at = req[c][a].at /\ list = req[c][a].list /\ value = ValueOf(a, list, at)
         /\ e = [value |-> value, at |-> at] /\ t = Finished(at, value)
         /\ DOMAIN at = Parts(a) /\ Move(c, a, t)
         /\ redis' = [redis EXCEPT ![CacheKey(a)] = {e}]
  BY DEF Save
<1>2. UNCHANGED <<subject, lake, nexus, made, faults, editor, listed>>
  BY DEF Save
<1>3. a \in Asked(subject) /\ TaskOK(a, req[c][a], subject.facts, made)
      /\ made \subseteq Topics \cup Subtopics
  BY DEF IndInv, RequestInv, NexusInv
<1>4. Answer(a, at, value, subject.facts)
  BY <1>1, <1>3 DEF TaskOK, Answer
<1>5. TaskOK(a, t, subject.facts, made)
  BY <1>1, <1>4 DEF TaskOK, Finished, Steps, Answer
<1>6. RequestInv'
  BY <1>1, <1>2, <1>5, MoveKeeps DEF IndInv
<1>7. KeptOK(CacheKey(a), e, subject)
  BY <1>1, <1>3, <1>4 DEF KeptOK
<1>8. RedisInv'
  <2>1. Cardinality({e}) = 1
    BY FS_Singleton
  <2>2. PICK kept : kept = {e}
    OBVIOUS
  <2>3. redis' = [redis EXCEPT ![CacheKey(a)] = kept] /\ Cardinality(kept) <= 1
    BY <1>1, <2>1, <2>2
  <2>4. \A d \in kept : KeptOK(CacheKey(a), d, subject)
    BY <1>7, <2>2
  <2> HIDE <2>2
  <2>5. DOMAIN redis' = Keys
    BY <2>3 DEF IndInv, RedisInv
  <2>6. ASSUME NEW k \in Keys
        PROVE  Cardinality(redis'[k]) <= 1 /\ \A d \in redis'[k] : KeptOK(k, d, subject)
    BY <2>3, <2>4 DEF IndInv, RedisInv
  <2> QED BY <1>2, <2>5, <2>6 DEF RedisInv
<1> QED BY <1>2, <1>6, <1>8, SubjectStays, NexusStays DEF IndInv

THEOREM Invariance == Spec => []IndInv
<1>1. IndInv /\ UNCHANGED vars => IndInv'
  BY SubjectStays, NexusStays, RedisStays, RequestsStay DEF vars, IndInv
<1>2. ASSUME IndInv, NEW c \in Clients, Work(c) PROVE IndInv'
  BY <1>2, ListsKeep, LookUpKeeps, QueryKeeps, SaveKeeps DEF Work
<1>3. ASSUME IndInv, Next PROVE IndInv'
  <2>1. ASSUME NEW c \in Clients, \E r \in subject.requests : Start(c, r) PROVE IndInv'
    BY <1>3, <2>1, StartKeeps
  <2>2. ASSUME NEW c \in Clients, \E a \in DOMAIN req[c] : FetchCut(c, a) \/ Fail(c, a) PROVE IndInv'
    BY <1>3, <2>2, ListsKeep, FailKeeps
  <2> QED BY <1>2, <1>3, <2>1, <2>2, RecordKeeps, ExpireListKeeps, ExpireKeeps, EditorKeeps DEF Next
<1>4. IndInv /\ [Next]_vars => IndInv'
  BY <1>1, <1>3
<1> QED BY <1>4, InitIndInv, PTL DEF Spec

\* The types of the state.
THEOREM TypeCorrect == Spec => []TypeOK
<1>1. IndInv => TypeOK
  <2> SUFFICES ASSUME IndInv PROVE TypeOK
    OBVIOUS
  <2>1. \A c \in Clients : \A a \in DOMAIN req[c] :
           req[c][a].step \in Steps /\ DOMAIN req[c][a].at \subseteq Parts(a)
    BY DEF IndInv, RequestInv, TaskOK, Reads
  <2> QED BY <2>1 DEF IndInv, SubjectInv, NexusInv, RedisInv, Lakes, Steps, TypeOK
<1> QED BY <1>1, Invariance, PTL

-----------------------------------------------------------------------------
(* The operators: what is made of the readings.                            *)

LEMMA FinishedValue ==
    ASSUME IndInv, NEW c \in Clients, NEW a, At(c, a, "done")
    PROVE  /\ Shape(a, subject.facts)
           /\ Answer(a, AskedAt(c, a), Value(c, a), subject.facts)
<1>1. a \in DOMAIN req[c] /\ req[c][a].step = "done"
  BY DEF At
<1>2. TaskOK(a, req[c][a], subject.facts, made) /\ a \in Asked(subject) /\ subject \in Subjects
  BY <1>1 DEF IndInv, RequestInv, SubjectInv
<1>3. PICK v : req[c][a].value = {v} /\ Answer(a, req[c][a].at, v, subject.facts)
  BY <1>1, <1>2 DEF TaskOK
<1>4. Value(c, a) = v
  BY <1>3 DEF Value
<1> QED BY <1>2, <1>3, <1>4, ShapeOfAsked DEF AskedAt

\* A count, with a lake that counts what is known.
LEMMA CountOfType ==
    ASSUME NEW F, IsFiniteSet(F), NEW L \in [F -> 0..MaxRecorded], NEW S
    PROVE  /\ IsFiniteSet(S \cap F) /\ DOMAIN L = F /\ \A x \in F : L[x] \in Nat
           /\ CountOf(L, S) = SumOver(L, S \cap F) /\ CountOf(L, S) \in Nat
<1>1. IsFiniteSet(S \cap F)
  BY FS_Subset
<1>2. DOMAIN L = F /\ \A x \in F : L[x] \in Nat
  BY MetricsAssumption
<1>3. SumOver(L, S \cap F) \in Nat
  BY <1>1, <1>2, SumType
<1> QED BY <1>1, <1>2, <1>3 DEF CountOf

\* The conversations counted by what they are said to be of.
LEMMA CountByPart ==
    ASSUME NEW F, IsFiniteSet(F), NEW L \in [F -> 0..MaxRecorded], NEW S,
           NEW Q, IsFiniteSet(Q), NEW place, \A x \in S \cap F : place[x] \in Q,
           NEW part, \A q \in Q : \A x \in F : x \in part[q] <=> x \in S /\ place[x] = q,
           NEW sums, \A q \in Q : sums[q] = CountOf(L, part[q])
    PROVE  SumOver(sums, Q) = CountOf(L, S)
<1>1. IsFiniteSet(S \cap F) /\ (\A x \in F : L[x] \in Nat) /\ CountOf(L, S) = SumOver(L, S \cap F)
  BY CountOfType
<1>2. PICK T : T = S \cap F
  OBVIOUS
<1>3. PICK own : own = [q \in Q |-> part[q] \cap F]
  OBVIOUS
<1>4. ASSUME NEW q \in Q
      PROVE  /\ sums[q] = SumOver(L, own[q])
             /\ own[q] \subseteq T /\ \A x \in T : x \in own[q] <=> place[x] = q
  <2>1. CountOf(L, part[q]) = SumOver(L, part[q] \cap F)
    BY CountOfType
  <2> QED BY <1>2, <1>3, <2>1
<1>5. /\ IsFiniteSet(T) /\ (\A x \in T : L[x] \in Nat) /\ IsFiniteSet(Q)
      /\ (\A x \in T : place[x] \in Q)
      /\ (\A q \in Q : own[q] \subseteq T /\ \A x \in T : x \in own[q] <=> place[x] = q)
      /\ (\A q \in Q : sums[q] = SumOver(L, own[q])) /\ CountOf(L, S) = SumOver(L, T)
  BY <1>1, <1>2, <1>4
<1>6. SumOver(sums, Q) = SumOver(L, T)
  BY ONLY <1>5, SumByParts
<1> QED BY <1>5, <1>6

LEMMA CountMore ==
    ASSUME NEW F, IsFiniteSet(F), NEW L \in [F -> 0..MaxRecorded], NEW S, NEW R, S \cap F \subseteq R
    PROVE  CountOf(L, S) <= CountOf(L, R)
<1>1. /\ IsFiniteSet(R \cap F) /\ \A x \in F : L[x] \in Nat
      /\ CountOf(L, S) = SumOver(L, S \cap F) /\ CountOf(L, R) = SumOver(L, R \cap F)
  BY CountOfType
<1>2. SumOver(L, S \cap F) <= SumOver(L, R \cap F)
  BY <1>1, SumMore
<1> QED BY <1>1, <1>2

LEMMA CountPositive ==
    ASSUME NEW F, IsFiniteSet(F), NEW L \in [F -> 0..MaxRecorded], NEW S
    PROVE  CountOf(L, S) > 0 <=> \E x \in S \cap F : L[x] > 0
<1>1. IsFiniteSet(S \cap F) /\ (\A x \in F : L[x] \in Nat) /\ CountOf(L, S) = SumOver(L, S \cap F)
  BY CountOfType
<1>2. SumOver(L, S \cap F) > 0 <=> \E x \in S \cap F : L[x] > 0
  BY <1>1, SumPositive
<1> QED BY <1>1, <1>2

\* Every conversation is under its topic if it is listed, and under OTHER if not.
LEMMA TopicsCounted ==
    ASSUME NEW t, NEW list \in SUBSET (Topics \cup Subtopics),
           NEW L \in Lakes(Conversations), NEW M, NEW v, v = Distribution(t, list, L, M)
    PROVE  Total([u \in DOMAIN v |-> v[u].count]) = CountOf(L, OfType(t))
<1> DEFINE known == list \cap Topics
           all == known \cup {None}
           inTopic(u) == CountOf(L, {f \in OfType(t) : f.topic = u})
           other == CountOf(L, {f \in OfType(t) : f.topic \notin known})
           topic == [f \in Conversations |-> IF f.topic \in known THEN f.topic ELSE None]
           h == [u \in all |-> IF u = None THEN other ELSE inTopic(u)]
<1>1. IsFiniteSet(known) /\ IsFiniteSet(all) /\ None \notin known
  <2>1. IsFiniteSet(known) /\ IsFiniteSet({None})
    BY MetricsAssumption, FS_Subset, FS_Singleton
  <2> QED BY <2>1, FS_Union, MetricsAssumption
<1>2. L \in [Conversations -> 0..MaxRecorded] /\ IsFiniteSet(Conversations)
  BY MetricsAssumption DEF Lakes
<1>3. other \in Nat /\ \A u : inTopic(u) \in Nat
  BY <1>2, CountOfType
<1>4. PICK part : part = [u \in all |-> IF u = None THEN {f \in OfType(t) : f.topic \notin known}
                                       ELSE {f \in OfType(t) : f.topic = u}]
  OBVIOUS
<1>5. /\ \A u \in all : h[u] = CountOf(L, part[u])
      /\ \A u \in all : \A f \in Conversations : f \in part[u] <=> f \in OfType(t) /\ topic[f] = u
      /\ \A f \in OfType(t) \cap Conversations : topic[f] \in all
  BY <1>1, <1>4
<1>6. SumOver(h, all) = CountOf(L, OfType(t))
  <2> HIDE DEF h, topic, all
  <2> QED BY <1>1, <1>2, <1>5, CountByPart
<1>7. DOMAIN v = {u \in known : inTopic(u) > 0} \cup (IF other > 0 THEN {None} ELSE {})
  BY DEF Distribution
<1>8. \A u \in DOMAIN v : v[u].count = IF u = None THEN other ELSE inTopic(u)
  BY <1>1, <1>7 DEF Distribution
<1> HIDE DEF inTopic, other, known
<1>9. DOMAIN v \subseteq all /\ (\A u \in all \ DOMAIN v : h[u] = 0) /\ \A u \in all : h[u] \in Nat
  BY <1>3, <1>7
<1>10. PICK shares : shares = [u \in DOMAIN v |-> v[u].count]
  OBVIOUS
<1>11. \A u \in DOMAIN v : shares[u] = h[u]
  BY <1>8, <1>9, <1>10
<1> HIDE DEF h, all
<1>12. SumOver(h, all) = SumOver(h, DOMAIN v)
  <2>1. IsFiniteSet(DOMAIN v) /\ IsFiniteSet(all \ DOMAIN v)
    BY <1>1, <1>9, FS_Subset
  <2>2. all = DOMAIN v \cup (all \ DOMAIN v)
    BY <1>9
  <2>3. SumOver(h, DOMAIN v \cup (all \ DOMAIN v)) = SumOver(h, DOMAIN v) + SumOver(h, all \ DOMAIN v)
    BY <1>9, <2>1, SumUnion
  <2>4. SumOver(h, all \ DOMAIN v) = 0
    BY <1>9, <2>1, SumZero
  <2>5. SumOver(h, DOMAIN v) \in Nat
    BY <1>9, <2>1, SumType
  <2> QED BY <2>2, <2>3, <2>4, <2>5
<1>13. SumOver(shares, DOMAIN v) = SumOver(h, DOMAIN v)
  BY <1>1, <1>9, <1>11, FS_Subset, SumEqual
<1>14. DOMAIN shares = DOMAIN v
  BY <1>10
<1> QED BY <1>6, <1>10, <1>12, <1>13, <1>14 DEF Total

\* A conversation of a subtopic is of its topic, so the subtopics of a topic take no
\* more than there is, and OTHER is what they leave.
LEMMA SubtopicsCounted ==
    ASSUME NEW t, NEW list \in SUBSET (Topics \cup Subtopics),
           NEW L \in Lakes(Conversations), NEW v, v = Distribution(t, list, L, L)
    PROVE  EachSubtopicCounted(v)
<1> SUFFICES ASSUME NEW u \in DOMAIN v, DOMAIN v[u].subs # {}
             PROVE  /\ \A s \in DOMAIN v[u].subs : v[u].subs[s] >= 0
                    /\ Total(v[u].subs) = v[u].count
  BY DEF EachSubtopicCounted
<1> DEFINE known == list \cap Topics
           D == {s \in list \cap Subtopics : TopicOf[s] = u}
           inTopic == CountOf(L, {f \in OfType(t) : f.topic = u})
           inSub(s) == CountOf(L, {f \in OfType(t) : f.subtopic = s})
           sums == [s \in D |-> inSub(s)]
           rest == inTopic - Total(sums)
           below == {f \in OfType(t) : f.subtopic \in D}
           subtopic == [f \in Conversations |-> f.subtopic]
<1>1. DOMAIN <<>> = {}
  OBVIOUS
<1>2. DOMAIN v \subseteq known \cup {None}
  BY DEF Distribution
<1>3. u # None
  <2> SUFFICES ASSUME u = None PROVE FALSE
    OBVIOUS
  <2>1. v[u].subs = <<>>
    BY DEF Distribution
  <2> QED BY <1>1, <2>1
<1>4. /\ v[u].count = inTopic
      /\ v[u].subs = IF D = {} THEN <<>>
                     ELSE [s \in D \cup {None} |-> IF s = None THEN rest ELSE inSub(s)]
  BY <1>3 DEF Distribution
<1>5. PICK subs : subs = v[u].subs
  OBVIOUS
<1>6. subs = [s \in D \cup {None} |-> IF s = None THEN rest ELSE inSub(s)]
  BY <1>1, <1>4, <1>5
<1>7. IsFiniteSet(D) /\ None \notin D
  BY MetricsAssumption, FS_Subset
<1>8. L \in [Conversations -> 0..MaxRecorded] /\ IsFiniteSet(Conversations)
  BY MetricsAssumption DEF Lakes
<1>9. inTopic \in Nat /\ \A s : inSub(s) \in Nat
  BY <1>8, CountOfType
<1>10. DOMAIN sums = D /\ \A s \in D : sums[s] \in Nat /\ sums[s] = subs[s]
  BY <1>6, <1>7, <1>9
<1>11. SumOver(sums, D) = CountOf(L, below)
  <2>1. PICK part : part = [s \in D |-> {f \in OfType(t) : f.subtopic = s}]
    OBVIOUS
  <2>2. /\ \A s \in D : sums[s] = CountOf(L, part[s])
        /\ \A s \in D : \A f \in Conversations : f \in part[s] <=> f \in below /\ subtopic[f] = s
        /\ \A f \in below \cap Conversations : subtopic[f] \in D
    BY <2>1
  <2> HIDE DEF sums, D, subtopic, below
  <2> QED BY <1>7, <1>8, <2>2, CountByPart
<1>12. CountOf(L, below) <= inTopic
  <2>1. PICK R : R = {f \in OfType(t) : f.topic = u}
    OBVIOUS
  <2>2. below \cap Conversations \subseteq R
    BY <1>7, <2>1, MetricsAssumption
  <2>3. CountOf(L, below) <= CountOf(L, R)
    <3> HIDE DEF below
    <3> QED BY <1>8, <2>2, CountMore
  <2> QED BY <2>1, <2>3
<1>13. CountOf(L, below) \in Nat
  BY <1>8, CountOfType
<1>14. rest \in Nat /\ rest = inTopic - SumOver(sums, D)
  BY <1>9, <1>10, <1>11, <1>12, <1>13 DEF Total
<1>15. DOMAIN subs = D \cup {None} /\ subs[None] = rest
  BY <1>6
<1> HIDE DEF inTopic, inSub, sums, D, rest, below
<1>16. \A s \in D \cup {None} : subs[s] \in Nat
  BY <1>10, <1>14, <1>15
<1>17. SumOver(subs, D) = SumOver(sums, D)
  BY <1>7, <1>10, SumEqual
<1>18. SumOver(subs, D \cup {None}) = subs[None] + SumOver(subs, D)
  <2>1. IsFiniteSet({None}) /\ IsFiniteSet(D \cup {None})
    BY <1>7, FS_Singleton, FS_Union
  <2>2. (D \cup {None}) \ {None} = D
    BY <1>7
  <2> QED BY <1>16, <2>1, <2>2, SumElement
<1>19. Total(subs) = inTopic
  BY <1>9, <1>11, <1>13, <1>14, <1>15, <1>17, <1>18 DEF Total
<1>20. \A s \in DOMAIN subs : subs[s] >= 0
  BY <1>15, <1>16
<1>21. v[u].count = inTopic
  BY <1>4
<1> QED BY <1>5, <1>19, <1>20, <1>21

\* The shares make up the whole.
THEOREM SharesAddUp == Spec => []TopicsAddUp
<1>1. ASSUME IndInv, NEW t \in Types, NEW c \in Clients, At(c, TopicsAsk(t), "done")
      PROVE  /\ EachTopicCounted(Value(c, TopicsAsk(t)), t, AskedAt(c, TopicsAsk(t)))
             /\ Quiet(AskedAt(c, TopicsAsk(t))) => EachSubtopicCounted(Value(c, TopicsAsk(t)))
  <2>1. PICK a, at, v : a = TopicsAsk(t) /\ at = AskedAt(c, a) /\ v = Value(c, a)
    OBVIOUS
  <2>2. a.method = "topics_distribution" /\ a.type = t
    BY <2>1 DEF TopicsAsk
  <2>3. Shape(a, subject.facts) /\ Answer(a, at, v, subject.facts)
    BY <1>1, <2>1, FinishedValue
  <2>4. subject.facts = Conversations
    BY <2>2, <2>3 DEF Shape, IsTopics, IsTotals, IsFunnel, IsScore, IsLabel, IsCustom,
         ContactMethods, KeyMethods, AbsoluteMethods, MethodOf
  <2>5. DOMAIN at = {"topics", "subtopics"} /\ \A p \in DOMAIN at : at[p] \in Lakes(Conversations)
    BY <2>2, <2>3, <2>4 DEF Answer, Reads, Readings, Parts, ContactMethods
  <2>6. PICK list \in SUBSET (Topics \cup Subtopics) :
           v = Distribution(t, list, at["topics"], at["subtopics"])
    <3>1. PICK list \in SUBSET (Topics \cup Subtopics) : v = ValueOf(a, list, at)
      BY <2>3 DEF Answer
    <3>2. ValueOf(a, list, at) = Distribution(t, list, at["topics"], at["subtopics"])
      BY <2>2 DEF ValueOf, ContactMethods, AbsoluteMethods
    <3> QED BY <3>1, <3>2
  <2>7. PICK L, M : L = at["topics"] /\ M = at["subtopics"]
    OBVIOUS
  <2>8. L \in Lakes(Conversations) /\ v = Distribution(t, list, L, M) /\ L = at.topics
    BY <2>5, <2>6, <2>7
  <2>9. Total([u \in DOMAIN v |-> v[u].count]) = CountOf(L, OfType(t))
    BY <2>8, TopicsCounted
  <2>10. Quiet(at) => M = L
    BY <2>5, <2>7 DEF Quiet
  <2>11. Quiet(at) => EachSubtopicCounted(v)
    BY <2>8, <2>10, SubtopicsCounted
  <2> QED BY <2>1, <2>8, <2>9, <2>11 DEF EachTopicCounted
<1>2. IndInv => TopicsAddUp
  BY <1>1 DEF TopicsAddUp
<1> QED BY <1>2, Invariance, PTL

\* The three threads that saw the same lake count each conversation once.
THEOREM TotalsAreWhole == Spec => []TotalsCountOnce
<1>1. ASSUME IndInv, NEW c \in Clients, At(c, Ask("conversations_totals"), "done"),
             Quiet(AskedAt(c, Ask("conversations_totals")))
      PROVE  Value(c, Ask("conversations_totals")).total
                = CountOf(AskedAt(c, Ask("conversations_totals")).resolved, Conversations)
  <2>1. PICK a, at, v : a = Ask("conversations_totals") /\ at = AskedAt(c, a) /\ v = Value(c, a)
    OBVIOUS
  <2>2. a.method = "conversations_totals" /\ a.method \notin ContactMethods
    BY <2>1 DEF Ask, ContactMethods
  <2>3. Shape(a, subject.facts) /\ Answer(a, at, v, subject.facts)
    BY <1>1, <2>1, FinishedValue
  <2>4. PICK F : F = subject.facts
    OBVIOUS
  <2>5. F \subseteq Conversations /\ IsFiniteSet(F)
    <3>1. F \subseteq Conversations
      BY <2>2, <2>3, <2>4 DEF Shape, IsTopics, IsTotals, IsFunnel, IsScore, IsLabel, IsCustom,
         ContactMethods, KeyMethods, AbsoluteMethods, MethodOf
    <3> QED BY <3>1, MetricsAssumption, FS_Subset
  <2>6. /\ DOMAIN at = {"resolved", "unresolved", "human"}
        /\ \A p \in DOMAIN at : at[p] \in [F -> 0..MaxRecorded]
    BY <2>2, <2>3, <2>4 DEF Answer, Reads, Readings, Parts, Lakes
  <2>7. PICK L : L = at["resolved"]
    OBVIOUS
  <2>8. L \in [F -> 0..MaxRecorded] /\ at["unresolved"] = L /\ at["human"] = L
    BY <1>1, <2>1, <2>6, <2>7 DEF Quiet
  <2>9. v = Totals(at)
    <3>1. PICK list : v = ValueOf(a, list, at)
      BY <2>3 DEF Answer
    <3>2. ValueOf(a, list, at) = Totals(at)
      BY <2>2 DEF ValueOf, ContactMethods, AbsoluteMethods
    <3> QED BY <3>1, <3>2
  <2>10. PICK R, U, H : R = InClass("resolved") /\ U = InClass("unresolved") /\ H = InClass("human")
    OBVIOUS
  <2>11. v.total = CountOf(L, R) + CountOf(L, U) + CountOf(L, H)
    BY <2>7, <2>8, <2>9, <2>10 DEF Totals
  <2>12. /\ CountOf(L, R) = SumOver(L, R \cap F) /\ CountOf(L, U) = SumOver(L, U \cap F)
         /\ CountOf(L, H) = SumOver(L, H \cap F)
         /\ CountOf(L, Conversations) = SumOver(L, Conversations \cap F)
         /\ IsFiniteSet(R \cap F) /\ IsFiniteSet(U \cap F) /\ IsFiniteSet(H \cap F)
         /\ \A x \in F : L[x] \in Nat
    BY <2>5, <2>8, CountOfType
  <2>13. PICK RF, UF, HF : RF = R \cap F /\ UF = U \cap F /\ HF = H \cap F
    OBVIOUS
  <2>14. /\ RF \cap UF = {} /\ (RF \cup UF) \cap HF = {}
         /\ (RF \cup UF) \cup HF = Conversations \cap F
         /\ \A x \in (RF \cup UF) \cup HF : L[x] \in Nat
    <3>1. \A f \in Conversations : f.class \in {"resolved", "unresolved", "human"}
      BY MetricsAssumption
    <3> QED BY <2>5, <2>10, <2>12, <2>13, <3>1 DEF InClass
  <2>15. IsFiniteSet(RF) /\ IsFiniteSet(UF) /\ IsFiniteSet(HF) /\ IsFiniteSet(RF \cup UF)
    BY <2>12, <2>13, FS_Union
  <2>16. SumOver(L, RF \cup UF) = SumOver(L, RF) + SumOver(L, UF)
    BY <2>14, <2>15, SumUnion
  <2>17. SumOver(L, (RF \cup UF) \cup HF) = SumOver(L, RF \cup UF) + SumOver(L, HF)
    BY <2>14, <2>15, SumUnion
  <2>18. v.total = CountOf(L, Conversations)
    BY <2>11, <2>12, <2>13, <2>14, <2>16, <2>17
  <2> QED BY <2>1, <2>6, <2>7, <2>18
<1>2. IndInv => TotalsCountOnce
  BY <1>1 DEF TotalsCountOnce
<1> QED BY <1>2, Invariance, PTL

\* Orders, their value and their currency go together.
THEOREM FunnelIsOne == Spec => []FunnelAgrees
<1>1. ASSUME IndInv, NEW c \in Clients, At(c, Ask("sales_funnel_data"), "done"),
             Quiet(AskedAt(c, Ask("sales_funnel_data"))),
             NEW v, v = Value(c, Ask("sales_funnel_data"))
      PROVE  v.currency = (v.orders > 0) /\ (v.value > 0) = (v.orders > 0)
  <2>1. PICK a, at : a = Ask("sales_funnel_data") /\ at = AskedAt(c, a)
    OBVIOUS
  <2>2. a.method = "sales_funnel_data" /\ a.method \notin ContactMethods
    BY <2>1 DEF Ask, ContactMethods
  <2>3. Answer(a, at, v, subject.facts)
    BY <1>1, <2>1, FinishedValue
  <2>4. DOMAIN at = {"leads", "orders", "value", "sample"}
    BY <2>2, <2>3 DEF Answer, Parts
  <2>5. PICK L : L = at["orders"]
    OBVIOUS
  <2>6. at["value"] = L /\ at["sample"] = L
    BY <1>1, <2>1, <2>4, <2>5 DEF Quiet
  <2>7. v = Funnel(at)
    <3>1. PICK list : v = ValueOf(a, list, at)
      BY <2>3 DEF Answer
    <3>2. ValueOf(a, list, at) = Funnel(at)
      BY <2>2 DEF ValueOf, ContactMethods, AbsoluteMethods
    <3> QED BY <3>1, <3>2
  <2>8. PICK n : n = CountOf(L, {[of |-> "purchase"]})
    OBVIOUS
  <2>9. v.orders = n /\ v.value = n /\ v.currency = (n > 0 /\ n > 0)
    BY <2>5, <2>6, <2>7, <2>8 DEF Funnel
  <2> QED BY <2>9
<1>2. IndInv => FunnelAgrees
  BY <1>1 DEF FunnelAgrees
<1> QED BY <1>2, Invariance, PTL

-----------------------------------------------------------------------------
(* Counts by label.                                                        *)

LEMMA ScoresAreFinite == ASSUME NEW m PROVE IsFiniteSet(Scores(m))
<1>1. ASSUME NEW x, NEW y, NEW z, NEW w PROVE IsFiniteSet({x, y, z, w})
  <2>1. IsFiniteSet({x}) /\ IsFiniteSet({y}) /\ IsFiniteSet({z}) /\ IsFiniteSet({w})
    BY FS_Singleton
  <2>2. IsFiniteSet({x} \cup {y}) /\ IsFiniteSet({z} \cup {w})
    BY <2>1, FS_Union
  <2>3. IsFiniteSet(({x} \cup {y}) \cup ({z} \cup {w}))
    BY <2>2, FS_Union
  <2>4. {x, y, z, w} = ({x} \cup {y}) \cup ({z} \cup {w})
    OBVIOUS
  <2> QED BY <2>3, <2>4
<1>2. PICK low, middle, high : /\ low = {"0", "1", "2", "3"} /\ middle = {"4", "5", "6", "7"}
                               /\ high = {"8", "9", "10", "10"}
  OBVIOUS
<1>3. IsFiniteSet(low) /\ IsFiniteSet(middle) /\ IsFiniteSet(high)
  BY <1>1, <1>2
<1>4. IsFiniteSet(low \cup middle)
  BY <1>3, FS_Union
<1>5. IsFiniteSet((low \cup middle) \cup high)
  BY <1>3, <1>4, FS_Union
<1>6. Scores(m) \subseteq (low \cup middle) \cup high
  BY <1>2 DEF Scores
<1> QED BY <1>5, <1>6, FS_Subset

\* The events that have a place among the labels.
Placed(a) == {f \in Own(a) : a.method \in ScoreMethods => f.label \in Scores(a.method)}
Labelled(a, l) == {f \in Own(a) : f.label = l}

\* The counts by label make up what has a place.
LEMMA GroupsCounted ==
    ASSUME NEW a, NEW F \in SUBSET Ratings, NEW L \in [F -> 0..MaxRecorded],
           NEW v, v = Groups(a, L)
    PROVE  /\ SumOver(v, DOMAIN v) = CountOf(L, Placed(a))
           /\ \A l \in DOMAIN v : /\ v[l] = CountOf(L, Labelled(a, l)) /\ v[l] \in Nat
                                  /\ a.method \in ScoreMethods => l \in Scores(a.method)
           /\ a.method \in ScoreMethods => DOMAIN v = Scores(a.method)
<1> DEFINE count(l) == CountOf(L, Labelled(a, l))
           all == IF a.method \in ScoreMethods THEN Scores(a.method)
                  ELSE {f.label : f \in Own(a)}
           h == [l \in all |-> count(l)]
           label == [f \in Ratings |-> f.label]
<1>1. IsFiniteSet(F) /\ Own(a) \subseteq Ratings
  BY MetricsAssumption, FS_Subset DEF Own, Custom
<1>2. IsFiniteSet(all)
  <2>1. PICK own, place : own = Own(a) /\ place = [f \in own |-> f.label]
    OBVIOUS
  <2>2. IsFiniteSet(own)
    BY <1>1, <2>1, MetricsAssumption, FS_Subset
  <2>3. IsFiniteSet({place[f] : f \in own})
    BY <2>2, FiniteImage
  <2>4. {place[f] : f \in own} = {f.label : f \in Own(a)}
    BY <2>1
  <2> QED BY <2>3, <2>4, ScoresAreFinite
<1>3. \A l : count(l) \in Nat
  BY <1>1, CountOfType
<1>4. DOMAIN v = IF a.method \in ScoreMethods THEN Scores(a.method)
                 ELSE {l \in {f.label : f \in Own(a)} : count(l) > 0}
  BY DEF Groups, Labelled
<1>5. \A l \in DOMAIN v : v[l] = count(l)
  BY <1>4 DEF Groups, Labelled
<1>6. SumOver(h, all) = CountOf(L, Placed(a))
  <2>1. PICK part : part = [l \in all |-> Labelled(a, l)]
    OBVIOUS
  <2>2. /\ \A l \in all : h[l] = CountOf(L, part[l])
        /\ \A l \in all : \A f \in F : f \in part[l] <=> f \in Placed(a) /\ label[f] = l
        /\ \A f \in Placed(a) \cap F : label[f] \in all
    BY <1>1, <2>1 DEF Placed, Labelled
  <2> HIDE DEF h, all, label
  <2> QED BY <1>1, <1>2, <2>2, CountByPart
<1>7. DOMAIN v \subseteq all /\ \A l \in all \ DOMAIN v : h[l] = 0
  <2>1. CASE a.method \in ScoreMethods
    BY <1>4, <2>1
  <2>2. CASE a.method \notin ScoreMethods
    <3>1. DOMAIN v = {l \in all : count(l) > 0}
      BY <1>4, <2>2
    <3>2. \A l \in all : h[l] = count(l)
      OBVIOUS
    <3> HIDE DEF h, all, count
    <3> QED BY <1>3, <3>1, <3>2
  <2> QED BY <2>1, <2>2
<1>8. (\A l \in all : h[l] \in Nat) /\ \A l \in DOMAIN v : v[l] = h[l]
  BY <1>3, <1>5, <1>7
<1>9. IsFiniteSet(DOMAIN v) /\ IsFiniteSet(all \ DOMAIN v)
  BY <1>2, <1>7, FS_Subset
<1>10. SumOver(h, all) = SumOver(v, DOMAIN v)
  <2> HIDE DEF h, all, count
  <2>1. all = DOMAIN v \cup (all \ DOMAIN v)
    BY <1>7
  <2>2. SumOver(h, DOMAIN v \cup (all \ DOMAIN v)) = SumOver(h, DOMAIN v) + SumOver(h, all \ DOMAIN v)
    BY <1>7, <1>8, <1>9, SumUnion
  <2>3. SumOver(h, all \ DOMAIN v) = 0
    BY <1>7, <1>9, SumZero
  <2>4. SumOver(h, DOMAIN v) \in Nat
    BY <1>7, <1>8, <1>9, SumType
  <2>5. SumOver(h, DOMAIN v) = SumOver(v, DOMAIN v)
    BY <1>8, <1>9, SumEqual
  <2> QED BY <2>1, <2>2, <2>3, <2>4, <2>5
<1> QED BY <1>3, <1>4, <1>5, <1>6, <1>10

\* The labels of a finished request.
LEMMA FinishedGroups ==
    ASSUME IndInv, NEW c \in Clients, NEW a, a.method \in LabelMethods, At(c, a, "done")
    PROVE  /\ subject.facts \subseteq Ratings
           /\ AskedAt(c, a).all \in [subject.facts -> 0..MaxRecorded]
           /\ Value(c, a) = Groups(a, AskedAt(c, a).all)
           /\ \A f \in subject.facts :
                 f \in Own(a) <=> \A k \in {"agent", "key"} \cap DOMAIN a : f[k] = a[k]
<1>1. Shape(a, subject.facts) /\ Answer(a, AskedAt(c, a), Value(c, a), subject.facts)
  BY FinishedValue
<1>2. /\ a.method \notin ContactMethods /\ a.method \notin AbsoluteMethods
      /\ a.method \notin {"topics_distribution", "conversations_totals", "sales_funnel_data"}
  BY DEF LabelMethods, ScoreMethods, ContactMethods, AbsoluteMethods
<1>3. DOMAIN AskedAt(c, a) = {"all"} /\ AskedAt(c, a)["all"] \in Lakes(subject.facts)
  BY <1>1, <1>2 DEF Answer, Reads, Readings, Parts
<1>4. Value(c, a) = Groups(a, AskedAt(c, a)["all"])
  <2>1. PICK list : Value(c, a) = ValueOf(a, list, AskedAt(c, a))
    BY <1>1 DEF Answer
  <2>2. ValueOf(a, list, AskedAt(c, a)) = Groups(a, AskedAt(c, a)["all"])
    BY <1>2 DEF ValueOf
  <2> QED BY <2>1, <2>2
<1>5. PICK F : F = subject.facts
  OBVIOUS
<1> DEFINE OwnFacts == F \subseteq Ratings /\ \A f \in F :
              f \in Own(a) <=> \A k \in {"agent", "key"} \cap DOMAIN a : f[k] = a[k]
<1>6. OwnFacts
  <2>1. ASSUME NEW k \in {"weni_csat", "weni_nps"}, IsScore(a, F, k) PROVE OwnFacts
    <3>1. DOMAIN a = {"method", "agent"}
      BY <2>1 DEF IsScore, AgentAsk
    <3>2. a.method = MethodOf[k] /\ a.method \in ScoreMethods /\ a.method \notin KeyMethods
      BY <2>1 DEF IsScore, MethodOf, ScoreMethods, KeyMethods, AbsoluteMethods
    <3>3. Own(a) = {f \in Ratings : f.agent = a.agent /\ f.key \in DOMAIN MethodOf
                                      /\ MethodOf[f.key] = a.method}
      BY <3>2 DEF Own
    <3>4. F = {f \in Ratings : f.key = k} /\ k \in DOMAIN MethodOf
      BY <2>1 DEF IsScore, Under, MethodOf
    <3> QED BY <3>1, <3>2, <3>3, <3>4
  <2>2. ASSUME NEW k \in {"agent_invocation", "tool_result"}, IsLabel(a, F, k) PROVE OwnFacts
    <3>1. DOMAIN a = {"method"}
      BY <2>2 DEF IsLabel, Ask
    <3>2. a.method = MethodOf[k] /\ a.method \notin ScoreMethods /\ a.method \notin KeyMethods
      BY <2>2 DEF IsLabel, MethodOf, ScoreMethods, KeyMethods, AbsoluteMethods
    <3>3. Own(a) = {f \in Ratings : f.key \in DOMAIN MethodOf /\ MethodOf[f.key] = a.method}
      BY <3>2 DEF Own
    <3>4. F = {f \in Ratings : f.key = k} /\ k \in DOMAIN MethodOf
      BY <2>2 DEF IsLabel, Under, MethodOf
    <3> QED BY <3>1, <3>2, <3>3, <3>4
  <2>3. CASE IsCustom(a, F)
    <3>1. DOMAIN a = {"method", "agent", "key"}
      BY <2>3 DEF IsCustom, KeyAsk
    <3>2. Own(a) = {f \in Custom : f.agent = a.agent /\ f.key = a.key}
      BY <2>3 DEF IsCustom, Own, KeyMethods, AbsoluteMethods, ScoreMethods
    <3> QED BY <2>3, <3>1, <3>2 DEF IsCustom, Custom
  <2>4. \/ IsScore(a, F, "weni_csat") \/ IsScore(a, F, "weni_nps")
        \/ IsLabel(a, F, "agent_invocation") \/ IsLabel(a, F, "tool_result")
        \/ IsCustom(a, F)
    BY <1>1, <1>2, <1>5 DEF Shape, IsTopics, IsTotals, IsFunnel
  <2> QED BY <2>1, <2>2, <2>3, <2>4
<1> QED BY <1>3, <1>4, <1>5, <1>6 DEF Lakes

\* What is counted by label is all and only the agent's, or the key's, own.
LEMMA OwnLabels == IndInv => LabelsAreOwn
<1> SUFFICES ASSUME IndInv, NEW c \in Clients, NEW a \in DOMAIN req[c],
                    At(c, a, "done"), a.method \in LabelMethods,
                    NEW v, v = Value(c, a), NEW placed,
                    placed = {f \in subject.facts :
                          /\ \A k \in {"agent", "key"} \cap DOMAIN a : f[k] = a[k]
                          /\ a.method \in ScoreMethods => f.label \in Scores(a.method)}
             PROVE  /\ Total(v) = CountOf(AskedAt(c, a).all, placed)
                    /\ \A l \in DOMAIN v : v[l] > 0 => \E f \in placed : f.label = l
  BY DEF LabelsAreOwn
<1>1. PICK F, L : F = subject.facts /\ L = AskedAt(c, a).all
  OBVIOUS
<1>2. /\ F \in SUBSET Ratings /\ L \in [F -> 0..MaxRecorded] /\ v = Groups(a, L)
      /\ \A f \in F : f \in Own(a) <=> \A k \in {"agent", "key"} \cap DOMAIN a : f[k] = a[k]
  BY <1>1, FinishedGroups
<1>3. /\ SumOver(v, DOMAIN v) = CountOf(L, Placed(a))
      /\ \A l \in DOMAIN v : /\ v[l] = CountOf(L, Labelled(a, l)) /\ v[l] \in Nat
                             /\ a.method \in ScoreMethods => l \in Scores(a.method)
  <2>1. F \in SUBSET Ratings /\ L \in [F -> 0..MaxRecorded] /\ v = Groups(a, L)
    BY <1>2
  <2>2. SumOver(v, DOMAIN v) = CountOf(L, Placed(a))
    BY <2>1, GroupsCounted
  <2>3. ASSUME NEW l \in DOMAIN v
        PROVE  /\ v[l] = CountOf(L, Labelled(a, l)) /\ v[l] \in Nat
               /\ a.method \in ScoreMethods => l \in Scores(a.method)
    BY <2>1, GroupsCounted
  <2> QED BY <2>2, <2>3
<1>4. placed \subseteq F /\ \A f \in F : f \in placed <=> f \in Placed(a)
  BY <1>1, <1>2 DEF Placed
<1>5. IsFiniteSet(F)
  BY <1>2, MetricsAssumption, FS_Subset
<1>6. CountOf(L, Placed(a)) = CountOf(L, placed)
  <2>1. CountOf(L, Placed(a)) = SumOver(L, Placed(a) \cap F)
        /\ CountOf(L, placed) = SumOver(L, placed \cap F)
    BY <1>2, <1>5, CountOfType
  <2>2. Placed(a) \cap F = placed \cap F
    BY <1>4
  <2> QED BY <2>1, <2>2
<1>7. ASSUME NEW l \in DOMAIN v, v[l] > 0 PROVE \E f \in placed : f.label = l
  <2>1. PICK T : T = Labelled(a, l)
    OBVIOUS
  <2>2. CountOf(L, T) > 0
    BY <1>3, <1>7, <2>1
  <2>3. PICK f \in T \cap F : L[f] > 0
    BY <1>2, <1>5, <2>2, CountPositive
  <2>4. f \in Placed(a) /\ f.label = l
    BY <1>3, <1>7, <2>1, <2>3 DEF Placed, Labelled
  <2> QED BY <1>4, <2>3, <2>4
<1> QED BY <1>1, <1>3, <1>6, <1>7 DEF Total

\* Promoters, passives and detractors are the eleven scores.
LEMMA ElevenScores ==
    ASSUME NEW v, DOMAIN v = Scores("nps_metrics"), \A l \in DOMAIN v : v[l] \in Nat
    PROVE  Nps(v).promoters + Nps(v).passives + Nps(v).detractors = SumOver(v, DOMAIN v)
<1>1. PICK low, seven, nine, rest :
         /\ low = {"0", "1", "2", "3", "4", "5", "6"} /\ seven = {"8", "7"} /\ nine = {"10", "9"}
         /\ rest = low \cup seven
  OBVIOUS
<1>2. DOMAIN v = rest \cup nine /\ low \cap seven = {} /\ rest \cap nine = {}
  BY <1>1 DEF Scores
<1>3. IsFiniteSet(DOMAIN v)
  BY ScoresAreFinite
<1>4. IsFiniteSet(low) /\ IsFiniteSet(seven) /\ IsFiniteSet(nine) /\ IsFiniteSet(rest)
  <2>1. low \subseteq DOMAIN v /\ seven \subseteq DOMAIN v /\ nine \subseteq DOMAIN v
        /\ rest \subseteq DOMAIN v
    BY <1>1, <1>2
  <2> QED BY <1>3, <2>1, FS_Subset
<1>5. \A l \in rest \cup nine : v[l] \in Nat
  BY <1>2
<1>6. SumOver(v, rest \cup nine) = SumOver(v, rest) + SumOver(v, nine)
  BY <1>2, <1>4, <1>5, SumUnion
<1>7. \A l \in low \cup seven : v[l] \in Nat
  BY <1>1, <1>5
<1>8. SumOver(v, low \cup seven) = SumOver(v, low) + SumOver(v, seven)
  BY <1>2, <1>4, <1>7, SumUnion
<1>9. v["8"] \in Nat /\ v["7"] \in Nat /\ v["10"] \in Nat /\ v["9"] \in Nat
  BY <1>1, <1>5
<1>10. SumOver(v, {"8", "7"}) = v["8"] + v["7"] /\ SumOver(v, {"10", "9"}) = v["10"] + v["9"]
  BY <1>9, SumOfTwo
<1>11. SumOver(v, low) \in Nat
  BY <1>4, <1>7, SumType
<1>12. PICK n : n = Nps(v)
  OBVIOUS
<1>13. n.promoters = v["10"] + v["9"] /\ n.passives = v["8"] + v["7"]
       /\ n.detractors = SumOver(v, low)
  BY <1>1, <1>12 DEF Nps
<1>14. SumOver(v, DOMAIN v) = SumOver(v, low) + (v["8"] + v["7"]) + (v["10"] + v["9"])
  BY <1>1, <1>2, <1>6, <1>8, <1>10
<1> QED BY <1>9, <1>11, <1>12, <1>13, <1>14

LEMMA EachScoreCounted == IndInv => NpsCountsEach
<1> SUFFICES ASSUME IndInv, NEW c \in Clients, NEW a \in DOMAIN req[c],
                    At(c, a, "done"), a.method = "nps_metrics"
             PROVE  Nps(Value(c, a)).promoters + Nps(Value(c, a)).passives
                        + Nps(Value(c, a)).detractors
                      = CountOf(AskedAt(c, a).all, {f \in Own(a) : f.label \in Scores(a.method)})
  BY DEF NpsCountsEach
<1>1. a.method = "nps_metrics" /\ a.method \in LabelMethods /\ a.method \in ScoreMethods
  BY DEF LabelMethods, ScoreMethods
<1>2. PICK F, L, v : F = subject.facts /\ L = AskedAt(c, a).all /\ v = Value(c, a)
  OBVIOUS
<1>3. F \in SUBSET Ratings /\ L \in [F -> 0..MaxRecorded] /\ v = Groups(a, L)
  BY <1>1, <1>2, FinishedGroups
<1>4. /\ SumOver(v, DOMAIN v) = CountOf(L, Placed(a))
      /\ (\A l \in DOMAIN v : v[l] \in Nat) /\ DOMAIN v = Scores(a.method)
  BY <1>1, <1>3, GroupsCounted
<1>5. Nps(v).promoters + Nps(v).passives + Nps(v).detractors = SumOver(v, DOMAIN v)
  BY <1>1, <1>4, ElevenScores
<1>6. Placed(a) = {f \in Own(a) : f.label \in Scores(a.method)}
  BY <1>1 DEF Placed
<1> QED BY <1>2, <1>4, <1>5, <1>6

\* The parts of an answer agree with each other.
THEOREM PartsAlwaysAgree == Spec => []PartsAgree
<1>1. IndInv => NpsCountsEach
  BY EachScoreCounted
<1>2. TotalsCountOnce /\ FunnelAgrees /\ NpsCountsEach => PartsAgree
  BY DEF PartsAgree
<1> QED BY <1>1, <1>2, Invariance, TotalsAreWhole, FunnelIsOne, PTL

-----------------------------------------------------------------------------
(* Absolute numbers.                                                       *)

LEMMA TimesPositive ==
    ASSUME NEW m \in Nat, NEW n \in Nat, m > 0
    PROVE  m * n \in Nat /\ (m * n > 0 <=> n > 0)
OBVIOUS

Recorded(a, L) == {f \in Custom : f.agent = a.agent /\ f.key = a.key /\ L[f] > 0}
Worthy(a, S) == {f \in S : a.method # "event_count" => f.amount > 0}

\* A number an absolute method makes of events of some worth is not zero.
LEMMA AbsoluteTells ==
    ASSUME NEW a, a.method \in AbsoluteMethods,
           NEW L \in Lakes(Custom), NEW own, own = Recorded(a, L)
    PROVE  Truthy(a, Absolute(a, L))
             <=> Worthy(a, own) # {} /\ (a.method = "events_lowest_value" => Worthy(a, own) = own)
<1> DEFINE sums == [f \in own |-> L[f] * f.amount]
           sum == Total(sums)
           amounts == {f.amount : f \in own}
           count == CountOf(L, own)
<1>1. IsFiniteSet(Custom) /\ Custom \subseteq Ratings /\ own \subseteq Custom /\ IsFiniteSet(own)
  BY MetricsAssumption, FS_Subset DEF Custom, Recorded
<1>2. \A f \in own : L[f] \in Nat /\ L[f] > 0 /\ f.amount \in Nat
  <2>1. \A f \in Custom : L[f] \in 0..MaxRecorded /\ f.amount \in Nat
    BY <1>1, MetricsAssumption DEF Lakes
  <2> QED BY <1>1, <2>1, MetricsAssumption DEF Recorded
<1>3. sum \in Nat /\ (sum > 0 <=> \E f \in own : f.amount > 0)
  <2>1. DOMAIN sums = own
    OBVIOUS
  <2>2. \A f \in own : sums[f] \in Nat /\ (sums[f] > 0 <=> f.amount > 0)
    BY <1>2, TimesPositive
  <2> HIDE DEF sums
  <2>3. SumOver(sums, own) \in Nat /\ (SumOver(sums, own) > 0 <=> \E f \in own : sums[f] > 0)
    BY <1>1, <2>2, SumType, SumPositive
  <2> QED BY <2>1, <2>2, <2>3 DEF Total
<1>4. count \in Nat /\ (count > 0 <=> own # {})
  <2>1. L \in [Custom -> 0..MaxRecorded]
    BY DEF Lakes
  <2>2. count > 0 <=> \E f \in own \cap Custom : L[f] > 0
    BY <1>1, <2>1, CountPositive
  <2>3. count \in Nat
    BY <1>1, <2>1, CountOfType
  <2> QED BY <1>1, <1>2, <2>2, <2>3
<1>5. IsFiniteSet(amounts) /\ amounts \subseteq Int
  <2>1. PICK amount : amount = [f \in own |-> f.amount]
    OBVIOUS
  <2>2. IsFiniteSet({amount[f] : f \in own})
    BY <1>1, FiniteImage
  <2>3. {amount[f] : f \in own} = amounts
    BY <2>1
  <2>4. amounts \subseteq Int
    BY <1>2
  <2> QED BY <2>2, <2>3, <2>4
<1>6. ASSUME own # {}
      PROVE  /\ \E f \in own : Max(amounts) = f.amount
             /\ \A f \in own : f.amount <= Max(amounts)
             /\ \E f \in own : Min(amounts) = f.amount
             /\ \A f \in own : Min(amounts) <= f.amount
  <2>1. amounts # {}
    BY <1>6
  <2>2. /\ Max(amounts) \in amounts /\ \A x \in amounts : x <= Max(amounts)
        /\ Min(amounts) \in amounts /\ \A x \in amounts : Min(amounts) <= x
    BY <1>5, <2>1, LeastIsThere, GreatestIsThere
  <2> QED BY <2>2
<1>7. PICK v : v = Absolute(a, L)
  OBVIOUS
<1>8. /\ a.method = "event_count" => v = count
      /\ a.method = "events_values_sum" => v = sum
      /\ a.method = "events_values_average" => v = <<sum, count>>
      /\ a.method = "events_highest_value" => v = IF own = {} THEN 0 ELSE Max(amounts)
      /\ a.method = "events_lowest_value" => v = IF own = {} THEN 0 ELSE Min(amounts)
  <2>1. {f \in Own(a) : L[f] > 0} = own
    BY DEF Own, Recorded, KeyMethods, ScoreMethods, AbsoluteMethods
  <2> QED BY <1>7, <2>1 DEF Absolute
<1>9. Truthy(a, v) <=> IF a.method = "events_values_average" THEN v[1] # 0 ELSE v # 0
  BY DEF Truthy, AbsoluteMethods, ContactMethods
<1> HIDE DEF sum, amounts, count
<1> USE DEF Worthy
<1>10. CASE a.method = "event_count"
  BY <1>4, <1>7, <1>8, <1>9, <1>10
<1>11. CASE a.method = "events_values_sum"
  BY <1>3, <1>7, <1>8, <1>9, <1>11
<1>12. CASE a.method = "events_values_average"
  BY <1>3, <1>7, <1>8, <1>9, <1>12
<1>13. CASE a.method = "events_highest_value"
  <2>1. CASE own = {}
    BY <1>7, <1>8, <1>9, <1>13, <2>1
  <2>2. CASE own # {}
    BY <1>2, <1>6, <1>7, <1>8, <1>9, <1>13, <2>2
  <2> QED BY <2>1, <2>2
<1>14. CASE a.method = "events_lowest_value"
  <2>1. CASE own = {}
    BY <1>7, <1>8, <1>9, <1>14, <2>1
  <2>2. CASE own # {}
    BY <1>2, <1>6, <1>7, <1>8, <1>9, <1>14, <2>2
  <2> QED BY <2>1, <2>2
<1> QED BY <1>10, <1>11, <1>12, <1>13, <1>14 DEF AbsoluteMethods

LEMMA OwnNumbers == IndInv => AbsolutesAreOwn
<1>1. ASSUME IndInv, NEW c \in Clients,
             NEW a \in DOMAIN req[c], a.method \in AbsoluteMethods,
             At(c, a, "done"), NEW own, own = Recorded(a, AskedAt(c, a).all)
      PROVE  Truthy(a, Value(c, a))
               <=> Worthy(a, own) # {} /\ (a.method = "events_lowest_value" => Worthy(a, own) = own)
  <2>1. a.method \in AbsoluteMethods
    BY <1>1
  <2>2. Shape(a, subject.facts) /\ Answer(a, AskedAt(c, a), Value(c, a), subject.facts)
    BY <1>1, FinishedValue
  <2>3. subject.facts = Custom
    BY <2>1, <2>2 DEF Shape, IsTopics, IsTotals, IsFunnel, IsScore, IsLabel, IsCustom,
       ContactMethods, AbsoluteMethods, MethodOf
  <2>4. PICK at, v : at = AskedAt(c, a) /\ v = Value(c, a)
    OBVIOUS
  <2>5. a.method \notin ContactMethods
        /\ a.method \notin {"topics_distribution", "conversations_totals", "sales_funnel_data"}
    BY <2>1 DEF AbsoluteMethods, ContactMethods
  <2>6. PICK L : L = at["all"]
    OBVIOUS
  <2>7. L \in Lakes(Custom)
    BY <2>2, <2>3, <2>4, <2>5, <2>6 DEF Answer, Reads, Readings, Parts
  <2>8. v = Absolute(a, L)
    <3>1. PICK list : v = ValueOf(a, list, at)
      BY <2>2, <2>4 DEF Answer
    <3>2. ValueOf(a, list, at) = Absolute(a, L)
      BY <2>1, <2>5, <2>6 DEF ValueOf
    <3> QED BY <3>1, <3>2
  <2>9. own = Recorded(a, L)
    BY <1>1, <2>4, <2>6
  <2>10. Truthy(a, Absolute(a, L))
           <=> Worthy(a, own) # {} /\ (a.method = "events_lowest_value" => Worthy(a, own) = own)
    BY <2>1, <2>7, <2>9, AbsoluteTells
  <2> QED BY <2>4, <2>8, <2>10
<1> QED BY <1>1 DEF AbsolutesAreOwn, Recorded, Worthy

\* No answer, kept or fresh, has anything of another agent or key, or lacks its own.
THEOREM AnswersAlwaysOwn == Spec => []AnswersAreOwn
<1>1. IndInv => AnswersAreOwn
  BY OwnLabels, OwnNumbers DEF AnswersAreOwn
<1> QED BY <1>1, Invariance, PTL
=============================================================================
