---------------------------- MODULE HumanSupport ----------------------------
(***************************************************************************)
(* The human support dashboards: what Insights answers about the rooms of  *)
(* Weni Chats while agents open, take, return and close them.  Insights    *)
(* keeps nothing: it expands the "__all__" tokens, turns the filters into  *)
(* SQL over the Chats database or into parameters of the Chats API, one    *)
(* query after another, and forwards pages of lists.                       *)
(*                                                                         *)
(* Time is counted in instants, one for each event of Chats, and a day has *)
(* Day of them.  A counted room is kept with how many times the query has  *)
(* counted it; the number the dashboard shows is the sum.                  *)
(***************************************************************************)
EXTENDS Integers, Sequences, FiniteSets, FiniteSums

CONSTANTS
    Sectors, Queues, Tags,
    SectorOf,    \* the sector of each queue and of each tag
    Agents,      \* the agents of the project, numbered in the order of the lists
    AgentSector, \* the sector each works in
    All,         \* the token "__all__"
    NoDate,      \* a date the filters leave out
    Asked,       \* what browsers ask: pairs of a kind of request and its filters
    Offsets,     \* time zones of the project, in instants from UTC
    Day,         \* instants in a day
    PageSize,    \* the limit browsers send
    MaxRooms,    \* bound: rooms opened
    Deletable,   \* bound: the sectors, queues and tags that may be deleted
    MaxDeleted,  \* bound: how many of them are
    MaxNow       \* bound: instants

Dimensions == {"sectors", "queues", "tags"}

ASSUME NamesAssumption ==
    /\ All \notin Sectors \cup Queues \cup Tags
    /\ SectorOf \in [Queues \cup Tags -> Sectors] /\ AgentSector \in [Agents -> Sectors]
    /\ Agents \subseteq 1..MaxRooms /\ Deletable \subseteq Sectors \cup Queues \cup Tags
    /\ IsFiniteSet(Tags)
ASSUME BoundsAssumption ==
    /\ MaxRooms \in Nat /\ MaxNow \in Nat /\ MaxDeleted \in Nat
    /\ Day \in Nat \ {0} /\ PageSize \in Nat \ {0} /\ Offsets \subseteq Int

VARIABLES
    now,      \* the clock
    tz,       \* the time zone of the project
    rooms,    \* the rooms of Chats, in the order they were opened
    deleted,  \* sectors, queues and tags marked is_deleted
    req,      \* the request being answered
    watch     \* history: what has happened to the rooms asked for since it came

vars == <<now, tz, rooms, deleted, req, watch>>

Ids == 1..Len(rooms)

Filters == [sectors: SUBSET (Sectors \cup {All}), queues: SUBSET (Queues \cup {All}),
            tags: SUBSET (Tags \cup {All}), start: Nat \cup {NoDate}, end: Nat \cup {NoDate}]

NoFilters == [sectors |-> {}, queues |-> {}, tags |-> {}, start |-> NoDate, end |-> NoDate]

-----------------------------------------------------------------------------
(* Dates.  TIME_ZONE is UTC.                                               *)

LocalDate(t) == (t + tz) \div Day
UtcDate(t) == t \div Day

\* Midnight of a date in the project's time zone, and the last second of it.
Midnight(d) == d * Day - tz
LastSecond(d) == Midnight(d + 1) - 1

\* Mutant of StartOfDay: the midnight is not localized.
StartOfDayUtc(t) == UtcDate(t) * Day

\* The date is the one of UTC, the midnight that of the project.
StartOfDay(t) == Midnight(UtcDate(t))

\* Both dates, or else today until now.
Period(f, t) == IF NoDate \notin {f.start, f.end}
               THEN Midnight(f.start)..LastSecond(f.end) ELSE StartOfDay(t)..t

-----------------------------------------------------------------------------
(* Filters.                                                                *)

\* The list operation of the sources sectors, queues and tags.
SectorsList == Sectors \ deleted
QueuesList == Queues \ deleted
TagsList == Tags \ deleted
Listed(d) == CASE d = "sectors" -> SectorsList [] d = "queues" -> QueuesList
               [] d = "tags" -> TagsList

\* The filters with every token expanded at this moment.
Resolved(f) == [d \in DOMAIN f |-> IF d \in Dimensions /\ All \in f[d] THEN Listed(d) ELSE f[d]]

\* An IN clause for each filter; one that is empty, as an expansion may be, is
\* left out.
Clause(values, chosen) == chosen = {} \/ values \cap chosen # {}

Matches(f, r) ==
    /\ Clause({SectorOf[rooms[r].queue]}, f.sectors)
    /\ Clause({rooms[r].queue}, f.queues)
    /\ Clause(rooms[r].tags, f.tags)

\* JOIN rooms_room_tags: a row for each chosen tag of the room.
Times(f, r) == IF ~Matches(f, r) THEN 0
               ELSE IF f.tags = {} THEN 1 ELSE Cardinality(rooms[r].tags \cap f.tags)

Counted(f, S) == [r \in 1..MaxRooms |-> IF r \in S THEN Times(f, r) ELSE 0]

\* SELECT COUNT(r.* )
Count(f, S) == Total([r \in S |-> Times(f, r)])

-----------------------------------------------------------------------------
(* The rooms the endpoints ask about.                                      *)

Waiting == {r \in Ids : rooms[r].active /\ ~rooms[r].taken}
Ongoing == {r \in Ids : rooms[r].active /\ rooms[r].taken}
Closed(range) == {r \in Ids : ~rooms[r].active /\ rooms[r].ended \in range}
Created(range) == {r \in Ids : rooms[r].created \in range}

\* GROUP BY queue, deleted ones included.
QueueRows(f, S) ==
    LET hit == {r \in S : Times(f, r) > 0}
    IN [q \in {rooms[r].queue : r \in hit} |-> Count(f, {r \in hit : rooms[r].queue = q})]

\* GROUP BY tag: each room under every tag it has, whatever tags are chosen; the
\* tags of deleted sectors are left out.
TagRows(f, S) ==
    LET hit == {r \in S : Matches(f, r)}
    IN [t \in {x \in UNION {rooms[r].tags : r \in hit} : SectorOf[x] \notin deleted} |->
          Cardinality({r \in hit : t \in rooms[r].tags})]

\* Mutant of BySector: the queues and tags that were deleted are left out.
BySectorLive(rows) ==
    [s \in {SectorOf[x] : x \in DOMAIN rows} |->
       [x \in {y \in DOMAIN rows \ deleted : SectorOf[y] = s} |-> rows[x]]]

\* The rows gathered by sector.
BySector(rows) ==
    [s \in {SectorOf[x] : x \in DOMAIN rows} |->
       [x \in {y \in DOMAIN rows : SectorOf[y] = s} |-> rows[x]]]

GroupByQueueCount(f, S) == BySector(QueueRows(f, S))
GroupByTagCount(f, S) == BySector(TagRows(f, S))

\* A label for each hour, of the project's time zone.
HourCounts(f, S) ==
    [h \in 0..(Day - 1) |-> Count(f, {r \in S : (rooms[r].created + tz) % Day = h})]

PeaksInHumanService(f) == HourCounts(f, {r \in Ids : rooms[r].created >= StartOfDay(now)})

AnalysisPeaksInHumanService(f) == HourCounts(f, Created(Period(f, now)))

\* Without a known chip: every room there has ever been.
VolumeRooms(chip) ==
    CASE chip = "waiting" -> Waiting
      [] chip = "ongoing" -> Ongoing
      [] chip = "closed" -> Closed(StartOfDay(now)..now)
      [] OTHER -> Ids

VolumeByQueue(f, chip) == GroupByQueueCount(f, VolumeRooms(chip))

AnalysisVolumeRooms(f, chip) ==
    LET range == Period(f, now) IN
    CASE chip = "waiting" -> Waiting \cap Created(range)
      [] chip = "ongoing" -> Ongoing \cap Created(range)
      [] chip = "closed" -> Closed(range)
      [] OTHER -> Created(range)

AnalysisVolumeByQueue(f, chip) == GroupByQueueCount(f, AnalysisVolumeRooms(f, chip))

\* The volume by tag has no chip for waiting rooms.
TagChip(chip) == IF chip = "waiting" THEN "none" ELSE chip

VolumeByTag(f, chip) == GroupByTagCount(f, VolumeRooms(TagChip(chip)))

AnalysisVolumeByTag(f, chip) == GroupByTagCount(f, AnalysisVolumeRooms(f, TagChip(chip)))

-----------------------------------------------------------------------------
(* The lists.  Chats answers with the rows of a page.                      *)

MonitoringOngoing(f) == {r \in Ongoing : Matches(f, r)}

MonitoringAwaiting(f) == {r \in Waiting : Matches(f, r)}

\* Each of the dates is used on its own.
ParamsForFinished(f) ==
    {r \in Ids : /\ ~rooms[r].active
                 /\ f.start # NoDate => rooms[r].ended >= Midnight(f.start)
                 /\ f.end # NoDate => rooms[r].ended <= LastSecond(f.end)}

FinishedRooms(f) == {r \in ParamsForFinished(f) : Matches(f, r)}
FinishedRoomsV2(f) == {r \in ParamsForFinished(f) : Matches(f, r)}

AgentsOf(sectors) == {a \in Agents : sectors = {} \/ AgentSector[a] \in sectors}

MonitoringAgents(f) == AgentsOf(f.sectors)
MonitoringAgentsV2(f) == AgentsOf(f.sectors)

\* Of the sectors chosen only the first is sent.
FirstOf(S) == IF S = {} THEN {} ELSE {CHOOSE s \in S : TRUE}
MonitoringStatus(f) == AgentsOf(FirstOf(f.sectors))
MonitoringStatusV2(f) == AgentsOf(FirstOf(f.sectors))
AnalysisStatusByAgent(f) == AgentsOf(FirstOf(f.sectors))
AnalysisStatusByAgentV2(f) == AgentsOf(FirstOf(f.sectors))

Lists == {"ongoing", "awaiting", "finished", "finished_v2", "agents", "agents_v2",
          "status", "status_v2", "analysis_status", "analysis_status_v2"}

Rows(list, f) ==
    CASE list = "ongoing" -> MonitoringOngoing(f)
      [] list = "awaiting" -> MonitoringAwaiting(f)
      [] list = "finished" -> FinishedRooms(f)
      [] list = "finished_v2" -> FinishedRoomsV2(f)
      [] list = "agents" -> MonitoringAgents(f)
      [] list = "agents_v2" -> MonitoringAgentsV2(f)
      [] list = "status" -> MonitoringStatus(f)
      [] list = "status_v2" -> MonitoringStatusV2(f)
      [] list = "analysis_status" -> AnalysisStatusByAgent(f)
      [] list = "analysis_status_v2" -> AnalysisStatusByAgentV2(f)

\* The rows of a page, which are in the order of their numbers, and whether there
\* is a next one.
Place(r, rows) == Cardinality({x \in rows : x < r})
Paginated(rows, offset) ==
    [rows |-> {r \in rows : Place(r, rows) \in offset..offset + PageSize - 1},
     next |-> offset + PageSize < Cardinality(rows)]

ChatsPage(list, f, offset) == Paginated(Rows(list, f), offset)

\* The view of the agents paginates the page it gets once more.
AgentsPage(f, offset) == Paginated(ChatsPage("agents", f, offset).rows, offset)

\* Mutant of ProxiedPage: the page is paginated once more.
ProxiedPageTwice(f, offset) == AgentsPage(f, offset)

\* The proxied page of version 2: the links of Chats, pointed at Insights.
ProxiedPage(f, offset) == ChatsPage("agents_v2", f, offset)

Page(list, f, offset) ==
    CASE list = "agents" -> AgentsPage(f, offset)
      [] list = "agents_v2" -> ProxiedPage(f, offset)
      [] OTHER -> ChatsPage(list, f, offset)

-----------------------------------------------------------------------------
(* A request.                                                              *)

\* The questions that take the time metrics or the ratings from Chats.
Questions == {"attendance", "analysis", "time_metrics", "csat_ratings", "csat_score"}

ASSUME AskedAssumption == Asked \subseteq (Lists \cup Questions) \X Filters

Counts == {"is_waiting", "in_progress", "finished"}
Nothing == [r \in 1..MaxRooms |-> 0]
NoRequest == [kind |-> "none", step |-> "idle", choice |-> NoFilters, filters |-> NoFilters,
              at |-> 0, counts |-> [c \in Counts |-> Nothing], from |-> NoDate, to |-> NoDate,
              offset |-> 0, visits |-> Nothing]

Steps == {"idle", "sectors", "queues", "tags", "begin", "is_waiting", "in_progress", "finished",
          "metrics", "page", "done"}

\* The rooms a request is about, and which of them have been there all along: of a
\* list, the rows of the page being made, whose tokens may have been expanded.
Watched == IF req.kind \in Lists THEN Rows(req.kind, Resolved(req.filters))
           ELSE {r \in Waiting \cup Ongoing : Matches(Resolved(req.choice), r)}

NoWatch == [stayed |-> {}, moved |-> {}, left |-> FALSE, arrived |-> FALSE]

TypeOK ==
    /\ now \in 0..MaxNow /\ tz \in Offsets
    /\ rooms \in Seq([queue: Queues, tags: SUBSET Tags, taken: BOOLEAN, active: BOOLEAN,
                      created: 0..MaxNow, ended: 0..MaxNow])
    /\ deleted \subseteq Sectors \cup Queues \cup Tags
    /\ req \in [kind: {"none"} \cup Lists \cup Questions, step: Steps,
                choice: Filters, filters: Filters, at: 0..MaxNow,
                counts: [Counts -> [1..MaxRooms -> 0..Cardinality(Tags) \cup {1}]],
                from: Int \cup {NoDate}, to: Int \cup {NoDate}, offset: Nat,
                visits: [1..MaxRooms -> Nat]]
    /\ req.step = "page" => All \notin req.filters.sectors \cup req.filters.queues \cup req.filters.tags
    /\ watch \in [stayed: SUBSET (1..MaxRooms), moved: SUBSET (1..MaxRooms), left: BOOLEAN,
                  arrived: BOOLEAN]

Init ==
    /\ now = 0 /\ tz \in Offsets
    /\ rooms = <<>> /\ deleted = {}
    /\ req = NoRequest /\ watch = NoWatch

-----------------------------------------------------------------------------
(* Weni Chats.                                                             *)

Followed(back, moved) ==
    [stayed |-> (watch.stayed \cap Watched') \ back, moved |-> watch.moved \cup moved,
     left |-> watch.left \/ ~(Watched \subseteq Watched'),
     arrived |-> watch.arrived \/ ~(Watched' \subseteq Watched)]

\* One event at a time; back are the rooms that return to the queue.
Event(rms, del, back) ==
    /\ now < MaxNow /\ req.step # "done"
    /\ now' = now + 1 /\ rooms' = rms /\ deleted' = del
    /\ UNCHANGED <<tz, req>>
    /\ watch' = IF req.kind = "none" THEN NoWatch
                ELSE Followed(back, {r \in 1..Len(rms) : r \notin Ids \/ rms[r] # rooms[r]})

OpenRoom ==
    /\ Len(rooms) < MaxRooms
    /\ \E q \in Queues \ deleted :
        /\ SectorOf[q] \notin deleted
        /\ Event(Append(rooms, [queue |-> q, tags |-> {}, taken |-> FALSE, active |-> TRUE,
                                created |-> now + 1, ended |-> 0]), deleted, {})

TakeRoom(r) ==
    /\ r \in Waiting
    /\ \E tags \in SUBSET {t \in Tags \ deleted : SectorOf[t] = SectorOf[rooms[r].queue]} :
         Event([rooms EXCEPT ![r].taken = TRUE, ![r].tags = tags], deleted, {})

ReturnRoom(r) == r \in Ongoing /\ Event([rooms EXCEPT ![r].taken = FALSE], deleted, {r})

CloseRoom(r) ==
    /\ rooms[r].active
    /\ Event([rooms EXCEPT ![r].active = FALSE, ![r].ended = now + 1], deleted, {})

Delete(x) ==
    /\ x \notin deleted /\ Cardinality(deleted) < MaxDeleted
    /\ Event(rooms, deleted \cup {x}, {})

TimePasses == Event(rooms, deleted, {})

-----------------------------------------------------------------------------
(* Insights.                                                               *)

Ask(kind, f) ==
    /\ req.kind = "none"
    /\ req' = [NoRequest EXCEPT !.kind = kind, !.step = "sectors", !.choice = f, !.filters = f]
    /\ UNCHANGED <<now, tz, rooms, deleted>>
    /\ watch' = [NoWatch EXCEPT !.stayed = Watched']

\* _expand_all_tokens: a query for each dimension, one after another.
ExpandAllTokens ==
    /\ req.step \in Dimensions
    /\ LET next == CASE req.step = "sectors" -> "queues" [] req.step = "queues" -> "tags"
                     [] req.step = "tags" -> IF req.kind \in Lists THEN "page" ELSE "begin"
       IN req' = [req EXCEPT !.step = next,
                    !.filters[req.step] = IF All \in @ THEN Listed(req.step) ELSE @]
    /\ UNCHANGED <<now, tz, rooms, deleted, watch>>

Begin(kind, step) ==
    /\ req.step = "begin" /\ req.kind = kind
    /\ req' = [req EXCEPT !.step = step, !.at = now]
    /\ UNCHANGED <<now, tz, rooms, deleted, watch>>

Tally(count, S, step) ==
    /\ req.step = count
    /\ req' = [req EXCEPT !.step = step, !.counts[count] = Counted(req.filters, S)]
    /\ UNCHANGED <<now, tz, rooms, deleted, watch>>

\* Mutant of AttendanceStatus: the rooms in progress are counted first.
AttendanceStatusReversed ==
    \/ Begin("attendance", "in_progress")
    \/ req.kind = "attendance" /\ Tally("in_progress", Ongoing, "is_waiting")
    \/ req.kind = "attendance" /\ Tally("is_waiting", Waiting, "finished")
    \/ req.kind = "attendance" /\ Tally("finished", Closed(StartOfDay(req.at)..req.at), "done")

\* get_attendance_status: three counts, one after another.
AttendanceStatus ==
    \/ Begin("attendance", "is_waiting")
    \/ req.kind = "attendance" /\ Tally("is_waiting", Waiting, "in_progress")
    \/ req.kind = "attendance" /\ Tally("in_progress", Ongoing, "finished")
    \/ req.kind = "attendance" /\ Tally("finished", Closed(StartOfDay(req.at)..req.at), "done")

\* Chats is asked about the days from and to; without them it takes its own.
AskChats(step, from, to) ==
    /\ req.step = step
    /\ req' = [req EXCEPT !.step = "done", !.from = from, !.to = to]
    /\ UNCHANGED <<now, tz, rooms, deleted, watch>>

FirstInstant(d) == IF d = NoDate THEN NoDate ELSE Midnight(d)
LastInstant(d) == IF d = NoDate THEN NoDate ELSE LastSecond(d)

AnalysisStatus ==
    \/ Begin("analysis", "finished")
    \/ req.kind = "analysis" /\ Tally("finished", Closed(Period(req.filters, req.at)), "metrics")
    \/ req.kind = "analysis"
       /\ AskChats("metrics", FirstInstant(req.filters.start), LastInstant(req.filters.end))

TimeMetrics ==
    \/ Begin("time_metrics", "metrics")
    \/ req.kind = "time_metrics"
       /\ AskChats("metrics", FirstInstant(req.filters.start), LastInstant(req.filters.end))

\* Without either date, the day of the project.
CsatWindow(kind) ==
    \/ Begin(kind, "metrics")
    \/ /\ req.kind = kind
       /\ IF {req.filters.start, req.filters.end} = {NoDate}
          THEN AskChats("metrics", Midnight(LocalDate(req.at)), LastSecond(LocalDate(req.at)))
          ELSE AskChats("metrics", FirstInstant(req.filters.start), LastInstant(req.filters.end))

CsatRatings == CsatWindow("csat_ratings")
CsatScoreByAgents == CsatWindow("csat_score")

\* A page of a list.  For the next one the browser repeats its request, and the
\* tokens are expanded again.
ListPage ==
    /\ req.step = "page"
    /\ LET page == Page(req.kind, req.filters, req.offset)
           seen == [r \in 1..MaxRooms |-> req.visits[r] + (IF r \in page.rows THEN 1 ELSE 0)]
       IN req' = IF page.next
                 THEN [req EXCEPT !.visits = seen, !.offset = @ + PageSize, !.step = "sectors",
                                  !.filters = req.choice]
                 ELSE [req EXCEPT !.visits = seen, !.step = "done"]
    /\ UNCHANGED <<now, tz, rooms, deleted>>
    /\ watch' = Followed({}, {})

Answering == ExpandAllTokens \/ AttendanceStatus \/ AnalysisStatus \/ TimeMetrics
             \/ CsatRatings \/ CsatScoreByAgents \/ ListPage

Next ==
    \/ OpenRoom \/ TimePasses
    \/ \E r \in Ids : TakeRoom(r) \/ ReturnRoom(r) \/ CloseRoom(r)
    \/ \E x \in Deletable : Delete(x)
    \/ \E asked \in Asked : Ask(asked[1], asked[2])
    \/ Answering

Spec == Init /\ [][Next]_vars

-----------------------------------------------------------------------------
(* Properties.                                                             *)

\* The last tag was deleted after "__all__" had been expanded: the query still has
\* its clause, and asking again would leave it out.
TagsVanished == req.filters.tags # {} /\ Resolved(req.choice).tags = {}

\* The attendance card counts every room that was open while it was being made,
\* if the room did not go back to its queue meanwhile, because waiting rooms are
\* counted before those in progress; and a room that did not move is under one
\* heading only (get_attendance_status).
AttendanceMissesNothing ==
    (req.kind = "attendance" /\ req.step = "done") =>
        /\ TagsVanished \/ \A r \in watch.stayed :
             req.counts["is_waiting"][r] + req.counts["in_progress"][r] > 0
        /\ \A r \in Ids \ watch.moved : Cardinality({c \in Counts : req.counts[c][r] > 0}) <= 1

ClosedOn(d) == {r \in Ids : ~rooms[r].active /\ rooms[r].ended <= req.at
                            /\ LocalDate(rooms[r].ended) = d /\ Matches(req.filters, r)}

\* Without dates an answer is about the day of the project: the ratings always
\* are, the rooms closed are at the hours when that day is also the one in UTC.
DayOfProject ==
    LET today == LocalDate(req.at)
        undated == NoDate \in {req.choice.start, req.choice.end}
    IN req.step = "done" =>
        /\ (/\ req.kind = "attendance" \/ (req.kind = "analysis" /\ undated)
            /\ UtcDate(req.at) = today) =>
               {r \in Ids : req.counts["finished"][r] > 0} = ClosedOn(today)
        /\ (req.kind \in {"csat_ratings", "csat_score"}
            /\ {req.choice.start, req.choice.end} = {NoDate}) =>
               \A t \in 0..MaxNow : t \in req.from..req.to <=> LocalDate(t) = today

\* A browser that follows the pages of a list misses a row that was there all
\* along only if another has left, and sees one twice only if another has come:
\* between two pages, or because what is listed has changed since a page's tokens
\* were expanded.  (The agents of version 1 end with their first page.)
WalkVisitsAll ==
    (req.kind \in Lists \ {"agents"} /\ req.step = "done") =>
        /\ watch.left \/ \A r \in watch.stayed : req.visits[r] > 0
        /\ watch.arrived \/ \A r \in 1..MaxRooms : req.visits[r] <= 1

Chips == {"waiting", "ongoing", "closed", "none"}

TotalOf(bySector) == Total([s \in DOMAIN bySector |-> Total(bySector[s])])

\* The rows of each chosen tag of a live sector are the rooms that have it.
TagsAgree(f, rows, S) ==
    \A t \in {x \in f.tags : SectorOf[x] \notin deleted} :
        LET own == Count([f EXCEPT !.tags = {t}], S)
        IN IF own = 0 THEN \A s \in DOMAIN rows : t \notin DOMAIN rows[s]
           ELSE rows[SectorOf[t]][t] = own

\* The breakdowns add up to what a count would answer at the same moment: by
\* queue, deleted or not, by hour, and under each chosen tag of a live sector.
BreakdownsAgree ==
    req.kind = "none" => \A f \in {Resolved(asked[2]) : asked \in Asked} :
        /\ \A chip \in Chips :
            /\ TotalOf(VolumeByQueue(f, chip)) = Count(f, VolumeRooms(chip))
            /\ TotalOf(AnalysisVolumeByQueue(f, chip)) = Count(f, AnalysisVolumeRooms(f, chip))
            /\ TagsAgree(f, VolumeByTag(f, chip), VolumeRooms(TagChip(chip)))
            /\ TagsAgree(f, AnalysisVolumeByTag(f, chip), AnalysisVolumeRooms(f, TagChip(chip)))
        /\ Total(PeaksInHumanService(f)) =
             Count(f, {r \in Ids : rooms[r].created >= StartOfDay(now)})
        /\ Total(AnalysisPeaksInHumanService(f)) = Count(f, Created(Period(f, now)))
=============================================================================
