# Verification of insights-engine

TLA+ models of the parts of insights-engine whose correctness depends on the
order of things: rows of a database read and saved by several processes, celery
tasks that are killed, pods that stop, pages fetched by threads, caches. Each
module follows the Python code definition by definition; TLC checks it on small
instances and TLAPS proves the most important properties for every value of the
constants. `PROJECT.json` gives, for every definition, the lines it stands for.

## 1. The system

insights-engine is a Django service (HTTP API, celery workers with celery beat,
an AMQP consumer) over PostgreSQL and redis. It serves dashboards to projects of
the Weni platform, and computes what they show from other services (datalake,
chats, flows, Meta, VTEX, Nexus). The database is used in autocommit mode: the
settings have no `ATOMIC_REQUESTS` and almost no code opens a transaction, so a
handler is a sequence of queries and saves between which any other process may
run. That is where nearly all the hazards are.

| Component | State | Operations | Interactions | What is hard | What makes it correct |
|---|---|---|---|---|---|
| Conversations reports (`metrics/conversations/tasks.py`, `reports/services.py`, `reports/views.py`, `core/shutdown.py`) | rows of `Report`: status, `started_at`, `config` | POST a request; `generate_conversations_report`; `timeout_reports`; shutdown handler | rows shared by web processes, all pool processes of all pods; e-mails | read-then-save without locks; tasks killed by celery; pods stopped; resumed runs | one active report per project, started in order, never stuck, ended once, owner and start recorded, young runs spared |
| Event paging (`ConversationsReportService.get_datalake_events`) | a run's pages; the cache of events | count, parallel pages, batches, fallback | threads of a run; the datalake; the status of the row | completion order, a page that fails, events recorded meanwhile, runs lost and resumed | in order, no event twice, none missed, bounded |
| Report status cache (`report_status_cache.py`, `signals.py`) | one redis entry per project | GET; post_save deletion | readers and every process that saves a report | query and write around a save and its deletion | bounded staleness |
| Dashboards (`dashboards/models.py`, `api/v1/viewsets.py`) | `Dashboard` rows: default flag, soft deletion, name | set default, edit, delete, list, get-or-create of generated dashboards | web processes, consumers | read-then-save, stale copies, a unique constraint that excludes deleted rows | one live default, none deleted revived, one generated dashboard |
| Onboarding (`projects/usecases/create.py`, `consumers/project_consumer.py`, `projects/tasks.py`, `projects/services/*.py`, `projects/viewsets.py`) | `Project`, its dashboards and authorizations; the activations of the indexer; the cached answer of Nexus | creation message; tasks of a project; hourly activation; release by hand; listing | broker redelivery; the indexer's webhook; Nexus; celery | steps of a creation that raise half way; stale columns written back; a limited queue that retries | acknowledged means complete; allowed means accepted; waits once; indexed in the end |
| VTEX account linking (`projects/usecases/update_vtex_account.py`) | `Project.vtex_account` | link | web processes | check then save | an account belongs to one project |
| WhatsApp integrations (`metrics/meta/usecases/*.py`) | dashboards of phone numbers, favourites, widgets | save, remove, migrate a WABA; add and remove favourites; `move_favorite_templates` | webhooks, copies in the main project, celery tasks | migration without a transaction, favourites moved later | no number lost or doubled, the main project has copies, favourites arrive and stay bounded |
| Meta analytics (`metrics/meta/services.py`, `clients.py`, `waba_migration_analytics.py`) | answers of Meta in redis | split a period over WABAs, fetch, merge, sum over WABAs | Meta's API, redis, the migration data of dashboards | the day of a migration, keys of cached answers, errors of one of two WABAs | every message counted once |
| Conversations metrics (`metrics/conversations/services.py`, `integrations/datalake/services.py`, `serializers.py`, `mixins.py`) | answers in redis for an hour, the topics list for a minute | topics, totals, contacts, funnel, scores, labels, custom keys; create and delete topics | datalake queried in threads, Nexus, redis | queries of one answer that see different counts, keys that leave something out, lists that age | parts make up the whole, each agent and key its own counts, a topic that stays is named |
| Report worksheets (`reports/services.py`, `file_processors.py`, `reports/dataclass.py`) | worksheets in memory or as generators, spools and files on the disk of a worker, results in redis under the report | build each section and widget, walk the flow runs of contacts, write XLSX or CSV, mail | data lake, Elasticsearch, metrics service; the report's status, swept or interrupted | generators read later than the worksheets beside them, contacts that answer again, names cut at 31 characters, files of runs cut short | what was asked for is there, worksheets agree, no file stays |
| Human support (`human_support/services.py`, `sources/rooms/*`, `metrics/human_support/api`) | none | attendance, peaks, volumes by queue and tag, times, ratings, lists of rooms and agents | SQL over the Chats database, the Chats API | several queries for one answer, two clocks around midnight, joins that multiply rows, pages by offset | no waiting room missed, the day of the project, parts make up the whole, walks visit every row |
| VTEX orders (`sources/orders/clients.py`, `metrics/vtex/services/orders_service.py`) | listings in redis | count and add the orders of a utm_source | VTEX, in pages read by threads | pages that shift, windows that overlap, a limit of pages | orders counted once, few missed |
| Pages of templates and orders (`metrics/templates_and_orders`, `metrics/skills`, `sources/vtex_conversions`) | the page of the abandoned cart in redis | templates, orders of the range, orders of the period before | Meta analytics, VTEX orders | filters narrowed in place, errors replaced by zeros | a page is about one range |
| Feedback, widgets, authentication, the other sources | caches at most | one query each | external services | little | answers of the right project |

The hazards this code is exposed to are listed with their lines in
`PROJECT.json` ("hazards"), each with the properties that would catch it.

## 2. Modules

| Module | Role |
|---|---|
| `ReportGeneration` | life of the report rows: web processes, pool slots, pods, time |
| `ReportLifecycle` | abstract: what the requester of reports is promised |
| `ReportProperties` | properties and fairness of `ReportGeneration`; the refinement |
| `MCReports` | values of the constants for TLC |
| `DatalakePages` | retrieval of the events of a section |
| `ReportStatusCache` | the cached answer of GET |
| `ReportProofs` | theorems about `ReportGeneration`, `DatalakePages` and `ReportStatusCache` |
| `ProjectOnboarding`, `OnboardingProofs` | creation of a project, its tasks, the queue of the indexer, releases, and its theorems |
| `WhatsAppIntegration`, `WhatsAppProofs` | dashboards of WhatsApp numbers, their migrations and favourites, and its theorems |
| `MCWhatsApp` | initial states and symmetry of `WhatsAppIntegration` for TLC |
| `MetaAnalytics` | analytics of a template across the migration of its WABA |
| `VtexOrders` | the listing of orders in windows of pages |
| `TemplatesAndOrders`, `MCTemplatesAndOrders` | the pages that show both: composes `MetaAnalytics` and `VtexOrders` |
| `TemplatesAndOrdersProofs` | theorems about the three |
| `ConversationMetrics`, `MCMetrics`, `ConversationMetricsProofs` | the conversations dashboard over the data lake, redis and Nexus, and theorems about it |
| `HumanSupport`, `MCHumanSupport`, `HumanSupportProofs` | the human support dashboards over the rooms of Chats, and theorems about them |
| `ReportWorksheets`, `MCReportWorksheets`, `ReportWorksheetsProofs` | what one run of a report reads, writes and leaves behind, and theorems about it |
| `FiniteSums`, `FiniteSumProofs` | sums over sets, for the counts of dashboards, and the lemmas about them |

Each component that interacts with another does so over rows or messages that
the module of the receiving side has as input: the status that `DatalakePages`
looks at is the one `ReportGeneration` writes, and a save of a report in
`ReportStatusCache` stands for any of its saves. `ReportWorksheets` takes a
retrieval of events, whose pages are in `DatalakePages`, as one step.
`TemplatesAndOrders` extends the two modules whose requests it makes and adds the
steps between them.

`ReportLifecycle` says what the requester of a report is promised: queued, started in
the order of the requests, ended once, each kind of mail at most once. `ReportProperties`
maps the rows and mail counters of `ReportGeneration` to it (`Lifecycle`), and
`LifecycleSpec` says that every step of the code is a step or a stutter of it.

### ReportGeneration

State. `status`, `started`, `age`, `config`, `project` are columns of the
`Report` rows, numbered by `created_on`; `age` is the time since `started_at`.
`config` keeps the three keys the code uses, with the key `interrupted` possibly
absent: the SQL of `~Q(config__interrupted=True)` treats an absent key, `false`
and a NULL column differently, and `Counted` is what the query returns. A slot is
a pool process (`pc`, the row it `held`s, its copy `mem`, the age of its task).
`marks` are the rows a shutdown handler has listed and not saved yet.

| Action | Code |
|---|---|
| `PostCheck`, `PostCreate` | `views.py` POST: the look-up, then `request_generation` |
| `CheckConcurrency`, `SelectInterrupted`, `SelectPending`, `Claim` | `generate_conversations_report`, one query or save each |
| `StartRun` | `_update_report_status` on the copy read earlier |
| `FetchPages`, `FetchNothing`, `ProcessFiles`, `BuildFails` | `generate` up to the files; the details of paging are in `DatalakePages` |
| `SettleInterruption`, `SendReady`, `SaveReady` | the end of a successful run |
| `SaveFailed`, `SendError` | its `except` branch |
| `ListTimedOut`, `Expire`, `NotifyTimeout` | `timeout_reports` |
| `Tick`, `KillTask` | time, and celery's hard limit |
| `BeginShutdown`, `MarkInterrupted`, `EndShutdown`, `Crash`, `Restart` | `graceful_shutdown_handler` and the pod |

`save(update_fields=...)` writes what the copy holds: `Claim` overwrites the
whole config with the copy's, so a mark written since is lost, as in the code.

### DatalakePages

One run over the events of one section, numbered in the datalake's order. The
modes of the code (counted and parallel, streaming in batches, sequential
fallback when the count fails) are phases; a thread's page is a step, so pages
end in any order and new events may be recorded between any two. A run may be
lost and another begins, finding what was cached. (`PagesSpec`, `PagesTypeOK`,
`RunTimedOut` and, in the next module, `CacheSpec`, `SavedReports`, `QueryReport` carry
the name of their part, as one module of proofs extends all three.)

### ReportStatusCache

The single redis entry of a project. A reader that misses queries (`QueryReport`) and
then writes (`Store`); a writer saves and, in another step, the post_save
receiver deletes. `ago[v]` is a history variable: how long ago the answer `v`
was last true of the table.

### ProjectOnboarding

State. `row` has the columns of `Project` that the code compares: whether the row
exists, whether multi agents are active (the switch of the message and Nexus'
answer together) and `is_allowed`. `queue` holds the activations that are not
SUCCESS, by `created_on`: the query of `activate_indexer` selects no others.
`inbox[c]` is the queue of a consumer, from which a message goes when it is
acknowledged or rejected. `tasks` counts the copies of each celery task, `job` is
the task of a slot with the `is_allowed` it has read, `run` the hourly task with
its place in the list, and `release` a request with the columns it has read.
`accepted` and `abandoned` are history: whom the webhook accepted, and which
releases died half way.

| Action | Code |
|---|---|
| `Deliver`, `CreateProject`, `CreateHuman`, `DelayConversations`, `DelaySwitch`, `CreateAuths`, `Ack` | the project consumers and `ProjectsUseCase.create_project`, a query or an enqueuing each |
| `StepRaises`, `CrashConsumer` | rejection without requeue; redelivery |
| `List` | the listing of dashboards, which enqueues a task |
| `StartTask`, `ReadProject`, `AskNexus`, `NexusFails`, `SaveActive`, `CheckQueue`, `CreateActivation`, `LookForDashboard` | the tasks of the switch and of Nexus, `add_project_to_indexer_queue` |
| `GetDashboard`, `InsertDashboard`, `LoseTask` | the conversations dashboard's get-or-create; a slot that dies |
| `StartRun`, `PostAccepted`, `PostRefused`, `SaveAllowed`, `SaveSuccess`, `ActivationRaises`, `LoseRun` | `activate_indexer` |
| `BeginRelease`, `SaveReleased`, `ReleaseAccepted`, `ReleaseRefused`, `RestoreReleased`, `AbandonRelease` | `release_flows_dashboard` |
| `ExpireCache` | the time to live of Nexus' answer |

`save(update_fields=...)` writes one column and the `project.save()` of a release
all of them, so a release may write back what another process has changed; and
the cached answer of Nexus comes back as bytes (`Truthy`).

### WhatsAppIntegration

State. `dash` is the table of dashboards in the order of creation, deleted ones
included, each with project, number and WABA; `favs[i]` are the favourites of the
`i`th. `hook` is the webhook a process serves: the phase (`mode`), the dashboards
it has listed and not done (`todo`), those it has created (`made`). `moves` are the
queued `move_favorite_templates` tasks and `slot` the running ones. `lost`,
`unsure` and `spoiled` are history: what removals and dead processes took away.

| Action | Code |
|---|---|
| `BeginSave`, `FindNumber`, `FindWaba`, `DeleteDashboard`, `CreateDashboard` | `SaveWhatsappIntegrationUseCase`: the number's own dashboard, the migration of a WABA, the copies of the main project |
| `BeginRemove`, `RemoveDashboard` | `RemoveWhatsappIntegrationUseCase` |
| `HookDies` | a query that raises, a process that dies |
| `CheckAddition`, `CreateAddition`, `AdditionFails`, `RemoveFavourite` | the favourites of users |
| `StartMove`, `ReadFavourites`, `CountFavourites`, `CreateFavourite`, `MoveRaises`, `MoveDies` | `move_favorite_templates` with its retries |

`NextPhase` and `Proceed` are the control between two queries: after the last
dashboard of a project the main project's follow, and a migration that found
nothing saves the number instead.

### MetaAnalytics

State. `sent` is what Meta counts for a template, by WABA and day; `migrated` the
day in `migration_data`; `cache` the answers in redis; `ask` a request with the
periods still to fetch and the answers it has. A request comes from the front end,
from another service (`internal`, which wants no data points), from the use case
that sums several WABAs (`multi`) or from the conversions of a campaign (`client`, which
names one WABA).

| Action | Code |
|---|---|
| `Begin` | the endpoints; `Periods` is `resolve_waba_analytics_periods`, `Resolved` the template ids |
| `Fetch`, `Expire` | `MetaGraphAPIClient.get_messages_analytics` and its cache of an hour |
| `LookupFails`, `FetchFails` | errors of Meta: the sums skip the old WABA, the others fail |
| `Answer` | `merge_messages_analytics`, or the sum of points |
| `NewDay`, `Migrate`, `Send` | time, the webhook, traffic (external) |

The four counts of a day are added alike, so the model has one. A range that
reaches the present has the current second in its key and is never found in redis
again (`Kept`).

### VtexOrders and TemplatesAndOrders

State. `date` and `invoiced` are the shop. `list[a]` is the listing of a process: the end
of the current window (`until`), the pages its threads have still to read (`todo`), what
has been counted. `listed` and `kept` are answers in redis. `page[a]` is the page being
made. `had`, `again`, `late` and `cuts` are history: what there was at the first page,
orders read twice, invoiced meanwhile, and the dates at which windows ended.

| Action | Code |
|---|---|
| `BeginListing`, `FirstPage`, `ReadPage`, `FinishListing` | `VtexOrdersRestClient.list`, `get_pages` and their threads; `Narrow` is the next window, `Count` the set of ids seen |
| `ListingFails` | a page that fails |
| `Invoice`, `ForgetListing` | the shop, the lifetime in redis |
| `BeginTemplates`, `TemplatesDone`, `TemplatesFail` | templates and orders, the abandoned cart |
| `BeginOrders`, `CurrentDone`, `PastDone`, `OrdersFail` | `OrdersService.get_metrics_from_utm_source` |
| `BeginConversions`, `ConversionsDone` | `VTEXOrdersConversionsService` |
| `FindPage`, `ForgetPage` | the cache of the abandoned cart |

The listing changes the dictionary of filters it is given, which the caller then uses for
the period before: `CurrentDone` sets both ends anew, as the code does.

A window ends at the date of its oldest order, which the next reads again, so it gets
further only if fewer orders than it holds share a date: `Spread`, under which
`MissedBounded` bounds the orders missed by those of the dates where windows ended.

### HumanSupport

State. `rooms` are those of Chats, `deleted` the sectors, queues and tags marked so.
`req` is the request: the filters chosen, those expanded so far, the counts or pages it
has. Insights has no state here, so a behaviour makes one request among the events of
Chats; `watch` is history about the rooms since it came. `Times(f, r)` says how often a
query counts a room: its tags are joined, so more than once. Each page of a list is
a request of its own and expands its tokens anew, so what is listed may change between
the expansion of a token and the query; `Followed` notes what has come and left by then
(`watch.arrived`, `watch.left`), as `WalkVisitsAll` excuses no other miss.

| Action | Code |
|---|---|
| `Ask`, `ExpandAllTokens` | the endpoints; `_expand_all_tokens`, a query for each dimension |
| `AttendanceStatus`, `AnalysisStatus` | a count for each status, in the code's order |
| `TimeMetrics`, `CsatRatings`, `CsatScoreByAgents` | the dates sent to Chats |
| `ListPage` | a page of any list; `Rows`, `ChatsPage`, `AgentsPage`, `ProxiedPage` are the clients and the pagination |
| `OpenRoom`, `TakeRoom`, `ReturnRoom`, `CloseRoom`, `Delete`, `TimePasses` | Chats (external) |

`PeaksInHumanService`, `VolumeByQueue`, `VolumeByTag` and their analysis versions are one
query each and are operators.

### ReportWorksheets

State. `plan`, `format` and `flow` are the request; `lake` how often each fact is recorded,
`docs` the flow runs in Elasticsearch. `run` is the run at work: the items still to build
(`todo`), its worksheets, `read` or to be read when they are written, the walk over flow
runs, the names used. `disk` holds spools and files, `redis` the results standard runs keep,
`report` what was mailed. `floor`, `unmoved` and `excused` are history.

| Action | Code |
|---|---|
| `Begin` | `generate`: the flags, the sections in the order of `worksheets_mapping` |
| `Share` | the classification events: a spool when both of their worksheets are asked for |
| `BuildLazy`, `BuildList`, `BuildSummary` | a worksheet as a generator, read now, or from the metrics service |
| `WalkPage`, `EndWalk`, `WalkTooLong` | `get_flowsrun_results_by_contacts` |
| `ListWidgets` | the custom and crosstab widgets that still exist |
| `StartWriting`, `WriteInMemory`, `WriteSheet`, `NameRefused` | the file processors; `UniqueName` is `_ensure_unique_worksheet_name`, a name being its first 27 characters, the rest and a number |
| `Conclude`, `Mail` | the end of the run: files closed, spools dropped, READY |
| `Raise`, `Die`, `Interrupt`, `Sweep` | a service that raises, a kill, a shutdown mark, the timeout sweep |
| `Record`, `RunFlow`, `DeleteWidget`, `Expire` | the data lake, contacts, users, redis |

### ConversationMetrics

State. `lake` counts how often each fact was recorded (a classified conversation, a
lead or purchase, an event of an agent under a key). `nexus` holds the topics and
subtopics of the project, `listed` the list in redis, `redis` the answers by
`CacheKey`. `req[c]` is the request of a web process: one task for each method it
calls, with its step, the topics it was given and, for each query answered, the
lake as it was then. Those snapshots stand for the answers of the data lake:
`ValueOf` takes from them the counts that the code receives, and properties compare
the result with them. `subject` is the kind of request a behaviour is about: kinds share no
key of redis, except totals and contacts, which are together.

| Action | Code |
|---|---|
| `Start` | the endpoints; `TopicsRequests`, ..., `CustomRequests` are what each asks |
| `ReadList`, `FetchList`, `FetchCut`, `KeepList` | `get_topics`: redis, Nexus page by page, a page that fails, redis |
| `LookUp`, `Query`, `Save`, `Fail` | a method of the data lake service: `_get_cached_results`, its queries in threads (or one `After` the other), `_save_results_to_cache`, an error |
| `CreateTopic`, `CreateSubtopic`, `DeleteTopic`, `DeleteSubtopic`, `ClearList`, `EditorDies` | the editing of topics: Nexus, then the deletion of the list |
| `Record`, `Expire`, `ExpireList` | traffic and the lifetimes in redis |

`Distribution`, `Totals`, `Funnel`, `Groups`, `Absolute` and `Nps` are the
serializers and sums. An answer that python takes as false (zero, an empty
dictionary) is written to redis and never used (`Truthy`). So the lowest amount is
sent for again as long as any amount is zero, and the others as long as all are: the two
cases of `AbsolutesAreOwn`.

## 3. Runs

| Run | Instance | Shows |
|---|---|---|
| `reports_single_slot` | 1 pod, 1 slot, 1 web process, 2 projects, 2 reports, 1 stop, first requester deleted | `OneActivePerProject`, `TerminalIsFinal`, `OldestFirst`, the refinement `LifecycleSpec`, `PendingIsStarted` |
| `reports_two_pods` | 2 pods of 1 slot, 1 report, 1 stop | `OwnedWhileInProgress`, `TimeoutSparesFreshRuns`, `NeverStuck`, `InterruptionIsResumed` |
| `reports_limit` | 2 slots | violation of `ConcurrencyLimit` |
| `pages_batches` | up to 7 events in pages of 2, limit 4 pages, 2 threads, 1 run lost | `Ordered`, `Complete`, `NoGapWhenCounted`, `WithinPageLimit` |
| `status_cache` | 2 readers, 2 writers, 1 report, 1 failed deletion | `BoundedStaleness`, `RecoversFreshness` |
| `onboarding` | 1 project, with or without the switch, 1 consumer, 1 slot, 1 fault or 1 release | `AckedMeansComplete`, `AllowedMeansAccepted`, `IndexedInTheEnd` |
| `whatsapp_numbers` | 1 project and the main one, 2 numbers, 2 WABAs, 5 webhooks, 2 of which may die | `NumbersKept` (none lost or doubled), `MainHasCopies`, `MigrationIsWhole` |
| `whatsapp_favourites` | a saved number with a favourite, 1 webhook, 2 additions, 3 templates, limit 1, 1 fault | `FavouritesBounded`, `FavouritesArrive` |
| `templates_and_orders` | 3 days, 1 request at a time, at most 1 message per WABA and day, 2 answers in redis; 7 orders, 2 a page, 2 pages a window, 3 at most, 2 late | `TotalsAreTraffic`, `PointsAddUp`, `CountedOnce`, `MissedBounded`, `PageIsOfOneRange` |
| `conversation_metrics` | 1 dashboard process, 1 editor of topics, 2 topics and a subtopic, 2 facts, 1 fault | `TopicsAddUp` (subtopics too), `TopicsAreNamed`, `PartsAgree` (totals, funnel, scores), `AnswersAreOwn` (labels, absolute numbers) |
| `human_support` | 2 sectors with a queue each, 2 tags, 2 rooms, 1 deletion, 2 agents, 2 days, 1 request | `AttendanceMissesNothing`, `DayOfProject`, `WalkVisitsAll`, `BreakdownsAgree` |
| `report_worksheets` | 13 plans, both formats, standard and streaming, 3 contacts, 2 facts recorded twice in all, 2 runs, 1 fault | `SheetsAgree`, `SectionsAnswered`, `DiskIsClean`, `ResultsDropped` |

**Bounds.** `MaxReports`: two reports are needed for an order and for two in one
project, and no step relates three. Two slots give every pairwise race; the
theorems cover any number. `TaskTimeLimit = 1`, `ReportTimeout = 2` keep the
order of the real values (30 minutes and a longer timeout) with one tick to
spare. `MaxStops = 1` is one stop or crash, at any step. `MailCap` is where the
mail counters stop: 2 where a second mail must be seen. Seven events in pages of
two give a short last page, four pages at the limit, and batches of two. The
cached entry lives two ticks and a reader takes at most one.

In `onboarding`, one project goes through every handler; `MaxTroubles = 1` allows
one failure or one release (which may itself die), at any step. `MaxRows = 2` lets
an activation fail while another waits, `QueueCap = 1` because a second copy of a
task that waits finds what the first did. `Limit` and `Retries` are one, the
strictest. With two projects and a limit of one, failed activations of one may
keep the other waiting, since they stay the oldest: the fairness would then have
to let each be accepted, which it does per project.

In `whatsapp_numbers`, five webhooks give a save of each number, a migration
there and back, and a removal; two numbers on one WABA are what a migration moves
together. Numbers and WABAs are symmetric, as no property is a liveness property. One webhook
is served at a time and webhooks name one project only, not the main one: with
two at once, or with two projects on a WABA, dashboards may be doubled or the
main project's copies removed (section 4). In `whatsapp_favourites`, three
templates for a limit of one are the first number that passes the bound; symmetry
is off because of liveness.

In `templates_and_orders`, three days put a migration before, inside and after a range
that has ended; one message in a day tells a missing day from a doubled one; two
answers in redis are those of both WABAs. Requests share nothing but redis, which
may hold what any earlier request left there. `Send` lets traffic reach the new
WABA only once the migration is recorded: a webhook that comes a day late loses
what was sent in between, as the docstring of the cutover rule accepts. A behaviour
starts with the templates, and no orders in its ranges, or with the traffic sent and
orders at the days of a layout: some in the range or in the period before, more than
one window holds and more than the limit of pages. Two late orders shift every page. A
page is the last request of a behaviour, since only redis joins requests, and what redis
may hold at the start is given. Meta's moves come before the page goes on to its orders,
which do not depend on them, and orders are invoiced only while a listing reads.
No layout has as many orders of one date as a window holds: with those the next
window would be the same again (the code asks with fractions of a second).

In `human_support`, days of two instants and offsets of one put both midnights and an
instant on each side of them into four instants. Two rooms give any two statuses and a
list with a second page; two queues, two tags of one sector and one deletion make a join
that doubles a room, and a room whose queue, sector or tag is gone. Attendance is asked
for with any token for tags too: when the last tag is deleted after `__all__` was
expanded, the query keeps a clause that no room meets, so `AttendanceMissesNothing`
excepts that case (`TagsVanished`).

In `report_worksheets`, each plan puts together sections that share something: events,
a flow, a key, a flag; or widgets whose names begin alike, in two pairs that make each
kind of clash. Two facts a plan is about may
be recorded at any step, twice in all, so each may be repeated, or both
recorded, between any two worksheets; three contacts answer a survey in pages of one,
one of them again. Four as the page limit leaves two pages of answers, so the limit
is reached. Two runs and one fault are a run cut short at any step and the one that
resumes it.

In `conversation_metrics`, requests meet only in redis, where an answer may be of
any age up to its expiry, so one process that asks again and again finds what
another could have left; the threads of its request are interleaved. Two facts are
enough for a difference between any two queries, a topic and its subtopic, or two
agents under one key; an amount of zero next to one that is not tells the lowest from
the highest. Contacts and totals are asked together of conversations of one class, which
may be recorded twice; totals alone of every class. The
topics asked for are those of the type `ai`; the other type differs in its key and
in `OfType`. One fault is a failed query, a page of topics that fails, or an
editor that dies before it has dropped the list.

**Fairness.** In `LiveSpec` of the reports: celery beat queues both tasks for
ever, so each slot runs each of them infinitely often if it is infinitely often
idle (strong fairness, since the other task may always be first); a task's own
steps are weakly fair, except those that wait for other services, which only the
hard limit is sure to end (`KillLate`); a stopped pod is ended and restarted by
the cluster. `TimelyNext` adds one assumption: celery's limit of half an hour
does not strike a task in one of its first database round trips or in the loop of
`timeout_reports`. Without it a behaviour may kill every task before it claims
anything, and nothing is ever started. A crash may still come anywhere. In the
status cache, time passes and a reader that has queried ends.

In `ProjectOnboarding`, consumers, tasks and requests that have begun go on (weak
fairness); each kind of task in the queue gets a slot (strong fairness, as other
tasks take slots too); beat queues `activate_indexer` for ever; the front end lists
the dashboards again and again; and neither Nexus nor the webhook refuses a project
for ever (strong fairness of `AskNexus` and `PostAccepted`): without the last no
code could index it. In `WhatsAppIntegration`, tasks are started and go on; webhooks
and users need not, for a move does not wait for them. In `ConversationMetrics`, a
request's own steps go on, the topics are asked for again and again, and what redis
holds of topics expires; recording and editing need not happen.

`CHECK_DEADLOCK FALSE` is set in `pages_batches`, where the retrieval ends, and in
the runs of onboarding, WhatsApp, human support, worksheets, and templates and orders,
which stop when every bounded input is used.

## 4. Findings

* `ConcurrencyLimit` (`tasks.py:60`): with two slots more than the configured
  number of reports are generated at once, since a report claimed for the first
  time has a config without the key `interrupted`, which the SQL does not count.

Other divergences have no run; properties that meet them except them by name.

*Reports and projects.* The answer "no" of Nexus is cached as the text `False`, which
comes back as bytes and counts as yes (`update_nexus_multi_agents_status.py:36`): a
second check within ten seconds makes the project active, which `ProjectOnboarding`
follows (`Truthy`). The mail of a report may fail, and the report becomes READY all the
same (`reports/services.py:802`). `OneActivePerProject` holds with one web process; two
POSTs may both find no active report (`views.py:103`) and both queue one. The same shape
recurs where a look-up guards a creation: two tasks add one project to the indexer's
queue twice (`indexer_activation.py:94`), two conversations dashboard tasks create two
dashboards (`dashboards/models.py:72`), and two webhooks of one project double its
numbers (`save_whatsapp_integration.py:84`). A second release of a project may read what
the first has saved and not yet restored, and write it back when both are refused
(`viewsets.py:305`): the project stays allowed. The runs state the number of processes
with which their properties hold. A removal names a WABA, so removing it from one
project deletes the main project's copies of another project's numbers on the same WABA
(`remove_whatsapp_integration.py`). A migration that finds other numbers on the old WABA
does not save the number it names (`save_whatsapp_integration.py:131`). The page limit
is compared with `>=`, with a number of pages in the counted mode and with a page number
counted from one in the other, so both give at most `page_limit - 1` pages
(`WithinPageLimit` is the exact bound). A GET that queried before a save may store its
answer after the deletion, so the cache may lie for up to the time to live plus one
request; `BoundedStaleness` is what holds.

*Templates and orders.* The cached analytics of Meta have a key that leaves
out whether data points were wanted (`clients.py:120`), so an answer kept for the
internal endpoint gives the front end no points and sums over WABAs count zero;
`PointsAddUp` and `TotalsAreTraffic` except such answers. The last orders of a listing may
be missed: each window reads the oldest order of the one before again, and the pages are
those of the first count (`sources/orders/clients.py:313`). A page that fails before an
answer is bound makes the error handler itself raise (259). The period before a range of
N days is moved by N - 1, so it shares a day with the range, and that of a single day is
the day itself, with no difference ever (`orders_service.py:55`). After any error of the
templates but Meta's own, the abandoned cart shows zeros and keeps them for an hour
(`abandoned_cart.py:114`). Conversions ask the WABA named only, and lose the traffic of
the one before its migration.

*Human support.* Today is the date of UTC at the midnight of the project
(`human_support/services.py:103`), so near midnight the day is another one; the ratings
use the project's. Without a chip the volumes count every room there has ever been. A token
`__all__` that expands to nothing filters nothing, the status of agents is asked of the
first sector only, and a limit sent with the volumes is ignored. The agents of version 1
are cut into pages twice and end with the first. Deleted queues stay in the volumes by
queue.

*Worksheets.* Widgets of type TRANSFERRED are offered and then refused by the serializer.
Two surveys on one flow and field share a key, so one gets the rows of the other.
Names are cut at 31 characters, numbered, and cut again, but a number is looked up under
the name before the second cut (`file_processors.py:135`). So a long name that two widgets
share gets the number that another name of the same beginning has already got: that of a
third widget, of another pair, or of a section. More than twenty widgets of one name raise.
The docstring promises a unique name; `NamesClash` is when it is not one, and the proof of
`FailsOnlyForACause` shows that nothing else is: an earlier form that named only three
widgets of one name was refuted by the proof, and then by TLC, with two pairs. The limit
of pages leaves a survey `page_limit - 2` pages of answers. A standard report leaves out
Resolutions when it has no events; a streaming one does not. The files of runs that are
interrupted or killed stay on the worker, and so do those of a CSV whose rows raise.

*Dashboards* (not modelled). Making the default dashboard the default once more unsets it
(`dashboards/serializers.py:67`); deleting the default looks for a successor by the name
of version 1 only (`dashboards/models.py:96`); an edit saves the whole row and may revive a
dashboard deleted meanwhile.

*Conversations metrics.* The queries that make up one answer of the dashboard are not
taken at one moment, and the answer is kept for an hour. A conversation recorded between
the query by topic and the query by subtopic makes OTHER inside its topic too small,
even negative; a first purchase recorded between the sample and the count of the funnel
leaves orders without a currency. `TopicsAddUp` and the parts `TotalsCountOnce` and
`FunnelAgrees` of `PartsAgree` therefore speak of answers whose queries saw the same
lake. Contacts, returning contacts and totals have a key each, so their ages may differ
by an hour: no property relates them.

## 5. Proofs

All proofs are checked by `tlapm`, from the assumptions named in each module.

**ReportProofs**, from `HostsAssumption`, `ProjectsAssumption`,
`BoundsAssumption`, `OrphansAssumption` and `TimeAssumption` (the hard limit is
shorter than the report timeout). The properties are not inductive; the
invariant `IndInv` adds

* `NumberedInv`: the rows inserted are exactly `1..created`;
* `HeldInv`: what a slot holds at each step, and when its copy is that of a
  PENDING row;
* `BegunInv`: a row past PENDING, or held by a running slot, has an owner and a
  start (`Begun` is stable, hence the lemma `EachRowAdvances`);
* `OwnerInv`: marks carry owned configs, so that saving one keeps the owner;
* `AgeInv`: a row that a first run started is no older than the run's task,
  and no sweep has listed it;
* `OrderInv`: when a slot holds a report it read as PENDING, no older report is.

From it follow `TypeCorrect`, `OwnerIsKnown` (`OwnedWhileInProgress`),
`FirstRunsAreSafe` (`TimeoutSparesFreshRuns`) and `StartedInOrder`
(`OldestFirst`), for any number of pods, slots, web processes and reports.

With one slot (`OneSlot`, a hypothesis) three more invariants are kept, together
`SingleInv`: `OwnPodInv`, that every claim and mark names the pod of the slot, so that the
query for interrupted reports, which wants another pod, never finds one; `StageInv`, what
the copy of a task says of the row at each of its steps; and `MailsInv`, that no mail comes
before its status or twice. They give `SingleSlotLifecycle`, the refinement of
`ReportLifecycle` action by action (`LifecycleSpec`), and `EndingIsFinal`
(`TerminalIsFinal`). With two slots both are false: a copy read as PENDING may be saved
after another slot has ended the report, and sets it back to IN_PROGRESS. With one web
process as well (`OneWeb`), `FreeInv` says that the project a POST has checked has no
active report, which gives `OneAtATime` (`OneActivePerProject`); two POSTs at once refute it.

About `DatalakePages`, in the same module, `PagesInv`: `CountInv` (pages cover the
count), `OutInv` (what was given is sorted, and complete up to the page given),
`CacheInv`, `BatchInv` (each page fetched is full or the last), `SequentialInv` and
`IdleInv`; theorems `PagesTypeCorrect`, `InOrder`, `NothingMissed`, `NoGap`, `Bounded`.
About `ReportStatusCache`, `StalenessInv`: `ReaderInv` (what a reader has seen was true
no longer ago than it waits), `EntryInv` (the same of an entry, by its remaining life) and
`TrueInv`; theorems `CacheTypeCorrect` and `StalenessIsBounded`, for any number of readers,
writers and reports and any failures.

**OnboardingProofs**, from `ProjectsAssumption` and `BoundsAssumption`. The
invariant `IndInv` adds to the types what a process may rely on after it has let
others run:

* `ConsumerInv`: what has been created by the time a consumer reaches a step (rows
  are never deleted, `ConsumersUndisturbed`);
* `JobInv` and `ReleaseInv`: a running task names a project, a release has read a
  row that exists, so writing it back deletes nothing;
* `RunInv`: the activations left to the hourly task are still in the queue.

From it follow `TypeCorrect`, `AcknowledgedIsComplete` (`AckedMeansComplete`), and
with two more invariants each: `AllowedIsAccepted` (`AllowedMeansAccepted`), where
`AcceptedInv` says that the run saves what the webhook accepted and `RestoreInv`
that what a release writes back was accepted; and `WaitingIsUnique` (`WaitsOnce`),
where `AddInv` says that a task about to add a project has found it not waiting.
The first two hold for any number of processes, `AllowedIsAccepted` for one
release at a time and `WaitingIsUnique` for one slot: both assumptions are
hypotheses of the theorems, and are needed (section 4).

`WaitsOnce` is proved and in no run: the theorem says all the run of one slot could.

**WhatsAppProofs**, from the assumptions of the module. `TypeInv` adds to the types what
a webhook, an addition and a task at work know (rows are never removed, so an index stays
one). `PendingInv` counts the favourites of a dashboard together with the users and tasks
about to add one: a check passes only below the limit, and each of them may pass it
once, whence `LimitIsNearlyKept` (`FavouritesBounded`), for any number of users and
slots. `NumbersInv` is for one process that serves webhooks (`OneProcess`): a number has one
live dashboard at most, and one at least unless the webhook at work is between its
deletion and creation or a ghost says it was lost; what a migration has left on the old
WABA is still in its list. It gives `NumbersAreKept` (`NumbersKept`) and
`MigrationsAreWhole` (`MigrationIsWhole`). `CopyInv` follows the copies of the main project
through the phases of a webhook and gives `CopiesAreKept` (`MainHasCopies`), if moreover
one project other than the main one has numbers (`OneCaller`). Both hypotheses are needed:
no transaction encloses a webhook, so two of one number double it, and a removal for one
project deletes the copies of another on the same WABA (section 4).

**HumanSupportProofs**, from the assumptions of the module. `FilterInv` says what has become
of a filter once its token is expanded; `StayedInv`, that the filters so far find the rooms
that stayed, though sectors, queues and tags may be deleted between the queries;
`CountedInv`, that such a room was counted or will be by the query to come, which rests on the
order of the queries; `HeadingInv`, that a room that did not move is under one heading;
`FinishedInv` and `RatingsInv`, which instants were asked for. The theorems are
`TypeCorrect`, `AttendanceIsComplete` (`AttendanceMissesNothing`) and `UndatedIsToday`
(`DayOfProject`), for any rooms, filters, offsets and lengths of the day.

`WalkInv` is about a browser between two pages of a list: what stayed and was on no page
has its place at the offset of the next one or after it, unless something has left; what
was on one has its place before, unless something has come. A place is the number of rows
that come first, so it moves only with what comes and goes (`PlaceGrows`). It gives
`WalksAreComplete` (`WalkVisitsAll`). `BreakdownsAddUp` (`BreakdownsAgree`) needs no new
invariant: each breakdown is a partition of what a count counts, by queue, by hour or
by tag, and sums over the parts add up (`SumParts`).

**ReportWorksheetsProofs**, from the assumptions of the module, for any plan, events,
contacts and number of runs. `IndInv` follows the rows of a worksheet:

* `RedisInv`, `SharedInv`: what redis and the spool hold was found in the lake since the
  report was first run, and nothing of it is missing (`Found`);
* `WalkInv`: a walk has the answers of every contact it has passed, though contacts answer
  again and move ahead of it;
* `SheetsInv`: a worksheet read has such rows, all from one retrieval if its events are
  shared; in a standard run all are read when they are added;
* `TodoInv`, `DoneInv`: each section and live widget is to be built or has its worksheet;
* `DiskInv`, `KeysInv`: each file belongs to the run at work or is excused, and each key
  the run has written is noted;
* `ReportInv`: the file mailed is made of such worksheets.

It gives `TypeCorrect`, `CleanDisk` (`DiskIsClean`), `NothingCached` (`ResultsDropped`),
`WhatWasAsked` (the part `EachAnswered` of `SectionsAnswered`), and, as nothing is mailed
before the report is ready (`Unsent`), `SheetsAgreeAlways` (`SheetsAgree`).

That a report fails only for a cause takes three more. `NamedInv` says which names a
workbook has given: a title, or its beginning with a number at most twenty. When a name is
refused, either its number was looked up under another name than the one it got, and then
two pairs of names clash; or all twenty numbers are taken, and by the pigeonhole principle
(`CountersRunOut`) more than twenty widgets have the name. `LengthInv` says that every page
a walk has left was full, so its page number bounds the contacts from below. `CauseInv`
is the property, strengthened to reports still at work. They give `FailsOnlyForACause` (`FailsForACause`) and,
with `WhatWasAsked`, `SectionsAreAnswered` (`SectionsAnswered`).

**TemplatesAndOrdersProofs**, from the assumptions of `MetaAnalytics`, `VtexOrders` and
`TemplatesAndOrders`, for any days, traffic, layout of orders, sizes of pages and windows,
and number of requests at once. `PagesInv` has a part for each module.

* `MetaInv`: an answer in redis is all that was sent on days that are over (`CacheInv`), and
  what a request has merged, with the periods it has still to fetch, is the traffic from the
  days asked for, no WABA counted before or after its turn (`AskOk`). It gives
  `TotalsAreTrafficAlways` and `PointsAddUpAlways`.
* `ListingInv`: what a listing counts is the set of ids it has seen (`Counted`), whence
  `OrdersCountedOnce` (`CountedOnce`). `Reading` counts the rows read: those behind the
  window, and the places of the pages read in it, are at most the orders seen and those read
  again, though orders invoiced meanwhile shift every page. `Once` says, when none was and
  they are spread, that an order is read twice only at a date where a window ended. They
  give `FewAreMissed` (`MissedBounded`).
* `PageInv`: the answer a page waits for is about the range of the page, or of the period
  before it at that step (`Linked`), whatever earlier requests have left in redis. It gives
  `PagesAreOfOneRange` (`PageIsOfOneRange`).

**ConversationMetricsProofs**, from `MetricsAssumption`, for any topics, conversations,
ratings and clients. `IndInv` is `SubjectInv`, `NexusInv`, `RedisInv` and `RequestInv`: each
value, in redis or with a client, is what its method makes of readings of the lake that are
kept with it (`Answer`). That an answer found in redis is of the method, agent and key
asked for is the lemma `KeyTells`: two requests that may meet and have the same key are the
same. From it follow `TypeCorrect`; `SharesAddUp` (`TopicsAddUp`), as conversations are
partitioned by listed topic and OTHER (`TopicsCounted`), and those of a topic by subtopic
(`SubtopicsCounted`); `PartsAlwaysAgree` (`PartsAgree`), where every score from 0 to 10 has
one class; and `AnswersAlwaysOwn` (`AnswersAreOwn`), from `GroupsCounted` and `AbsoluteTells`.

**FiniteSumProofs**: sums over finite sets are folds with a recursive function inside, and
no induction rule can be applied to an operator here. The lemmas unfold the recursion once
(`SumsEquation`) and argue from a smallest set for which a claim fails, which exists since
inclusion is well founded on finite sets (`SmallestSubset`, from `WFMin`). They say what a
sum of one element more is, of a union, of equal functions and of parts (`SumElement`,
`SumUnion`, `SumEqual`, `SumParts`), and that finite sets of numbers have a least and a
greatest.

**What the proofs changed.** Some statements that TLC had found to hold on small instances
were false, or had no meaning, beyond them, and were mended:

* `WalkVisitsAll` looked at what had left or come between two pages. A tag deleted between
  the expansion of a token and its query changes the list within one; `Followed` now notes it.
* The second bound of `MissedBounded` needs `Spread`: with as many orders of one date as a
  window holds, the listing reads the same window again and again.
* `AbsolutesAreOwn` was false of the lowest amount when some amounts are zero and some are not.
* `Absolute` and `Truthy` had cases that overlap, where `CASE` may choose either; TLC takes
  the first. They are disjoint now.

**Only model-checked.** Liveness, which is out of reach of the prover: `PendingIsStarted`,
`NeverStuck`, `InterruptionIsResumed`, `RecoversFreshness`, `IndexedInTheEnd`,
`FavouritesArrive`, `TopicsAreNamed`. And the violation of `ConcurrencyLimit`. Every
invariant and action property of the passing runs is a theorem.

## 6. Not modelled, and the plan

Left out on purpose: token checks and permissions (no state beyond caches), the wording,
labels and layout of worksheets and mails, feedback (one check and one insert), the
commerce proxy (one request), VTEX account linking (one look-up and one save), the query
builders that widgets call for agents, queues, sectors and flow runs (one query each).
Of the conversations metrics: the crosstab (never kept in redis), scores from flow runs,
and percentages. Of Meta analytics: button rates and pricing categories, which are
arithmetic on one answer.

Planned, in this order:

1. `DefaultDashboard`: the default of a project, soft deletion, generated dashboards.
2. Successive migrations of a WABA, of which only the last is kept; the widgets that
   follow a migration; the other consumers (permissions, VTEX accounts, main projects).
