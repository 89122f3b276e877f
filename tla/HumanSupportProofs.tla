-------------------------- MODULE HumanSupportProofs --------------------------
(***************************************************************************)
(* For any sectors, queues, tags, requests and number of rooms, and any    *)
(* offset and length of the day: the attendance card misses no open room,  *)
(* an answer without dates is about the day of the project, following the  *)
(* pages of a list visits what stays on it, once, and breakdowns add up.   *)
(***************************************************************************)
EXTENDS HumanSupport, FiniteSumProofs

-----------------------------------------------------------------------------
(* The inductive invariant.                                                *)

RoomRecords == [queue: Queues, tags: SUBSET Tags, taken: BOOLEAN, active: BOOLEAN,
                created: 0..MaxNow, ended: 0..MaxNow]

\* The rooms fit the bound, and none is asked about before it is there.
RoomsInv == Len(rooms) <= MaxRooms /\ req.at <= now

\* Which kinds of request reach which steps.
KindInv ==
    /\ req.kind = "none" <=> req.step = "idle"
    /\ req.step = "page" => req.kind \in Lists

\* The dimension has been expanded.
Expanded(d) ==
    /\ req.step \notin {"idle", d}
    /\ d = "queues" => req.step # "sectors"
    /\ d = "tags" => req.step \notin Dimensions

\* An expanded filter is what was chosen, or at least what is listed now; one
\* that is not expanded yet, and the dates, are what was chosen.
FilterOf(d, chosen, used) ==
    IF Expanded(d)
    THEN All \notin used /\ IF All \in chosen THEN Listed(d) \subseteq used ELSE used = chosen
    ELSE used = chosen
FilterInv ==
    /\ FilterOf("sectors", req.choice.sectors, req.filters.sectors)
    /\ FilterOf("queues", req.choice.queues, req.filters.queues)
    /\ FilterOf("tags", req.choice.tags, req.filters.tags)
    /\ req.filters.start = req.choice.start /\ req.filters.end = req.choice.end

\* The rooms that stayed are still what the request asks for, and the filters
\* already expanded find them.
StayedInv ==
    req.kind = "attendance" =>
        /\ watch.stayed \subseteq Watched
        /\ \A r \in watch.stayed :
            /\ Expanded("sectors") => Clause({SectorOf[rooms[r].queue]}, req.filters.sectors)
            /\ Expanded("queues") => Clause({rooms[r].queue}, req.filters.queues)

\* A room that stayed was counted, or is still to be counted in progress.
CountedInv ==
    (req.kind = "attendance" /\ ~TagsVanished) =>
        \A r \in watch.stayed :
            /\ req.step = "in_progress" => req.counts["is_waiting"][r] > 0 \/ r \in Ongoing
            /\ req.step \in {"finished", "done"} =>
                 req.counts["is_waiting"][r] > 0 \/ req.counts["in_progress"][r] > 0

\* A room that did not move still is what it was counted as.
HeadingInv ==
    req.kind = "attendance" =>
        \A r \in Ids \ watch.moved :
            /\ req.counts["is_waiting"][r] > 0 => r \in Waiting
            /\ req.counts["in_progress"][r] > 0 => r \in Ongoing
            /\ req.counts["finished"][r] > 0 => r \notin Waiting \cup Ongoing

\* What was counted as finished is what had been closed by then.
FinishedInv ==
    (\/ req.kind = "attendance" /\ req.step = "done"
     \/ req.kind = "analysis" /\ req.step \in {"metrics", "done"}
        /\ NoDate \in {req.choice.start, req.choice.end}) =>
        \A r \in 1..MaxRooms :
            req.counts["finished"][r] > 0 <=>
                r \in Closed(StartOfDay(req.at)..req.at) /\ Matches(req.filters, r)

\* The ratings are asked for a day of the project.
RatingsInv ==
    (/\ req.kind \in {"csat_ratings", "csat_score"} /\ req.step = "done"
     /\ {req.choice.start, req.choice.end} = {NoDate}) =>
        req.from = Midnight(LocalDate(req.at)) /\ req.to = LastSecond(LocalDate(req.at))

IndInv == TypeOK /\ RoomsInv /\ KindInv /\ FilterInv /\ StayedInv /\ CountedInv
          /\ HeadingInv /\ FinishedInv /\ RatingsInv

-----------------------------------------------------------------------------
(* Lemmas about the operators.                                             *)

\* A number lies in the multiple of d that its quotient names, and in no other.
LEMMA QuotientBounds ==
  ASSUME NEW a \in Int, NEW d \in Nat \ {0}
  PROVE  (a \div d) \in Int /\ (a \div d) * d <= a /\ a < ((a \div d) + 1) * d
OBVIOUS

LEMMA QuotientIsUnique ==
  ASSUME NEW a \in Int, NEW d \in Nat \ {0}, NEW q \in Int, q * d <= a, a < (q + 1) * d
  PROVE  a \div d = q
OBVIOUS

\* The instants from midnight to the last second of a date are those of that date.
LEMMA DayIsWindow ==
  ASSUME TypeOK, NEW t \in Nat, NEW d \in Int
  PROVE  /\ Midnight(d) \in Int /\ LastSecond(d) \in Int /\ LocalDate(t) \in Int
         /\ t \in Midnight(d)..LastSecond(d) <=> LocalDate(t) = d
<1>1. tz \in Int /\ Day \in Nat \ {0}
  BY BoundsAssumption DEF TypeOK
<1>2. d * Day \in Int /\ (d + 1) * Day \in Int /\ t + tz \in Int
  BY <1>1
<1>3. LocalDate(t) \in Int /\ LocalDate(t) * Day <= t + tz /\ t + tz < (LocalDate(t) + 1) * Day
  BY <1>1, <1>2, QuotientBounds DEF LocalDate
<1>4. d * Day <= t + tz /\ t + tz < (d + 1) * Day => LocalDate(t) = d
  BY <1>1, <1>2, QuotientIsUnique DEF LocalDate
<1> QED BY <1>1, <1>2, <1>3, <1>4 DEF Midnight, LastSecond

\* What TypeOK says of each variable.
LEMMA RoomTypes ==
  ASSUME TypeOK
  PROVE  /\ rooms \in Seq(RoomRecords) /\ Len(rooms) \in Nat /\ now \in Nat /\ MaxRooms \in Nat
         /\ \A r \in Ids : rooms[r] \in RoomRecords
<1>1. rooms \in Seq(RoomRecords) /\ now \in Nat
  BY BoundsAssumption DEF TypeOK, RoomRecords
<1> QED BY <1>1, BoundsAssumption DEF Ids

LEMMA RequestTypes ==
  ASSUME TypeOK
  PROVE  /\ req.kind \in {"none"} \cup Lists \cup Questions /\ req.step \in Steps
         /\ req.choice \in Filters /\ req.filters \in Filters /\ req.at \in Nat
         /\ \A c \in Counts : \A r \in 1..MaxRooms : req.counts[c][r] \in Nat
         /\ watch.stayed \subseteq 1..MaxRooms /\ watch.moved \subseteq 1..MaxRooms
<1>1. Cardinality(Tags) \in Nat
  BY NamesAssumption, FS_CardinalityType
<1> QED BY <1>1, BoundsAssumption DEF TypeOK

\* A room is counted just when the filters find it.
LEMMA TimesOfMatch ==
  ASSUME TypeOK, NEW f \in Filters, NEW r \in Ids
  PROVE  /\ Times(f, r) \in 0..Cardinality(Tags) \cup {1}
         /\ Times(f, r) > 0 <=> Matches(f, r)
<1> DEFINE tags == rooms[r].tags \cap f.tags
<1>1. tags \subseteq Tags
  BY RoomTypes DEF RoomRecords
<1>2. IsFiniteSet(tags) /\ Cardinality(tags) \in Nat /\ Cardinality(Tags) \in Nat
      /\ Cardinality(tags) <= Cardinality(Tags) /\ (Cardinality(tags) = 0 <=> tags = {})
  BY <1>1, NamesAssumption, FS_Subset, FS_CardinalityType, FS_EmptySet
<1>3. CASE ~Matches(f, r)
  BY <1>2, <1>3 DEF Times
<1>4. CASE Matches(f, r) /\ f.tags = {}
  BY <1>2, <1>4 DEF Times
<1>5. CASE Matches(f, r) /\ f.tags # {}
  <2>1. tags # {}
    BY <1>5 DEF Matches, Clause
  <2>2. Times(f, r) = Cardinality(tags)
    BY <1>5 DEF Times
  <2> QED BY <1>2, <1>5, <2>1, <2>2
<1> QED BY <1>3, <1>4, <1>5

LEMMA ListedIs == /\ Listed("sectors") = Sectors \ deleted
                  /\ Listed("queues") = Queues \ deleted
                  /\ Listed("tags") = Tags \ deleted
BY DEF Listed, SectorsList, QueuesList, TagsList

\* The filters with every token expanded.
LEMMA ResolvedFilters ==
  ASSUME NEW f \in Filters
  PROVE  /\ Resolved(f) \in Filters
         /\ Resolved(f).sectors = IF All \in f.sectors THEN Sectors \ deleted ELSE f.sectors
         /\ Resolved(f).queues = IF All \in f.queues THEN Queues \ deleted ELSE f.queues
         /\ Resolved(f).tags = IF All \in f.tags THEN Tags \ deleted ELSE f.tags
         /\ Resolved(f).start = f.start /\ Resolved(f).end = f.end
BY ListedIs DEF Resolved, Filters, Dimensions

-----------------------------------------------------------------------------
(* What an event of Chats may do to the rooms.                             *)

ChatsNext == \/ OpenRoom \/ TimePasses
             \/ \E r \in Ids : TakeRoom(r) \/ ReturnRoom(r) \/ CloseRoom(r)
             \/ \E x \in Deletable : Delete(x)

\* Only open rooms change; they keep their queue, leave an agent only to go back
\* to it, and are closed at the instant of the event.
Progress(r, before, after, back) ==
    \/ after = before
    \/ /\ before.active /\ after.queue = before.queue
       /\ before.taken /\ r \notin back => after.taken
       /\ ~after.active => after.ended = now + 1

EventStep(rms, del, back) ==
    /\ Event(rms, del, back)
    /\ rms \in Seq(RoomRecords) /\ Len(rms) >= Len(rooms) /\ Len(rms) <= MaxRooms
    /\ deleted \subseteq del /\ del \subseteq Sectors \cup Queues \cup Tags
    /\ \A r \in Ids : Progress(r, rooms[r], rms[r], back)
    /\ \A r \in (1..Len(rms)) \ Ids : rms[r].active

\* Every event of Chats is such a step.
LEMMA ChatsSteps ==
  ASSUME TypeOK, RoomsInv, ChatsNext
  PROVE  \E rms, del, back : EventStep(rms, del, back)
<1> USE RoomTypes
<1>a. now + 1 \in 0..MaxNow /\ 0 \in 0..MaxNow /\ deleted \subseteq Sectors \cup Queues \cup Tags
  <2>1. now < MaxNow
    BY DEF ChatsNext, OpenRoom, TimePasses, TakeRoom, ReturnRoom, CloseRoom, Delete, Event
  <2> QED BY <2>1, BoundsAssumption DEF TypeOK
<1>1. CASE OpenRoom
  <2>1. PICK q \in Queues :
          Event(Append(rooms, [queue |-> q, tags |-> {}, taken |-> FALSE, active |-> TRUE,
                               created |-> now + 1, ended |-> 0]), deleted, {})
    BY <1>1 DEF OpenRoom
  <2> DEFINE room == [queue |-> q, tags |-> {}, taken |-> FALSE, active |-> TRUE,
                      created |-> now + 1, ended |-> 0]
             rms == Append(rooms, room)
  <2>2. room \in RoomRecords /\ room.active
    BY <1>a DEF RoomRecords
  <2> HIDE DEF room
  <2>3. /\ rms \in Seq(RoomRecords) /\ Len(rms) = Len(rooms) + 1 /\ rms[Len(rooms) + 1] = room
        /\ \A r \in Ids : rms[r] = rooms[r]
    BY <2>2 DEF Ids
  <2>4. Event(rms, deleted, {}) /\ Len(rooms) < MaxRooms
    BY <1>1, <2>1 DEF OpenRoom, room
  <2> HIDE DEF rms
  <2>5. EventStep(rms, deleted, {})
    BY <2>2, <2>3, <2>4, <1>a DEF EventStep, Progress, Ids
  <2> QED BY <2>5
<1>2. CASE TimePasses
  BY <1>2, <1>a DEF TimePasses, EventStep, Progress, Ids, RoomsInv
<1>3. ASSUME NEW r \in Ids, NEW room \in RoomRecords, NEW back,
             Event([rooms EXCEPT ![r] = room], deleted, back), Progress(r, rooms[r], room, back)
      PROVE  EventStep([rooms EXCEPT ![r] = room], deleted, back)
  <2>1. [rooms EXCEPT ![r] = room] \in Seq(RoomRecords)
        /\ Len([rooms EXCEPT ![r] = room]) = Len(rooms)
    BY DEF Ids
  <2>2. \A q \in Ids : [rooms EXCEPT ![r] = room][q] = IF q = r THEN room ELSE rooms[q]
    BY DEF Ids
  <2> QED BY <1>3, <2>1, <2>2, <1>a DEF EventStep, Progress, Ids, RoomsInv
<1>4. ASSUME NEW r \in Ids, TakeRoom(r) PROVE \E rms, del, back : EventStep(rms, del, back)
  <2>1. PICK tags \in SUBSET Tags :
          Event([rooms EXCEPT ![r].taken = TRUE, ![r].tags = tags], deleted, {})
    BY <1>4 DEF TakeRoom
  <2> DEFINE room == [rooms[r] EXCEPT !.taken = TRUE, !.tags = tags]
  <2>2. [rooms EXCEPT ![r].taken = TRUE, ![r].tags = tags] = [rooms EXCEPT ![r] = room]
    BY DEF RoomRecords, Ids
  <2>3. room \in RoomRecords
    BY DEF RoomRecords
  <2>4. Progress(r, rooms[r], room, {})
    BY <1>4 DEF Progress, RoomRecords, TakeRoom, Waiting
  <2> QED BY <1>3, <2>1, <2>2, <2>3, <2>4
<1>5. ASSUME NEW r \in Ids, ReturnRoom(r) PROVE \E rms, del, back : EventStep(rms, del, back)
  <2> DEFINE room == [rooms[r] EXCEPT !.taken = FALSE]
  <2>1. Event([rooms EXCEPT ![r] = room], deleted, {r})
    BY <1>5 DEF ReturnRoom
  <2>2. room \in RoomRecords /\ Progress(r, rooms[r], room, {r})
    BY <1>5 DEF RoomRecords, Progress, ReturnRoom, Ongoing
  <2> QED BY <1>3, <2>1, <2>2
<1>6. ASSUME NEW r \in Ids, CloseRoom(r) PROVE \E rms, del, back : EventStep(rms, del, back)
  <2> DEFINE room == [rooms[r] EXCEPT !.active = FALSE, !.ended = now + 1]
  <2>1. Event([rooms EXCEPT ![r] = room], deleted, {})
    <3>1. [rooms EXCEPT ![r].active = FALSE, ![r].ended = now + 1] = [rooms EXCEPT ![r] = room]
      BY DEF RoomRecords, Ids
    <3> QED BY <1>6, <3>1 DEF CloseRoom
  <2>2. room \in RoomRecords /\ Progress(r, rooms[r], room, {})
    BY <1>6, <1>a DEF RoomRecords, Progress, CloseRoom
  <2> QED BY <1>3, <2>1, <2>2
<1>7. ASSUME NEW x \in Deletable, Delete(x) PROVE \E rms, del, back : EventStep(rms, del, back)
  BY <1>7, <1>a, NamesAssumption DEF Delete, EventStep, Progress, Ids, RoomsInv
<1> QED BY <1>1, <1>2, <1>4, <1>5, <1>6, <1>7 DEF ChatsNext

-----------------------------------------------------------------------------
(* An event of Chats keeps the invariant.                                  *)

\* What an event leaves of the rooms and of the request.
LEMMA EventFacts ==
  ASSUME IndInv, NEW rms, NEW del, NEW back, EventStep(rms, del, back)
  PROVE  /\ rooms' = rms /\ deleted' = del /\ now' = now + 1 /\ tz' = tz /\ req' = req
         /\ \A r \in Ids : r \in Ids' /\ Progress(r, rooms[r], rooms'[r], back)
                           /\ rooms[r] \in RoomRecords /\ rooms'[r] \in RoomRecords
         /\ \A r \in Ids' \ Ids : rooms'[r].active
         /\ Ids' \subseteq 1..MaxRooms
         /\ now' \in 0..MaxNow
<1>1. rooms' = rms /\ deleted' = del /\ now' = now + 1 /\ tz' = tz /\ req' = req /\ now < MaxNow
  BY DEF EventStep, Event
<1>2. Len(rooms) \in Nat /\ Len(rms) \in Nat /\ MaxRooms \in Nat /\ Len(rms) <= MaxRooms
      /\ Len(rms) >= Len(rooms) /\ rms \in Seq(RoomRecords) /\ now \in Nat /\ MaxNow \in Nat
  BY RoomTypes, BoundsAssumption DEF EventStep, IndInv
<1>3. \A r \in 1..Len(rms) : rms[r] \in RoomRecords
  BY <1>2
<1> QED BY <1>1, <1>2, <1>3, RoomTypes DEF EventStep, Ids, IndInv

LEMMA EventKeepsTypes ==
  ASSUME IndInv, NEW rms, NEW del, NEW back, EventStep(rms, del, back)
  PROVE  TypeOK' /\ RoomsInv' /\ KindInv'
<1>1. rooms' \in Seq(RoomRecords) /\ deleted' \subseteq Sectors \cup Queues \cup Tags
  BY EventFacts DEF EventStep
<1>2. watch' \in [stayed: SUBSET (1..MaxRooms), moved: SUBSET (1..MaxRooms), left: BOOLEAN,
                  arrived: BOOLEAN]
  <2>1. watch.stayed \subseteq 1..MaxRooms /\ watch.moved \subseteq 1..MaxRooms
        /\ watch.left \in BOOLEAN /\ watch.arrived \in BOOLEAN
    BY DEF IndInv, TypeOK
  <2>2. 1..Len(rms) \subseteq 1..MaxRooms
    BY EventFacts DEF Ids
  <2>3. CASE req.kind = "none"
    BY <2>3 DEF EventStep, Event, NoWatch
  <2>4. CASE req.kind # "none"
    BY <2>1, <2>2, <2>4 DEF EventStep, Event, Followed
  <2> QED BY <2>3, <2>4
<1>3. TypeOK'
  BY <1>1, <1>2, EventFacts DEF IndInv, TypeOK, RoomRecords
<1>4. RoomsInv'
  BY EventFacts, RoomTypes, RequestTypes DEF EventStep, IndInv, RoomsInv
<1> QED BY <1>3, <1>4, EventFacts DEF IndInv, KindInv

LEMMA EventKeepsFilters ==
  ASSUME IndInv, NEW rms, NEW del, NEW back, EventStep(rms, del, back)
  PROVE  FilterInv' /\ RatingsInv'
<1>1. \A d \in Dimensions : Expanded(d)' <=> Expanded(d)
  BY EventFacts DEF Expanded
<1>2. deleted \subseteq deleted'
  BY EventFacts DEF EventStep
<1>3. \A d \in Dimensions : Listed(d)' \subseteq Listed(d)
  BY <1>2 DEF Listed, Dimensions, SectorsList, QueuesList, TagsList
<1>4. FilterInv'
  BY <1>1, <1>3, EventFacts DEF IndInv, FilterInv, FilterOf, Dimensions
<1> QED BY <1>4, EventFacts DEF IndInv, RatingsInv, Midnight, LastSecond, LocalDate

\* A vanished expansion stays vanished.
LEMMA EventKeepsStayed ==
  ASSUME IndInv, NEW rms, NEW del, NEW back, EventStep(rms, del, back)
  PROVE  StayedInv' /\ CountedInv'
<1>1. deleted \subseteq deleted' /\ req' = req
  BY EventFacts DEF EventStep
<1>2. TagsVanished => TagsVanished'
  <2>1. Resolved(req.choice).tags = IF All \in req.choice.tags THEN Tags \ deleted ELSE req.choice.tags
    BY RequestTypes, ResolvedFilters DEF IndInv
  <2>2. Resolved(req.choice)'.tags
          = IF All \in req.choice.tags THEN Tags \ deleted' ELSE req.choice.tags
    BY <1>1, RequestTypes DEF IndInv, Resolved, Listed, TagsList, Filters, Dimensions
  <2> QED BY <1>1, <2>1, <2>2 DEF TagsVanished
<1> SUFFICES ASSUME req.kind = "attendance" PROVE StayedInv' /\ CountedInv'
  BY <1>1 DEF StayedInv, CountedInv
<1>3. watch'.stayed = (watch.stayed \cap Watched') \ back
  BY DEF EventStep, Event, Followed
<1>4. ASSUME NEW r \in watch'.stayed
      PROVE  r \in watch.stayed /\ r \in Ids /\ rooms'[r].queue = rooms[r].queue
             /\ (r \in Ongoing => r \in Ongoing')
  <2>1. r \in watch.stayed /\ r \in Watched' /\ r \notin back
    BY <1>3
  <2>2. r \in Watched /\ r \in Ids
    BY <2>1 DEF IndInv, StayedInv, Watched, Lists, Waiting, Ongoing
  <2>3. rooms'[r].active /\ r \in Ids'
    BY <1>1, <2>1 DEF Watched, Lists, Waiting, Ongoing
  <2> QED BY <2>1, <2>2, <2>3, EventFacts DEF Progress, Ongoing
<1>5. StayedInv'
  <2>1. Expanded("sectors")' <=> Expanded("sectors")
    BY <1>1 DEF Expanded
  <2>2. Expanded("queues")' <=> Expanded("queues")
    BY <1>1 DEF Expanded
  <2> QED BY <1>1, <1>3, <1>4, <2>1, <2>2 DEF IndInv, StayedInv, Clause
<1>6. CountedInv'
  BY <1>1, <1>2, <1>4 DEF IndInv, CountedInv
<1> QED BY <1>5, <1>6

LEMMA EventKeepsHeadings ==
  ASSUME IndInv, NEW rms, NEW del, NEW back, EventStep(rms, del, back)
  PROVE  HeadingInv'
<1>1. req' = req /\ rooms' = rms
  BY EventFacts
<1> SUFFICES ASSUME req.kind = "attendance", NEW r \in Ids' \ watch'.moved
             PROVE  /\ r \in Ids \ watch.moved /\ rooms'[r] = rooms[r]
                    /\ r \in Waiting <=> r \in Waiting'
                    /\ r \in Ongoing <=> r \in Ongoing'
  BY <1>1 DEF IndInv, HeadingInv
<1>2. watch'.moved = watch.moved \cup {q \in 1..Len(rms) : q \notin Ids \/ rms[q] # rooms[q]}
  BY DEF EventStep, Event, Followed
<1>3. r \in Ids \ watch.moved /\ rooms'[r] = rooms[r]
  BY <1>1, <1>2 DEF Ids
<1> QED BY <1>3 DEF Waiting, Ongoing

LEMMA EventKeepsFinished ==
  ASSUME IndInv, NEW rms, NEW del, NEW back, EventStep(rms, del, back)
  PROVE  FinishedInv'
<1> DEFINE range == StartOfDay(req.at)..req.at
<1>1. req' = req /\ tz' = tz /\ req.at \in Nat /\ req.at <= now /\ now \in Nat
  BY EventFacts, RequestTypes, RoomTypes DEF IndInv, RoomsInv
<1>2. range' = range
  BY <1>1 DEF StartOfDay, Midnight, UtcDate
<1>3. \A r \in 1..MaxRooms : r \in Closed(range) /\ Matches(req.filters, r)
                             <=> (r \in Closed(range) /\ Matches(req.filters, r))'
  <2> TAKE r \in 1..MaxRooms
  <2>1. CASE r \notin Ids
    BY <2>1, EventFacts DEF Closed
  <2>2. CASE r \in Ids /\ rooms'[r] = rooms[r]
    <3>1. r \in Ids'
      BY <2>2, EventFacts
    <3>2. r \in Closed(range) <=> r \in Closed(range)'
      BY <1>2, <2>2, <3>1 DEF Closed
    <3>3. Matches(req.filters, r) <=> Matches(req.filters, r)'
      BY <1>1, <2>2 DEF Matches, Clause
    <3> QED BY <3>2, <3>3
  <2>3. CASE r \in Ids /\ rooms'[r] # rooms[r]
    <3>1. rooms[r].active
      BY <2>3, EventFacts DEF Progress
    <3>2. ~rooms'[r].active => rooms'[r].ended = now + 1
      BY <2>3, EventFacts DEF Progress
    <3>3. now + 1 \notin range
      BY <1>1
    <3> QED BY <1>2, <3>1, <3>2, <3>3 DEF Closed
  <2> QED BY <2>1, <2>2, <2>3
<1> QED BY <1>1, <1>3 DEF IndInv, FinishedInv

LEMMA EventKeeps ==
  ASSUME IndInv, NEW rms, NEW del, NEW back, EventStep(rms, del, back)
  PROVE  IndInv'
BY EventKeepsTypes, EventKeepsFilters, EventKeepsStayed, EventKeepsHeadings, EventKeepsFinished
   DEF IndInv

-----------------------------------------------------------------------------
(* The steps of Insights keep the invariant.                               *)

LEMMA InitIndInv == Init => IndInv
<1> SUFFICES ASSUME Init PROVE IndInv
  OBVIOUS
<1>1. Cardinality(Tags) \in Nat /\ 0 \in 0..MaxNow /\ 0 \in 0..Cardinality(Tags) /\ MaxRooms \in Nat
  BY NamesAssumption, BoundsAssumption, FS_CardinalityType
<1>2. NoFilters \in Filters
  BY DEF NoFilters, Filters
<1>3. TypeOK
  <2>1. rooms \in Seq(RoomRecords) /\ Nothing \in [1..MaxRooms -> 0..Cardinality(Tags) \cup {1}]
        /\ Nothing \in [1..MaxRooms -> Nat]
    BY <1>1 DEF Init, Nothing
  <2>2. req \in [kind: {"none"} \cup Lists \cup Questions, step: Steps,
                choice: Filters, filters: Filters, at: 0..MaxNow,
                counts: [Counts -> [1..MaxRooms -> 0..Cardinality(Tags) \cup {1}]],
                from: Int \cup {NoDate}, to: Int \cup {NoDate}, offset: Nat,
                visits: [1..MaxRooms -> Nat]]
    BY <1>1, <1>2, <2>1 DEF Init, NoRequest, Steps
  <2> QED BY <1>1, <2>1, <2>2 DEF Init, TypeOK, NoRequest, NoWatch, RoomRecords
<1>4. RoomsInv /\ KindInv
  BY <1>1 DEF Init, RoomsInv, KindInv, NoRequest
<1>5. FilterInv
  BY DEF Init, FilterInv, FilterOf, Expanded, NoRequest
<1> QED BY <1>3, <1>4, <1>5 DEF Init, IndInv, StayedInv, CountedInv, HeadingInv, FinishedInv,
          RatingsInv, NoRequest, Lists, Questions

\* Every list is of rooms or of agents.
LEMMA RowsAreKnown ==
  ASSUME Ids' \subseteq 1..MaxRooms, NEW list, NEW f
  PROVE  list \in Lists => Rows(list, f)' \subseteq 1..MaxRooms
<1>1. Agents \subseteq 1..MaxRooms
  BY NamesAssumption
<1> QED BY <1>1 DEF Lists, Rows, MonitoringOngoing, MonitoringAwaiting, FinishedRooms, Waiting,
       FinishedRoomsV2, ParamsForFinished, MonitoringAgents, MonitoringAgentsV2, MonitoringStatus, Ongoing,
       MonitoringStatusV2, AnalysisStatusByAgent, AnalysisStatusByAgentV2, AgentsOf

LEMMA AskKeeps ==
  ASSUME IndInv, NEW asked \in Asked, Ask(asked[1], asked[2])
  PROVE  IndInv'
<1> DEFINE kind == asked[1]
           f == asked[2]
<1>1. kind \in Lists \cup Questions /\ f \in Filters /\ kind # "none"
  BY AskedAssumption DEF Lists, Questions
<1> HIDE DEF kind, f
<1>2. /\ req' = [NoRequest EXCEPT !.kind = kind, !.step = "sectors", !.choice = f, !.filters = f]
      /\ UNCHANGED <<now, tz, rooms, deleted>> /\ watch' = [NoWatch EXCEPT !.stayed = Watched']
  BY DEF Ask, kind, f
<1>3. /\ req'.kind = kind /\ req'.step = "sectors" /\ req'.choice = f /\ req'.filters = f
      /\ req'.at = 0 /\ req'.counts = [c \in Counts |-> Nothing]
      /\ req'.from = NoDate /\ req'.to = NoDate /\ req'.offset = 0 /\ req'.visits = Nothing
      /\ watch' = [stayed |-> Watched', moved |-> {}, left |-> FALSE, arrived |-> FALSE]
  BY <1>2 DEF NoRequest, NoWatch
<1>4. Watched' \subseteq 1..MaxRooms
  <2>1. Ids' = Ids /\ Ids \subseteq 1..MaxRooms
    BY <1>2, RoomTypes DEF Ids, IndInv, RoomsInv
  <2> QED BY <1>2, <2>1, RowsAreKnown DEF Watched, Waiting, Ongoing
<1>5. TypeOK'
  <2>1. Nothing \in [1..MaxRooms -> 0..Cardinality(Tags) \cup {1}]
        /\ Nothing \in [1..MaxRooms -> Nat] /\ 0 \in 0..MaxNow
    <3>1. Cardinality(Tags) \in Nat /\ MaxNow \in Nat
      BY NamesAssumption, BoundsAssumption, FS_CardinalityType
    <3> QED BY <3>1 DEF Nothing
  <2>2. req' \in [kind: {"none"} \cup Lists \cup Questions, step: Steps,
                choice: Filters, filters: Filters, at: 0..MaxNow,
                counts: [Counts -> [1..MaxRooms -> 0..Cardinality(Tags) \cup {1}]],
                from: Int \cup {NoDate}, to: Int \cup {NoDate}, offset: Nat,
                visits: [1..MaxRooms -> Nat]]
    BY <1>1, <1>2, <2>1 DEF NoRequest, Steps
  <2>3. watch' \in [stayed: SUBSET (1..MaxRooms), moved: SUBSET (1..MaxRooms), left: BOOLEAN,
                    arrived: BOOLEAN]
    BY <1>3, <1>4
  <2> QED BY <1>2, <1>3, <2>2, <2>3 DEF TypeOK, IndInv
<1>6. RoomsInv' /\ KindInv'
  BY <1>1, <1>2, <1>3, RoomTypes DEF RoomsInv, KindInv, IndInv
<1>7. FilterInv'
  BY <1>3 DEF FilterInv, FilterOf, Expanded, Dimensions
<1>8. StayedInv' /\ CountedInv' /\ FinishedInv' /\ RatingsInv'
  BY <1>3 DEF StayedInv, Expanded, CountedInv, FinishedInv, RatingsInv
<1>9. HeadingInv'
  <2>1. \A c \in Counts : \A r \in 1..MaxRooms : ~(req'.counts[c][r] > 0)
    BY <1>3 DEF Nothing
  <2>2. Ids' \subseteq 1..MaxRooms
    BY <1>2, RoomTypes DEF Ids, IndInv, RoomsInv
  <2> QED BY <2>1, <2>2 DEF HeadingInv, Counts
<1> QED BY <1>5, <1>6, <1>7, <1>8, <1>9 DEF IndInv

\* A step that answers: the rooms are left alone.
LEMMA AnsweringFacts ==
  ASSUME UNCHANGED <<now, tz, rooms, deleted>>
  PROVE  /\ Ids' = Ids /\ Waiting' = Waiting /\ Ongoing' = Ongoing
         /\ \A range : Closed(range)' = Closed(range)
         /\ \A f, r : Matches(f, r)' = Matches(f, r)
         /\ \A d : Listed(d)' = Listed(d)
         /\ \A f : Resolved(f)' = Resolved(f)
<1>1. Ids' = Ids /\ \A d : Listed(d)' = Listed(d)
  BY DEF Ids, Listed, SectorsList, QueuesList, TagsList
<1> QED BY <1>1 DEF Waiting, Ongoing, Closed, Matches, Resolved

\* What a request asks for depends on its kind and what was chosen.
LEMMA WatchedStays ==
  ASSUME UNCHANGED <<now, tz, rooms, deleted, watch>>, req'.kind = "attendance",
         req.kind = "attendance", req'.choice = req.choice
  PROVE  Watched' = Watched
BY AnsweringFacts DEF Watched, Lists

\* After the expansions nothing of what is asked changes: neither the filters nor
\* what they find.
LEMMA SettledKeeps ==
  ASSUME IndInv, UNCHANGED <<now, tz, rooms, deleted, watch>>,
         req.step \notin {"idle"} \cup Dimensions, req'.step \notin {"idle", "page"} \cup Dimensions,
         req'.kind = req.kind, req'.choice = req.choice, req'.filters = req.filters,
         req'.at = req.at \/ req'.at = now
  PROVE  /\ RoomsInv' /\ KindInv' /\ FilterInv' /\ StayedInv'
         /\ TagsVanished' <=> TagsVanished
<1>1. \A d \in Dimensions : Expanded(d) /\ Expanded(d)'
  BY DEF Expanded, Dimensions
<1>2. FilterInv'
  BY <1>1, AnsweringFacts DEF IndInv, FilterInv, FilterOf, Dimensions
<1>3. StayedInv'
  BY <1>1, WatchedStays DEF IndInv, StayedInv, Clause, Dimensions
<1>4. RoomsInv' /\ KindInv'
  BY RoomTypes DEF IndInv, RoomsInv, KindInv, Dimensions
<1> QED BY <1>2, <1>3, <1>4, AnsweringFacts DEF TagsVanished

LEMMA BeginKeeps ==
  ASSUME IndInv, NEW kind \in Questions, NEW step \in {"is_waiting", "finished", "metrics"},
         Begin(kind, step), kind = "attendance" => step = "is_waiting",
         kind = "analysis" => step = "finished"
  PROVE  IndInv'
<1>1. /\ UNCHANGED <<now, tz, rooms, deleted, watch>> /\ req.kind = kind /\ req.step = "begin"
      /\ req' = [req EXCEPT !.step = step, !.at = now]
  BY DEF Begin
<1>2. /\ req'.kind = req.kind /\ req'.choice = req.choice /\ req'.filters = req.filters
      /\ req'.step = step /\ req'.at = now /\ req'.counts = req.counts
  BY <1>1 DEF IndInv, TypeOK
<1>3. RoomsInv' /\ KindInv' /\ FilterInv' /\ StayedInv'
  BY <1>1, <1>2, SettledKeeps DEF Dimensions
<1>4. TypeOK'
  BY <1>1, <1>2 DEF IndInv, TypeOK, Steps
<1>5. HeadingInv'
  BY <1>1, <1>2, AnsweringFacts DEF IndInv, HeadingInv
<1>6. CountedInv' /\ FinishedInv' /\ RatingsInv'
  BY <1>1, <1>2 DEF CountedInv, FinishedInv, RatingsInv
<1> QED BY <1>3, <1>4, <1>5, <1>6 DEF IndInv

\* What a count leaves behind.
LEMMA TallyFacts ==
  ASSUME IndInv, NEW count \in Counts, NEW S \in SUBSET Ids,
         NEW step \in {"in_progress", "finished", "metrics", "done"}, Tally(count, S, step)
  PROVE  /\ UNCHANGED <<now, tz, rooms, deleted, watch>>
         /\ req'.kind = req.kind /\ req'.choice = req.choice /\ req'.filters = req.filters
         /\ req'.step = step /\ req'.at = req.at
         /\ req'.from = req.from /\ req'.to = req.to
         /\ \A c \in Counts \ {count} : req'.counts[c] = req.counts[c]
         /\ \A r \in 1..MaxRooms : req'.counts[count][r] > 0 <=> r \in S /\ Matches(req.filters, r)
         /\ TypeOK' /\ RoomsInv' /\ KindInv' /\ FilterInv' /\ StayedInv'
         /\ TagsVanished' <=> TagsVanished
<1> DEFINE counted == Counted(req.filters, S)
<1>1. /\ UNCHANGED <<now, tz, rooms, deleted, watch>> /\ req.step = count
      /\ req' = [req EXCEPT !.step = step, !.counts[count] = counted]
  BY DEF Tally
<1>2. Ids \subseteq 1..MaxRooms
  BY RoomTypes DEF Ids, IndInv, RoomsInv
<1>3. \A r \in Ids : Times(req.filters, r) \in 0..Cardinality(Tags) \cup {1}
                     /\ (Times(req.filters, r) > 0 <=> Matches(req.filters, r))
  BY TimesOfMatch, RequestTypes DEF IndInv
<1>4. Cardinality(Tags) \in Nat
  BY NamesAssumption, FS_CardinalityType
<1>5. counted \in [1..MaxRooms -> 0..Cardinality(Tags) \cup {1}]
      /\ \A r \in 1..MaxRooms : counted[r] > 0 <=> r \in S /\ Matches(req.filters, r)
  BY <1>2, <1>3, <1>4 DEF Counted
<1> HIDE DEF counted
<1>6. /\ req'.kind = req.kind /\ req'.choice = req.choice /\ req'.filters = req.filters
      /\ req'.step = step /\ req'.at = req.at /\ req'.from = req.from /\ req'.to = req.to
      /\ req'.counts = [req.counts EXCEPT ![count] = counted]
  BY <1>1 DEF IndInv, TypeOK
<1>7. req.counts \in [Counts -> [1..MaxRooms -> 0..Cardinality(Tags) \cup {1}]]
  BY DEF IndInv, TypeOK
<1>8. TypeOK'
  <2>1. req'.counts \in [Counts -> [1..MaxRooms -> 0..Cardinality(Tags) \cup {1}]]
    BY <1>5, <1>6, <1>7
  <2> QED BY <1>1, <1>6, <2>1 DEF IndInv, TypeOK, Steps
<1>9. /\ RoomsInv' /\ KindInv' /\ FilterInv' /\ StayedInv'
      /\ TagsVanished' <=> TagsVanished
  BY <1>1, <1>6, SettledKeeps DEF Dimensions, Counts
<1> QED BY <1>1, <1>5, <1>6, <1>7, <1>8, <1>9

\* The filters, once expanded, find every room that stayed, unless the last tag
\* was deleted meanwhile.
LEMMA StayedIsFound ==
  ASSUME IndInv, req.kind = "attendance", ~TagsVanished, Expanded("tags"), NEW r \in watch.stayed
  PROVE  r \in Waiting \cup Ongoing /\ Matches(req.filters, r)
<1> DEFINE wanted == Resolved(req.choice)
<1>1. r \in Waiting \cup Ongoing /\ Matches(wanted, r)
  BY DEF IndInv, StayedInv, Watched, Lists
<1>2. Expanded("sectors") /\ Expanded("queues")
  BY DEF Expanded, Dimensions
<1>3. Clause({SectorOf[rooms[r].queue]}, req.filters.sectors)
      /\ Clause({rooms[r].queue}, req.filters.queues)
  BY <1>2 DEF IndInv, StayedInv
<1>4. wanted.tags = IF All \in req.choice.tags THEN Tags \ deleted ELSE req.choice.tags
  BY RequestTypes, ResolvedFilters DEF IndInv
<1>5. wanted.tags \subseteq req.filters.tags /\ (req.filters.tags # {} => wanted.tags # {})
  BY <1>4, ListedIs DEF IndInv, FilterInv, FilterOf, TagsVanished
<1>6. Clause(rooms[r].tags, req.filters.tags)
  BY <1>1, <1>5 DEF Matches, Clause
<1> QED BY <1>1, <1>3, <1>6 DEF Matches

\* The three counts of the attendance card, in their order.
LEMMA AttendanceKeeps == ASSUME IndInv, AttendanceStatus PROVE IndInv'
<1>1. CASE Begin("attendance", "is_waiting")
  BY <1>1, BeginKeeps DEF Questions
<1>2. CASE req.kind = "attendance" /\ Tally("is_waiting", Waiting, "in_progress")
  <2>1. req.step = "is_waiting" /\ Waiting \in SUBSET Ids
    BY <1>2 DEF Tally, Waiting
  <2>2. CountedInv'
    <3> SUFFICES ASSUME ~TagsVanished, NEW r \in watch.stayed
                 PROVE  req'.counts["is_waiting"][r] > 0 \/ r \in Ongoing
      BY <1>2, <2>1, TallyFacts, AnsweringFacts DEF CountedInv, Counts
    <3>1. r \in Waiting \cup Ongoing /\ Matches(req.filters, r)
      BY <1>2, <2>1, StayedIsFound DEF Expanded, Dimensions
    <3>2. r \in 1..MaxRooms
      BY RequestTypes DEF IndInv
    <3> QED BY <1>2, <2>1, <3>1, <3>2, TallyFacts DEF Counts
  <2>3. HeadingInv'
    <3>1. Ids \subseteq 1..MaxRooms
      BY RoomTypes DEF Ids, IndInv, RoomsInv
    <3> QED BY <1>2, <2>1, <3>1, TallyFacts, AnsweringFacts DEF IndInv, HeadingInv, Counts
  <2>4. FinishedInv' /\ RatingsInv'
    BY <1>2, <2>1, TallyFacts DEF FinishedInv, RatingsInv, Counts
  <2> QED BY <1>2, <2>1, <2>2, <2>3, <2>4, TallyFacts DEF IndInv, Counts
<1>3. CASE req.kind = "attendance" /\ Tally("in_progress", Ongoing, "finished")
  <2>1. req.step = "in_progress" /\ Ongoing \in SUBSET Ids
    BY <1>3 DEF Tally, Ongoing
  <2>2. CountedInv'
    <3> SUFFICES ASSUME ~TagsVanished, NEW r \in watch.stayed
                 PROVE  req'.counts["is_waiting"][r] > 0 \/ req'.counts["in_progress"][r] > 0
      BY <1>3, <2>1, TallyFacts, AnsweringFacts DEF CountedInv, Counts
    <3>1. Matches(req.filters, r)
      BY <1>3, <2>1, StayedIsFound DEF Expanded, Dimensions
    <3>2. r \in 1..MaxRooms /\ (req.counts["is_waiting"][r] > 0 \/ r \in Ongoing)
      BY <1>3, <2>1, RequestTypes DEF IndInv, CountedInv
    <3> QED BY <1>3, <2>1, <3>1, <3>2, TallyFacts DEF Counts
  <2>3. HeadingInv'
    <3>1. Ids \subseteq 1..MaxRooms
      BY RoomTypes DEF Ids, IndInv, RoomsInv
    <3> QED BY <1>3, <2>1, <3>1, TallyFacts, AnsweringFacts DEF IndInv, HeadingInv, Counts
  <2>4. FinishedInv' /\ RatingsInv'
    BY <1>3, <2>1, TallyFacts DEF FinishedInv, RatingsInv, Counts
  <2> QED BY <1>3, <2>1, <2>2, <2>3, <2>4, TallyFacts DEF IndInv, Counts
<1>4. CASE req.kind = "attendance" /\ Tally("finished", Closed(StartOfDay(req.at)..req.at), "done")
  <2> DEFINE range == StartOfDay(req.at)..req.at
  <2>1. req.step = "finished" /\ Closed(range) \in SUBSET Ids
        /\ Closed(range) \cap (Waiting \cup Ongoing) = {}
    BY <1>4 DEF Tally, Closed, Waiting, Ongoing
  <2>2. CountedInv'
    BY <1>4, <2>1, TallyFacts DEF IndInv, CountedInv, Counts
  <2>3. HeadingInv'
    <3>1. Ids \subseteq 1..MaxRooms
      BY RoomTypes DEF Ids, IndInv, RoomsInv
    <3> QED BY <1>4, <2>1, <3>1, TallyFacts, AnsweringFacts DEF IndInv, HeadingInv, Counts
  <2>4. range' = range
    BY <1>4, <2>1, TallyFacts DEF StartOfDay, Midnight, UtcDate, Counts
  <2>5. FinishedInv' /\ RatingsInv'
    BY <1>4, <2>1, <2>4, TallyFacts, AnsweringFacts DEF FinishedInv, RatingsInv, Counts
  <2> QED BY <1>4, <2>1, <2>2, <2>3, <2>5, TallyFacts DEF IndInv, Counts
<1> QED BY <1>1, <1>2, <1>3, <1>4 DEF AttendanceStatus

\* Chats is asked: nothing is counted.
LEMMA AskChatsKeeps ==
  ASSUME IndInv, NEW from \in Int \cup {NoDate}, NEW to \in Int \cup {NoDate},
         req.kind \in Questions \ {"attendance"}, AskChats("metrics", from, to),
         (req.kind \in {"csat_ratings", "csat_score"}
          /\ {req.choice.start, req.choice.end} = {NoDate}) =>
            from = Midnight(LocalDate(req.at)) /\ to = LastSecond(LocalDate(req.at))
  PROVE  IndInv'
<1>1. /\ UNCHANGED <<now, tz, rooms, deleted, watch>> /\ req.step = "metrics"
      /\ req' = [req EXCEPT !.step = "done", !.from = from, !.to = to]
  BY DEF AskChats
<1>2. /\ req'.kind = req.kind /\ req'.choice = req.choice /\ req'.filters = req.filters
      /\ req'.step = "done" /\ req'.at = req.at /\ req'.counts = req.counts
      /\ req'.from = from /\ req'.to = to
  BY <1>1 DEF IndInv, TypeOK
<1>3. RoomsInv' /\ KindInv' /\ FilterInv' /\ StayedInv'
  BY <1>1, <1>2, SettledKeeps DEF Dimensions
<1>4. TypeOK'
  BY <1>1, <1>2 DEF IndInv, TypeOK, Steps
<1>5. CountedInv' /\ HeadingInv'
  BY <1>2 DEF CountedInv, HeadingInv
<1>6. FinishedInv'
  <2>1. (StartOfDay(req.at)..req.at)' = StartOfDay(req.at)..req.at
    BY <1>1, <1>2 DEF StartOfDay, Midnight, UtcDate
  <2> QED BY <1>1, <1>2, <2>1, AnsweringFacts DEF IndInv, FinishedInv
<1>7. RatingsInv'
  BY <1>1, <1>2 DEF RatingsInv, Midnight, LastSecond, LocalDate
<1> QED BY <1>3, <1>4, <1>5, <1>6, <1>7 DEF IndInv

\* The instants the dates of a request begin and end at.
LEMMA WindowTypes ==
  ASSUME IndInv
  PROVE  /\ FirstInstant(req.filters.start) \in Int \cup {NoDate}
         /\ LastInstant(req.filters.end) \in Int \cup {NoDate}
         /\ Midnight(LocalDate(req.at)) \in Int /\ LastSecond(LocalDate(req.at)) \in Int
<1>1. req.filters.start \in Nat \cup {NoDate} /\ req.filters.end \in Nat \cup {NoDate}
      /\ req.at \in Nat
  BY RequestTypes DEF IndInv, Filters
<1> QED BY <1>1, DayIsWindow DEF IndInv, FirstInstant, LastInstant

LEMMA AnalysisKeeps == ASSUME IndInv, AnalysisStatus PROVE IndInv'
<1>1. CASE Begin("analysis", "finished")
  BY <1>1, BeginKeeps DEF Questions
<1>2. CASE req.kind = "analysis" /\ Tally("finished", Closed(Period(req.filters, req.at)), "metrics")
  <2> DEFINE period == Period(req.filters, req.at)
             range == StartOfDay(req.at)..req.at
  <2>1. Closed(period) \in SUBSET Ids
    BY DEF Closed
  <2>2. CountedInv' /\ HeadingInv' /\ RatingsInv'
    BY <1>2, <2>1, TallyFacts DEF CountedInv, HeadingInv, RatingsInv, Counts
  <2>3. FinishedInv'
    <3>1. NoDate \in {req.choice.start, req.choice.end} => period = range
      BY DEF IndInv, FilterInv, Period
    <3>2. range' = range
      BY <1>2, <2>1, TallyFacts DEF StartOfDay, Midnight, UtcDate, Counts
    <3> QED BY <1>2, <2>1, <3>1, <3>2, TallyFacts, AnsweringFacts DEF FinishedInv, Counts
  <2> QED BY <1>2, <2>1, <2>2, <2>3, TallyFacts DEF IndInv, Counts
<1>3. CASE req.kind = "analysis"
           /\ AskChats("metrics", FirstInstant(req.filters.start), LastInstant(req.filters.end))
  BY <1>3, AskChatsKeeps, WindowTypes DEF Questions
<1> QED BY <1>1, <1>2, <1>3 DEF AnalysisStatus

LEMMA TimeMetricsKeeps == ASSUME IndInv, TimeMetrics PROVE IndInv'
<1>1. CASE Begin("time_metrics", "metrics")
  BY <1>1, BeginKeeps DEF Questions
<1>2. CASE req.kind = "time_metrics"
           /\ AskChats("metrics", FirstInstant(req.filters.start), LastInstant(req.filters.end))
  BY <1>2, AskChatsKeeps, WindowTypes DEF Questions
<1> QED BY <1>1, <1>2 DEF TimeMetrics

LEMMA CsatKeeps ==
  ASSUME IndInv, NEW kind \in {"csat_ratings", "csat_score"}, CsatWindow(kind)
  PROVE  IndInv'
<1>1. CASE Begin(kind, "metrics")
  BY <1>1, BeginKeeps DEF Questions
<1>2. CASE req.kind = kind /\ {req.filters.start, req.filters.end} = {NoDate}
           /\ AskChats("metrics", Midnight(LocalDate(req.at)), LastSecond(LocalDate(req.at)))
  BY <1>2, AskChatsKeeps, WindowTypes DEF Questions
<1>3. CASE req.kind = kind /\ {req.filters.start, req.filters.end} # {NoDate}
           /\ AskChats("metrics", FirstInstant(req.filters.start), LastInstant(req.filters.end))
  BY <1>3, AskChatsKeeps, WindowTypes DEF Questions, IndInv, FilterInv
<1> QED BY <1>1, <1>2, <1>3 DEF CsatWindow

\* One dimension is expanded: what it is used for from then on is what is listed
\* at this moment.
LEMMA ExpandFacts ==
  ASSUME IndInv, ExpandAllTokens
  PROVE  /\ UNCHANGED <<now, tz, rooms, deleted, watch>> /\ req.step \in Dimensions
         /\ req'.step \in {"queues", "tags", "page", "begin"}
         /\ req.step = "sectors" => req'.step = "queues"
         /\ req.step = "queues" => req'.step = "tags"
         /\ req.step = "tags" => req'.step = IF req.kind \in Lists THEN "page" ELSE "begin"
         /\ req'.kind = req.kind /\ req'.choice = req.choice /\ req'.at = req.at
         /\ req'.counts = req.counts /\ req'.filters \in Filters
         /\ \A d \in Dimensions : req'.filters[d] =
              IF d = req.step /\ All \in req.filters[d] THEN Listed(d) ELSE req.filters[d]
         /\ req'.filters.start = req.filters.start /\ req'.filters.end = req.filters.end
         /\ req'.from = req.from /\ req'.to = req.to /\ req'.offset = req.offset
         /\ req'.visits = req.visits /\ DOMAIN req' = DOMAIN req
         /\ req' \in [kind: {"none"} \cup Lists \cup Questions, step: Steps,
                choice: Filters, filters: Filters, at: 0..MaxNow,
                counts: [Counts -> [1..MaxRooms -> 0..Cardinality(Tags) \cup {1}]],
                from: Int \cup {NoDate}, to: Int \cup {NoDate}, offset: Nat,
                visits: [1..MaxRooms -> Nat]]
<1> DEFINE next == CASE req.step = "sectors" -> "queues" [] req.step = "queues" -> "tags"
                     [] req.step = "tags" -> IF req.kind \in Lists THEN "page" ELSE "begin"
           used == [req.filters EXCEPT ![req.step] = IF All \in @ THEN Listed(req.step) ELSE @]
<1>1. req.step \in Dimensions /\ UNCHANGED <<now, tz, rooms, deleted, watch>>
      /\ req' = [req EXCEPT !.step = next,
                   !.filters[req.step] = IF All \in @ THEN Listed(req.step) ELSE @]
  BY DEF ExpandAllTokens
<1>2. /\ req.step = "sectors" => next = "queues"
      /\ req.step = "queues" => next = "tags"
      /\ req.step = "tags" => next = IF req.kind \in Lists THEN "page" ELSE "begin"
  OBVIOUS
<1> HIDE DEF next
<1>3. next \in {"queues", "tags", "page", "begin"}
  BY <1>1, <1>2 DEF Dimensions
<1>4. req.filters \in Filters
  BY DEF IndInv, TypeOK
<1>5. /\ used.sectors = IF req.step = "sectors" /\ All \in req.filters.sectors
                        THEN Sectors \ deleted ELSE req.filters.sectors
      /\ used.queues = IF req.step = "queues" /\ All \in req.filters.queues
                       THEN Queues \ deleted ELSE req.filters.queues
      /\ used.tags = IF req.step = "tags" /\ All \in req.filters.tags
                     THEN Tags \ deleted ELSE req.filters.tags
      /\ used.start = req.filters.start /\ used.end = req.filters.end
      /\ DOMAIN used = {"sectors", "queues", "tags", "start", "end"}
      /\ used = [sectors |-> used.sectors, queues |-> used.queues, tags |-> used.tags,
                 start |-> used.start, end |-> used.end]
  <2>2. CASE req.step = "sectors"
    <3>1. used = [req.filters EXCEPT !.sectors = IF All \in req.filters.sectors THEN Listed("sectors")
                                                 ELSE req.filters.sectors]
      BY <1>4, <2>2 DEF Filters
    <3> HIDE DEF used
    <3> QED BY <1>4, <2>2, <3>1, ListedIs DEF Filters
  <2>3. CASE req.step = "queues"
    <3>1. used = [req.filters EXCEPT !.queues = IF All \in req.filters.queues THEN Listed("queues")
                                                ELSE req.filters.queues]
      BY <1>4, <2>3 DEF Filters
    <3> HIDE DEF used
    <3> QED BY <1>4, <2>3, <3>1, ListedIs DEF Filters
  <2>4. CASE req.step = "tags"
    <3>1. used = [req.filters EXCEPT !.tags = IF All \in req.filters.tags THEN Listed("tags")
                                              ELSE req.filters.tags]
      BY <1>4, <2>4 DEF Filters
    <3> HIDE DEF used
    <3> QED BY <1>4, <2>4, <3>1, ListedIs DEF Filters
  <2> QED BY <1>1, <2>2, <2>3, <2>4 DEF Dimensions
<1>6. used \in Filters
  BY <1>4, <1>5 DEF Filters
<1>7. req' = [req EXCEPT !.step = next, !.filters = used]
  BY <1>1, <1>4 DEF IndInv, TypeOK
<1>8. \A d \in Dimensions : used[d] =
              IF d = req.step /\ All \in req.filters[d] THEN Listed(d) ELSE req.filters[d]
  BY <1>5, ListedIs DEF Dimensions
<1> HIDE DEF used
<1> QED BY <1>1, <1>2, <1>3, <1>5, <1>6, <1>7, <1>8 DEF IndInv, TypeOK, Steps

LEMMA ExpandKeeps == ASSUME IndInv, ExpandAllTokens PROVE IndInv'
<1> USE ExpandFacts
<1>1. \A d \in Dimensions : All \notin Listed(d)
  BY ListedIs, NamesAssumption DEF Dimensions
<1>2. FilterInv'
  <2>1. \A d \in Dimensions : Listed(d)' = Listed(d)
    BY AnsweringFacts
  <2>2. \A d \in Dimensions : FilterOf(d, req.choice[d], req.filters[d])
    BY DEF IndInv, FilterInv, Dimensions
  <2>3. CASE req.step = "sectors"
    BY <1>1, <2>1, <2>2, <2>3 DEF FilterOf, FilterInv, Expanded, Dimensions, IndInv
  <2>4. CASE req.step = "queues"
    BY <1>1, <2>1, <2>2, <2>4 DEF FilterOf, FilterInv, Expanded, Dimensions, IndInv
  <2>5. CASE req.step = "tags"
    BY <1>1, <2>1, <2>2, <2>5 DEF FilterOf, FilterInv, Expanded, Dimensions, IndInv
  <2> QED BY <2>3, <2>4, <2>5 DEF Dimensions
<1>3. TypeOK'
  <2>1. req'.step = "page" => All \notin req'.filters.sectors \cup req'.filters.queues
                                           \cup req'.filters.tags
    BY <1>2 DEF FilterInv, FilterOf, Expanded, Dimensions
  <2> QED BY <2>1 DEF IndInv, TypeOK
<1>4. RoomsInv' /\ KindInv'
  BY RoomTypes DEF IndInv, RoomsInv, KindInv, Dimensions
<1>5. StayedInv'
  <2> SUFFICES ASSUME req.kind = "attendance", NEW r \in watch.stayed
               PROVE  /\ r \in Watched
                      /\ Expanded("sectors")' => Clause({SectorOf[rooms[r].queue]}, req'.filters.sectors)
                      /\ Expanded("queues")' => Clause({rooms[r].queue}, req'.filters.queues)
    BY WatchedStays DEF StayedInv, Clause
  <2>1. r \in Watched
    BY DEF IndInv, StayedInv
  <2>2. Matches(Resolved(req.choice), r)
    BY <2>1 DEF Watched, Lists
  <2>3. Clause({SectorOf[rooms[r].queue]}, Resolved(req.choice).sectors)
        /\ Clause({rooms[r].queue}, Resolved(req.choice).queues)
    BY <2>2 DEF Matches
  <2>4. /\ Resolved(req.choice).sectors = IF All \in req.choice.sectors THEN Listed("sectors")
                                          ELSE req.choice.sectors
        /\ Resolved(req.choice).queues = IF All \in req.choice.queues THEN Listed("queues")
                                         ELSE req.choice.queues
    BY RequestTypes, ResolvedFilters, ListedIs DEF IndInv
  <2>5. CASE req.step = "sectors"
    <3>1. req'.filters.sectors = Resolved(req.choice).sectors
      BY <2>4, <2>5 DEF IndInv, FilterInv, FilterOf, Expanded, Dimensions
    <3> QED BY <2>1, <2>3, <2>5, <3>1 DEF Expanded, Dimensions
  <2>6. CASE req.step = "queues"
    <3>1. req'.filters.queues = Resolved(req.choice).queues
          /\ req'.filters.sectors = req.filters.sectors
      BY <2>4, <2>6 DEF IndInv, FilterInv, FilterOf, Expanded, Dimensions
    <3> QED BY <2>1, <2>3, <2>6, <3>1 DEF Expanded, Dimensions, IndInv, StayedInv
  <2>7. CASE req.step = "tags"
    <3>1. req'.filters.queues = req.filters.queues /\ req'.filters.sectors = req.filters.sectors
      BY <2>7 DEF Dimensions
    <3> QED BY <2>1, <2>7, <3>1 DEF Expanded, Dimensions, IndInv, StayedInv
  <2> QED BY <2>5, <2>6, <2>7 DEF Dimensions
<1>6. HeadingInv'
  BY AnsweringFacts DEF IndInv, HeadingInv
<1>7. CountedInv' /\ FinishedInv' /\ RatingsInv'
  BY DEF CountedInv, FinishedInv, RatingsInv
<1> QED BY <1>2, <1>3, <1>4, <1>5, <1>6, <1>7 DEF IndInv

\* A page: only requests for lists come here.
LEMMA PageKeeps == ASSUME IndInv, ListPage PROVE IndInv'
<1> DEFINE page == Page(req.kind, req.filters, req.offset)
           seen == [r \in 1..MaxRooms |-> req.visits[r] + (IF r \in page.rows THEN 1 ELSE 0)]
           more == [req EXCEPT !.visits = seen, !.offset = @ + PageSize, !.step = "sectors",
                               !.filters = req.choice]
           last == [req EXCEPT !.visits = seen, !.step = "done"]
<1>1. /\ UNCHANGED <<now, tz, rooms, deleted>> /\ req.step = "page"
      /\ req' = more \/ req' = last
      /\ watch' = Followed({}, {})
  BY DEF ListPage
<1>2. req.kind \in Lists /\ req.kind \notin Questions
  BY <1>1 DEF IndInv, KindInv, Lists, Questions
<1> HIDE DEF page
<1>3. seen \in [1..MaxRooms -> Nat]
  <2>1. \A r \in 1..MaxRooms : req.visits[r] \in Nat
    BY DEF IndInv, TypeOK
  <2> QED BY <2>1
<1> HIDE DEF seen
<1>4. /\ req'.kind = req.kind /\ req'.choice = req.choice /\ req'.at = req.at
      /\ \/ req'.step = "sectors" /\ req'.filters = req.choice
         \/ req'.step = "done" /\ req'.filters = req.filters
  BY <1>1 DEF IndInv, TypeOK
<1>5. TypeOK'
  <2>1. watch' \in [stayed: SUBSET (1..MaxRooms), moved: SUBSET (1..MaxRooms), left: BOOLEAN,
                    arrived: BOOLEAN]
    BY <1>1 DEF IndInv, TypeOK, Followed
  <2>2. PageSize \in Nat /\ req.choice \in Filters
    BY BoundsAssumption DEF IndInv, TypeOK
  <2>3. req.offset + PageSize \in Nat
    BY <2>2 DEF IndInv, TypeOK
  <2>4. CASE req' = more
    BY <1>1, <1>3, <2>1, <2>2, <2>3, <2>4 DEF IndInv, TypeOK, Steps
  <2>5. CASE req' = last
    BY <1>1, <1>3, <2>1, <2>5 DEF IndInv, TypeOK, Steps
  <2> QED BY <1>1, <2>4, <2>5
<1>6. FilterInv'
  <2>1. CASE req'.step = "sectors" /\ req'.filters = req.choice
    BY <1>4, <2>1 DEF FilterInv, FilterOf, Expanded, Dimensions
  <2>2. CASE req'.step = "done" /\ req'.filters = req.filters
    BY <1>1, <1>4, <2>2, AnsweringFacts DEF IndInv, FilterInv, FilterOf, Expanded, Dimensions
  <2> QED BY <1>4, <2>1, <2>2
<1>7. RoomsInv' /\ KindInv'
  BY <1>1, <1>2, <1>4, RoomTypes DEF IndInv, RoomsInv, KindInv, Lists
<1>8. StayedInv' /\ CountedInv' /\ HeadingInv' /\ FinishedInv' /\ RatingsInv'
  BY <1>2, <1>4 DEF Questions, StayedInv, CountedInv, HeadingInv, FinishedInv, RatingsInv
<1> QED BY <1>5, <1>6, <1>7, <1>8 DEF IndInv

-----------------------------------------------------------------------------
(* Following the pages of a list.                                          *)

Walking == req.kind \in Lists \ {"agents"}

\* What stayed is listed still, and what is not on the pages seen so far comes
\* after them, if nothing has left; what is, comes before the next one, if nothing
\* has come.
WalkInv ==
    Walking =>
        /\ req.step # "done" => watch.stayed \subseteq Watched
        /\ watch.left \/ \A r \in watch.stayed :
             req.visits[r] > 0 \/ (req.step # "done" /\ Place(r, Watched) >= req.offset)
        /\ watch.arrived \/ \A r \in 1..MaxRooms :
             /\ req.visits[r] <= 1
             /\ req.step # "done" /\ req.visits[r] > 0 /\ r \in Watched
                  => Place(r, Watched) < req.offset

\* The place of a row: it has fewer before it than there are rows, and no fewer
\* when there are more rows.
LEMMA PlaceOfRow ==
  ASSUME NEW rows \in SUBSET (1..MaxRooms), NEW r
  PROVE  /\ Place(r, rows) \in Nat /\ Cardinality(rows) \in Nat
         /\ r \in rows => Place(r, rows) < Cardinality(rows)
<1> DEFINE before == {x \in rows : x < r}
<1>1. IsFiniteSet(rows)
  <2>1. PICK m \in Int : m = MaxRooms
    BY BoundsAssumption
  <2>2. IsFiniteSet(1..m)
    BY FS_Interval
  <2> QED BY <2>1, <2>2, FS_Subset
<1>2. IsFiniteSet(before) /\ Cardinality(before) \in Nat /\ Cardinality(rows) \in Nat
      /\ Cardinality(before) <= Cardinality(rows)
      /\ (Cardinality(before) = Cardinality(rows) => before = rows)
  BY <1>1, FS_Subset, FS_CardinalityType
<1>3. r \in rows => before # rows
  BY BoundsAssumption
<1> QED BY <1>2, <1>3 DEF Place

LEMMA PlaceGrows ==
  ASSUME NEW rows \in SUBSET (1..MaxRooms), NEW fewer \in SUBSET rows, NEW r
  PROVE  Place(r, fewer) <= Place(r, rows)
<1> DEFINE before == {x \in rows : x < r}
           least == {x \in fewer : x < r}
<1>1. IsFiniteSet(before)
  <2>1. PICK m \in Int : m = MaxRooms
    BY BoundsAssumption
  <2>2. IsFiniteSet(1..m)
    BY FS_Interval
  <2>3. before \subseteq 1..m
    BY <2>1
  <2> QED BY <2>2, <2>3, FS_Subset
<1>2. least \subseteq before
  OBVIOUS
<1>3. Cardinality(least) <= Cardinality(before)
  BY <1>1, <1>2, FS_Subset
<1> QED BY <1>3 DEF Place

\* What is listed, now and after a step.
LEMMA WatchedIsKnown ==
  ASSUME IndInv, IndInv'
  PROVE  /\ req.kind \in Lists => Watched \subseteq 1..MaxRooms
         /\ req'.kind \in Lists => Watched' \subseteq 1..MaxRooms
<1>1. Agents \subseteq 1..MaxRooms
  BY NamesAssumption
<1>2. Ids \subseteq 1..MaxRooms
  BY RoomTypes DEF Ids, IndInv, RoomsInv
<1>3. Ids' \subseteq 1..MaxRooms
  <2>1. Len(rooms') \in Nat /\ MaxRooms \in Nat /\ Len(rooms') <= MaxRooms
    BY BoundsAssumption DEF IndInv, TypeOK, RoomsInv
  <2> QED BY <2>1 DEF Ids
<1>4. req.kind \in Lists => Watched \subseteq 1..MaxRooms
  BY <1>1, <1>2 DEF Watched, Lists, Rows, MonitoringOngoing, MonitoringAwaiting, FinishedRooms,
     Waiting, FinishedRoomsV2, ParamsForFinished, MonitoringAgents, MonitoringAgentsV2,
     MonitoringStatus, Ongoing, MonitoringStatusV2, AnalysisStatusByAgent,
     AnalysisStatusByAgentV2, AgentsOf
<1>5. req'.kind \in Lists => Watched' \subseteq 1..MaxRooms
  BY <1>3, RowsAreKnown DEF Watched
<1> QED BY <1>4, <1>5

\* While nothing is seen, what is listed may change at will: the history tells.
LEMMA ChangesAreFollowed ==
  ASSUME IndInv, IndInv', WalkInv, Walking, req.step # "done",
         NEW back, NEW moved, watch' = Followed(back, moved), req' = req
  PROVE  WalkInv'
<1> DEFINE W == Watched
           V == Watched'
<1>1. W \in SUBSET (1..MaxRooms) /\ V \in SUBSET (1..MaxRooms)
  BY WatchedIsKnown DEF Walking
<1>2. /\ watch'.stayed \subseteq watch.stayed /\ watch'.stayed \subseteq V
      /\ ~watch'.left => ~watch.left /\ W \subseteq V
      /\ ~watch'.arrived => ~watch.arrived /\ V \subseteq W
  BY DEF Followed
<1>3. req.offset \in Nat /\ \A r \in 1..MaxRooms : Place(r, W) \in Nat /\ Place(r, V) \in Nat
  BY <1>1, PlaceOfRow DEF IndInv, TypeOK
<1>4. ASSUME ~watch'.left, NEW r \in watch'.stayed
      PROVE  req.visits[r] > 0 \/ Place(r, V) >= req.offset
  <2>1. r \in 1..MaxRooms /\ (req.visits[r] > 0 \/ Place(r, W) >= req.offset)
    BY <1>1, <1>2, <1>4 DEF WalkInv
  <2>2. Place(r, W) <= Place(r, V)
    BY <1>1, <1>2, <1>4, PlaceGrows
  <2> QED BY <1>3, <2>1, <2>2
<1>5. ASSUME ~watch'.arrived, NEW r \in 1..MaxRooms
      PROVE  req.visits[r] <= 1 /\ (req.visits[r] > 0 /\ r \in V => Place(r, V) < req.offset)
  <2>1. req.visits[r] <= 1 /\ (req.visits[r] > 0 /\ r \in V => Place(r, W) < req.offset)
    BY <1>2, <1>5 DEF WalkInv
  <2>2. Place(r, V) <= Place(r, W)
    BY <1>1, <1>2, <1>5, PlaceGrows
  <2> QED BY <1>3, <2>1, <2>2
<1> QED BY <1>2, <1>4, <1>5 DEF WalkInv

\* Insights changes none of the lists.
LEMMA RowsStay ==
  ASSUME UNCHANGED <<now, tz, rooms, deleted>>, NEW list \in Lists, NEW f
  PROVE  Rows(list, f)' = Rows(list, f)
<1>1. /\ MonitoringOngoing(f)' = MonitoringOngoing(f)
      /\ MonitoringAwaiting(f)' = MonitoringAwaiting(f)
  BY AnsweringFacts DEF MonitoringOngoing, MonitoringAwaiting
<1>2. ParamsForFinished(f)' = ParamsForFinished(f)
  BY AnsweringFacts DEF ParamsForFinished, Midnight, LastSecond
<1>3. /\ FinishedRooms(f)' = FinishedRooms(f)
      /\ FinishedRoomsV2(f)' = FinishedRoomsV2(f)
  BY <1>2, AnsweringFacts DEF FinishedRooms, FinishedRoomsV2
<1> QED BY <1>1, <1>3 DEF Lists, Rows, MonitoringAgents, MonitoringAgentsV2, MonitoringStatus,
       MonitoringStatusV2, AnalysisStatusByAgent, AnalysisStatusByAgentV2

\* An expansion is what it would have been resolved to: the list is the same.
LEMMA ExpansionsAreResolved ==
  ASSUME IndInv, ExpandAllTokens, Walking
  PROVE  Watched' = Watched
<1> USE ExpandFacts
<1>1. req.filters \in Filters /\ req'.filters \in Filters
  BY DEF IndInv, TypeOK
<1>2. Resolved(req'.filters) = Resolved(req.filters)
  <2>1. \A d \in Dimensions : All \notin Listed(d)
    BY ListedIs, NamesAssumption DEF Dimensions
  <2>2. \A d \in DOMAIN req.filters : Resolved(req'.filters)[d] = Resolved(req.filters)[d]
    BY <1>1, <2>1 DEF Resolved, Filters, Dimensions
  <2> QED BY <1>1, <2>2 DEF Resolved, Filters
<1>3. req.kind \in Lists /\ req'.kind = req.kind
  BY DEF Walking
<1>4. PICK list \in Lists : list = req.kind /\ list = req'.kind
  BY <1>3
<1>5. PICK f : f = Resolved(req.filters)
  OBVIOUS
<1>6. Resolved(req.filters)' = f
  BY <1>2, <1>5, AnsweringFacts
<1>7. Watched' = Rows(list, f)' /\ Watched = Rows(list, f)
  BY <1>4, <1>5, <1>6 DEF Watched
<1> QED BY <1>7, RowsStay

\* At a page nothing is left to expand: its rows are those of the list in the
\* places asked for.
LEMMA PageIsOfList ==
  ASSUME IndInv, Walking, req.step = "page"
  PROVE  Page(req.kind, req.filters, req.offset) = Paginated(Watched, req.offset)
<1>1. req.filters \in Filters
  BY DEF IndInv, TypeOK
<1>2. Resolved(req.filters) = req.filters
  <2>1. \A d \in DOMAIN req.filters : Resolved(req.filters)[d] = req.filters[d]
    BY <1>1 DEF IndInv, TypeOK, Resolved, Filters, Dimensions
  <2> QED BY <1>1, <2>1 DEF Resolved, Filters
<1>3. req.kind \in Lists /\ req.kind # "agents"
  BY DEF Walking
<1>4. Watched = Rows(req.kind, req.filters)
  BY <1>2, <1>3 DEF Watched
<1>5. Page(req.kind, req.filters, req.offset) = ChatsPage(req.kind, req.filters, req.offset)
  BY <1>3 DEF Page, ProxiedPage
<1> QED BY <1>4, <1>5 DEF ChatsPage

\* A page: its rows are seen, and the next one begins after them.
LEMMA PageWalks == ASSUME IndInv, IndInv', WalkInv, ListPage PROVE WalkInv'
<1> DEFINE W == Watched
           V == Watched'
           page == Paginated(W, req.offset)
           seen == [r \in 1..MaxRooms |-> req.visits[r] + (IF r \in page.rows THEN 1 ELSE 0)]
           more == [req EXCEPT !.visits = seen, !.offset = @ + PageSize, !.step = "sectors",
                               !.filters = req.choice]
           last == [req EXCEPT !.visits = seen, !.step = "done"]
<1>1. req.step = "page" /\ UNCHANGED <<now, tz, rooms, deleted>> /\ watch' = Followed({}, {})
  BY DEF ListPage
<1>2. /\ req'.kind = req.kind
      /\ req \in [kind: {"none"} \cup Lists \cup Questions, step: Steps,
                  choice: Filters, filters: Filters, at: 0..MaxNow,
                  counts: [Counts -> [1..MaxRooms -> 0..Cardinality(Tags) \cup {1}]],
                  from: Int \cup {NoDate}, to: Int \cup {NoDate}, offset: Nat,
                  visits: [1..MaxRooms -> Nat]]
  BY DEF ListPage, IndInv, TypeOK
<1> SUFFICES ASSUME Walking PROVE WalkInv'
  BY <1>2 DEF WalkInv, Walking
<1>3. /\ page.next => req' = more
      /\ ~page.next => req' = last
  BY <1>1, PageIsOfList DEF ListPage
<1>4. /\ page.rows = {r \in W : Place(r, W) \in req.offset..req.offset + PageSize - 1}
      /\ page.next <=> req.offset + PageSize < Cardinality(W)
  BY DEF Paginated
<1> HIDE DEF page
<1>5. \A r \in 1..MaxRooms : /\ seen[r] = req.visits[r] + (IF r \in page.rows THEN 1 ELSE 0)
                             /\ req.visits[r] \in Nat
  BY <1>2
<1> HIDE DEF seen
<1>6. /\ req'.visits = seen
      /\ \/ req'.step = "sectors" /\ req'.offset = req.offset + PageSize
         \/ /\ req'.step = "done" /\ req'.filters = req.filters
            /\ ~(req.offset + PageSize < Cardinality(W))
  BY <1>2, <1>3, <1>4
<1>7. W \in SUBSET (1..MaxRooms) /\ V \in SUBSET (1..MaxRooms)
  BY <1>2, WatchedIsKnown DEF Walking
<1>8. /\ watch'.stayed \subseteq watch.stayed /\ watch'.stayed \subseteq V
      /\ ~watch'.left => ~watch.left /\ W \subseteq V
      /\ ~watch'.arrived => ~watch.arrived /\ V \subseteq W
      /\ watch.stayed \subseteq W
  BY <1>1 DEF Followed, WalkInv
<1>9. /\ req.offset \in Nat /\ PageSize \in Nat \ {0} /\ Cardinality(W) \in Nat
      /\ \A r \in 1..MaxRooms : Place(r, W) \in Nat /\ Place(r, V) \in Nat
                                /\ (r \in W => Place(r, W) < Cardinality(W))
  BY <1>2, <1>7, PlaceOfRow, BoundsAssumption
<1>10. ASSUME ~watch'.left, NEW r \in watch'.stayed
       PROVE  seen[r] > 0 \/ (req'.step # "done" /\ Place(r, V) >= req'.offset)
  <2>1. r \in W /\ r \in 1..MaxRooms /\ (req.visits[r] > 0 \/ Place(r, W) >= req.offset)
    BY <1>1, <1>7, <1>8, <1>10 DEF WalkInv
  <2>2. Place(r, W) <= Place(r, V)
    BY <1>7, <1>8, <1>10, PlaceGrows
  <2>3. PICK n \in Nat, size \in Nat, at \in Nat, before \in Nat, after \in Nat :
           n = req.offset /\ size = PageSize /\ at = Cardinality(W)
           /\ before = Place(r, W) /\ after = Place(r, V)
    BY <1>9, <2>1
  <2>4. CASE req.visits[r] > 0
    BY <1>5, <2>1, <2>4
  <2>5. CASE before >= n /\ before <= n + size - 1
    <3>1. r \in page.rows
      BY <1>4, <2>1, <2>3, <2>5
    <3> QED BY <1>5, <2>1, <3>1
  <2>6. CASE before >= n + size
    BY <1>6, <1>9, <2>1, <2>2, <2>3, <2>6
  <2> QED BY <2>1, <2>3, <2>4, <2>5, <2>6
<1>11. ASSUME ~watch'.arrived, NEW r \in 1..MaxRooms
       PROVE  seen[r] <= 1 /\ (req'.step # "done" /\ seen[r] > 0 /\ r \in V
                                 => Place(r, V) < req'.offset)
  <2>1. req.visits[r] <= 1 /\ (req.visits[r] > 0 /\ r \in W => Place(r, W) < req.offset)
    BY <1>1, <1>8, <1>11 DEF WalkInv
  <2>2. r \in page.rows => r \in W /\ Place(r, W) >= req.offset /\ Place(r, W) < req.offset + PageSize
    BY <1>4, <1>7, <1>9
  <2>3. Place(r, V) <= Place(r, W) /\ (r \in V => r \in W)
    BY <1>7, <1>8, <1>11, PlaceGrows
  <2>4. PICK n \in Nat, size \in Nat, before \in Nat, after \in Nat, visits \in Nat :
           n = req.offset /\ size = PageSize /\ before = Place(r, W) /\ after = Place(r, V)
           /\ visits = req.visits[r] /\ size > 0
    BY <1>5, <1>9
  <2>5. seen[r] <= 1
    BY <1>5, <2>1, <2>2, <2>4
  <2>6. ASSUME seen[r] > 0, r \in V, req'.step # "done"
        PROVE  Place(r, V) < req'.offset
    <3>1. before < n + size
      BY <1>5, <2>1, <2>2, <2>3, <2>4, <2>6
    <3>2. req'.offset = n + size
      BY <1>6, <2>4, <2>6
    <3> QED BY <2>3, <2>4, <3>1, <3>2
  <2> QED BY <2>5, <2>6
<1> QED BY <1>2, <1>6, <1>8, <1>10, <1>11 DEF WalkInv

\* A request comes: nothing has been seen.
LEMMA AskWalks ==
  ASSUME IndInv, IndInv', NEW asked \in Asked, Ask(asked[1], asked[2])
  PROVE  WalkInv'
<1>1. watch'.stayed = Watched' /\ req'.offset = 0 /\ req'.visits = Nothing /\ req'.step = "sectors"
  BY DEF Ask, NoRequest, NoWatch
<1>2. req'.kind \in Lists => Watched' \subseteq 1..MaxRooms
  BY WatchedIsKnown
<1>3. ASSUME Walking', NEW r \in Watched'
      PROVE  Place(r, Watched') >= 0
  <2>1. Place(r, Watched') \in Nat
    BY <1>2, <1>3, PlaceOfRow DEF Walking
  <2> QED BY <2>1
<1>4. \A r \in 1..MaxRooms : req'.visits[r] = 0
  BY <1>1 DEF Nothing
<1> QED BY <1>1, <1>3, <1>4 DEF WalkInv

\* A question is no walk.
LEMMA QuestionsWalkNowhere ==
  ASSUME IndInv, AttendanceStatus \/ AnalysisStatus \/ TimeMetrics \/ CsatRatings \/ CsatScoreByAgents
  PROVE  WalkInv'
<1>1. req.kind \in Questions /\ req'.kind = req.kind
  BY DEF AttendanceStatus, AnalysisStatus, TimeMetrics, CsatRatings, CsatScoreByAgents, CsatWindow,
     Begin, Tally, AskChats, Questions, IndInv, TypeOK
<1> QED BY <1>1 DEF WalkInv, Walking, Lists, Questions

\* The walk goes on in every step.
LEMMA StepsWalk == ASSUME IndInv, IndInv', WalkInv, [Next]_vars PROVE WalkInv'
<1>1. CASE ChatsNext
  <2>1. PICK rms, del, back : EventStep(rms, del, back)
    BY <1>1, ChatsSteps DEF IndInv
  <2>2. req' = req /\ req.step # "done"
    BY <2>1 DEF EventStep, Event
  <2>3. CASE Walking
    <3>1. PICK moved : watch' = Followed(back, moved)
      BY <2>1, <2>3 DEF EventStep, Event, Walking, Lists
    <3> QED BY <2>2, <2>3, <3>1, ChangesAreFollowed
  <2>4. CASE ~Walking
    BY <2>2, <2>4 DEF WalkInv, Walking
  <2> QED BY <2>3, <2>4
<1>2. CASE \E asked \in Asked : Ask(asked[1], asked[2])
  BY <1>2, AskWalks
<1>3. CASE ExpandAllTokens
  <2>1. CASE Walking
    BY <1>3, <2>1, ExpandFacts, ExpansionsAreResolved DEF WalkInv, Walking, Dimensions
  <2>2. CASE ~Walking
    BY <1>3, <2>2, ExpandFacts DEF WalkInv, Walking
  <2> QED BY <2>1, <2>2
<1>4. CASE ListPage
  BY <1>4, PageWalks
<1>5. CASE UNCHANGED vars
  <2>1. CASE Walking
    <3>1. PICK list \in Lists : list = req.kind /\ list = req'.kind
      BY <1>5, <2>1 DEF vars, Walking
    <3>2. PICK f : f = Resolved(req.filters)
      OBVIOUS
    <3>3. Resolved(req.filters)' = f
      BY <1>5, <3>2, AnsweringFacts DEF vars
    <3>4. Watched' = Rows(list, f)' /\ Watched = Rows(list, f)
      BY <1>5, <3>1, <3>2, <3>3 DEF Watched, vars
    <3>5. Watched' = Watched
      BY <1>5, <3>4, RowsStay DEF vars
    <3> QED BY <1>5, <3>5 DEF WalkInv, Walking, vars
  <2>2. CASE ~Walking
    BY <1>5, <2>2 DEF WalkInv, Walking, vars
  <2> QED BY <2>1, <2>2
<1> QED BY <1>1, <1>2, <1>3, <1>4, <1>5, QuestionsWalkNowhere DEF Next, Answering, ChatsNext

-----------------------------------------------------------------------------
(* The breakdowns.                                                         *)

TimesOf(f) == [r \in Ids |-> Times(f, r)]

\* A count is a sum over rooms.
LEMMA CountIs ==
  ASSUME TypeOK, NEW f \in Filters, NEW S \in SUBSET Ids
  PROVE  /\ IsFiniteSet(S) /\ \A r \in Ids : TimesOf(f)[r] \in Nat
         /\ Count(f, S) = SumOver(TimesOf(f), S) /\ Count(f, S) \in Nat
<1>1. IsFiniteSet(S)
  <2>1. PICK m \in Int : m = Len(rooms)
    BY RoomTypes
  <2>2. IsFiniteSet(1..m)
    BY FS_Interval
  <2> QED BY <2>1, <2>2, FS_Subset DEF Ids
<1>2. \A r \in Ids : TimesOf(f)[r] \in Nat
  <2>1. Cardinality(Tags) \in Nat
    BY NamesAssumption, FS_CardinalityType
  <2> QED BY <2>1, TimesOfMatch DEF TimesOf
<1> DEFINE g == [r \in S |-> Times(f, r)]
<1>3. DOMAIN g = S /\ \A r \in S : g[r] = TimesOf(f)[r]
  BY DEF TimesOf
<1>4. Count(f, S) = SumOver(g, DOMAIN g)
  BY DEF Count, Total
<1> HIDE DEF g
<1>5. Count(f, S) = SumOver(TimesOf(f), S)
  BY <1>1, <1>3, <1>4, SumEqual
<1>6. SumOver(TimesOf(f), S) \in Nat
  BY <1>1, <1>2, SumType
<1> QED BY <1>1, <1>2, <1>5, <1>6

\* Gathering rows by sector leaves their sum.
LEMMA BySectorTotal ==
  ASSUME NEW rows, IsFiniteSet(DOMAIN rows), \A x \in DOMAIN rows : rows[x] \in Nat
  PROVE  TotalOf(BySector(rows)) = Total(rows)
<1> DEFINE D == DOMAIN rows
           K == {SectorOf[x] : x \in D}
           part(s) == {x \in D : SectorOf[x] = s}
           h == [s \in K |-> Total(BySector(rows)[s])]
<1>1. IsFiniteSet(K)
  BY FiniteImage
<1>2. ASSUME NEW s \in K PROVE h[s] = SumOver(rows, part(s))
  <2> DEFINE of == [x \in part(s) |-> rows[x]]
  <2>1. BySector(rows)[s] = of /\ DOMAIN of = part(s) /\ \A x \in part(s) : of[x] = rows[x]
    BY DEF BySector
  <2>2. IsFiniteSet(part(s))
    BY FS_Subset
  <2> HIDE DEF of, part
  <2>3. SumOver(of, part(s)) = SumOver(rows, part(s))
    BY <2>1, <2>2, SumEqual
  <2> QED BY <2>1, <2>3 DEF Total
<1>3. DOMAIN h = K /\ DOMAIN BySector(rows) = K /\ TotalOf(BySector(rows)) = SumOver(h, K)
  BY DEF BySector, TotalOf, Total
<1>4. \A s \in K : h[s] = SumOver(rows, {x \in D : SectorOf[x] = s})
  BY <1>2
<1>5. \A x \in D : SectorOf[x] \in K
  OBVIOUS
<1> HIDE DEF h, K, part
<1>6. SumOver(h, K) = SumOver(rows, D)
  BY <1>1, <1>4, <1>5, SumParts
<1> QED BY <1>3, <1>6 DEF Total

\* The rooms of the queues are the rooms counted.
LEMMA QueueTotal ==
  ASSUME TypeOK, NEW f \in Filters, NEW S \in SUBSET Ids
  PROVE  TotalOf(GroupByQueueCount(f, S)) = Count(f, S)
<1> DEFINE hit == {r \in S : Times(f, r) > 0}
           Q == {rooms[r].queue : r \in hit}
           queue == [r \in Ids |-> rooms[r].queue]
           part(q) == {r \in hit : rooms[r].queue = q}
           rows == QueueRows(f, S)
<1>1. hit \in SUBSET Ids /\ S \ hit \in SUBSET Ids /\ S = hit \cup (S \ hit)
  OBVIOUS
<1>2. rows = [q \in Q |-> Count(f, part(q))]
  BY DEF QueueRows
<1>3. IsFiniteSet(hit) /\ IsFiniteSet(S \ hit)
  <2> HIDE DEF hit
  <2> QED BY <1>1, CountIs
<1>4. IsFiniteSet(Q)
  <2> HIDE DEF hit
  <2>1. IsFiniteSet({queue[r] : r \in hit})
    <3> HIDE DEF queue
    <3> QED BY <1>3, FiniteImage
  <2>2. Q = {queue[r] : r \in hit}
    BY <1>1
  <2> QED BY <2>1, <2>2
<1>5. ASSUME NEW q \in Q
      PROVE  rows[q] = SumOver(TimesOf(f), {r \in hit : queue[r] = q}) /\ rows[q] \in Nat
  <2>1. part(q) \in SUBSET Ids /\ part(q) = {r \in hit : queue[r] = q}
    BY <1>1
  <2>2. rows[q] = Count(f, part(q))
    BY <1>2
  <2> HIDE DEF part
  <2> QED BY <2>1, <2>2, CountIs
<1>6. \A r \in hit : queue[r] \in Q /\ TimesOf(f)[r] \in Nat
  <2>1. \A r \in Ids : TimesOf(f)[r] \in Nat
    BY <1>1, CountIs
  <2> QED BY <1>1, <2>1
<1>7. \A r \in S \ hit : TimesOf(f)[r] = 0
  <2>1. \A r \in Ids : TimesOf(f)[r] \in Nat /\ TimesOf(f)[r] = Times(f, r)
    BY <1>1, CountIs DEF TimesOf
  <2> QED BY <2>1
<1>8. DOMAIN rows = Q
  BY <1>2
<1> HIDE DEF hit, Q, queue, part, rows
<1>9. SumOver(rows, Q) = SumOver(TimesOf(f), hit)
  BY <1>3, <1>4, <1>5, <1>6, SumParts
<1>10. SumOver(TimesOf(f), S) = SumOver(TimesOf(f), hit)
  <2>1. \A r \in hit \cup (S \ hit) : TimesOf(f)[r] \in Nat
    BY <1>1, CountIs
  <2>2. SumOver(TimesOf(f), S \ hit) = 0
    BY <1>3, <1>7, SumZero
  <2>3. hit \cap (S \ hit) = {}
    OBVIOUS
  <2>4. SumOver(TimesOf(f), hit \cup (S \ hit))
          = SumOver(TimesOf(f), hit) + SumOver(TimesOf(f), S \ hit)
    BY <1>3, <2>1, <2>3, SumUnion
  <2>5. SumOver(TimesOf(f), hit) \in Nat
    BY <1>3, <1>6, SumType
  <2> QED BY <1>1, <2>2, <2>4, <2>5
<1>11. TotalOf(BySector(rows)) = SumOver(rows, Q)
  BY <1>4, <1>5, <1>8, BySectorTotal DEF Total
<1> QED BY <1>9, <1>10, <1>11, CountIs DEF GroupByQueueCount, rows

\* The rooms of the hours are the rooms counted.
LEMMA HoursTotal ==
  ASSUME TypeOK, NEW f \in Filters, NEW S \in SUBSET Ids
  PROVE  Total(HourCounts(f, S)) = Count(f, S)
<1> DEFINE hour == [r \in Ids |-> (rooms[r].created + tz) % Day]
           K == 0..(Day - 1)
           h == HourCounts(f, S)
<1>1. \A r \in S : hour[r] \in K
  <2> TAKE r \in S
  <2>1. rooms[r].created \in Int /\ tz \in Int /\ Day \in Nat \ {0}
    BY RoomTypes, BoundsAssumption DEF RoomRecords, TypeOK
  <2>2. rooms[r].created + tz \in Int
    BY <2>1
  <2>3. \A n \in Int : n % Day \in 0..(Day - 1)
    BY <2>1
  <2> QED BY <2>2, <2>3
<1>2. IsFiniteSet(K)
  <2>1. PICK m \in Int : m = Day - 1
    BY BoundsAssumption
  <2>2. IsFiniteSet(0..m)
    BY FS_Interval
  <2> QED BY <2>1, <2>2
<1>3. ASSUME NEW k \in K
      PROVE  h[k] = SumOver(TimesOf(f), {r \in S : hour[r] = k})
  <2> DEFINE part == {r \in S : (rooms[r].created + tz) % Day = k}
  <2>1. part \in SUBSET Ids /\ part = {r \in S : hour[r] = k}
    OBVIOUS
  <2>2. h[k] = Count(f, part)
    BY DEF HourCounts
  <2> HIDE DEF part
  <2> QED BY <2>1, <2>2, CountIs
<1>4. DOMAIN h = K
  BY DEF HourCounts
<1>5. IsFiniteSet(S) /\ \A r \in S : TimesOf(f)[r] \in Nat
  BY CountIs
<1> HIDE DEF hour, K, h
<1>6. SumOver(h, K) = SumOver(TimesOf(f), S)
  BY <1>1, <1>2, <1>3, <1>5, SumParts
<1> QED BY <1>4, <1>6, CountIs DEF Total, h

\* Under a chosen tag are the rooms a count for that tag alone would find.
LEMMA TagsTotal ==
  ASSUME TypeOK, NEW f \in Filters, All \notin f.tags, NEW S \in SUBSET Ids
  PROVE  TagsAgree(f, GroupByTagCount(f, S), S)
<1> SUFFICES ASSUME NEW t \in f.tags, SectorOf[t] \notin deleted
             PROVE  IF Count([f EXCEPT !.tags = {t}], S) = 0
                    THEN \A s \in DOMAIN GroupByTagCount(f, S) :
                           t \notin DOMAIN GroupByTagCount(f, S)[s]
                    ELSE GroupByTagCount(f, S)[SectorOf[t]][t] = Count([f EXCEPT !.tags = {t}], S)
  BY DEF TagsAgree
<1> DEFINE g == [f EXCEPT !.tags = {t}]
           hit == {r \in S : Matches(f, r)}
           R == {r \in hit : t \in rooms[r].tags}
           rows == TagRows(f, S)
<1>1. g \in Filters /\ g.sectors = f.sectors /\ g.queues = f.queues /\ g.tags = {t}
  BY DEF Filters
<1>2. ASSUME NEW r \in S PROVE TimesOf(g)[r] = IF r \in R THEN 1 ELSE 0
  <2>1. Matches(g, r) <=> Matches(f, r) /\ t \in rooms[r].tags
    <3> HIDE DEF g
    <3> QED BY <1>1 DEF Matches, Clause
  <2>2. TimesOf(g)[r] = Times(g, r)
    BY DEF TimesOf
  <2>3. Matches(g, r) => Times(g, r) = 1
    <3> HIDE DEF g
    <3>1. Matches(g, r) => rooms[r].tags \cap g.tags = {t}
      BY <1>1, <2>1
    <3>2. Cardinality({t}) = 1
      BY FS_Singleton
    <3> QED BY <1>1, <3>1, <3>2 DEF Times
  <2>4. ~Matches(g, r) => Times(g, r) = 0
    <3> HIDE DEF g
    <3> QED BY DEF Times
  <2> HIDE DEF g
  <2> QED BY <2>1, <2>2, <2>3, <2>4
<1>3. R \subseteq S
  OBVIOUS
<1> DEFINE own == Count(g, S)
<1>4. own = Cardinality(R) /\ IsFiniteSet(R)
  <2> HIDE DEF g, R
  <2>1. IsFiniteSet(S) /\ own = SumOver(TimesOf(g), S)
    BY <1>1, CountIs
  <2>2. SumOver(TimesOf(g), S) = Cardinality(R)
    BY <1>2, <1>3, <2>1, SumOnes
  <2> QED BY <1>3, <2>1, <2>2, FS_Subset
<1>5. own = 0 <=> R = {}
  <2> HIDE DEF R, own
  <2> QED BY <1>4, FS_EmptySet
<1>6. /\ DOMAIN rows = {x \in UNION {rooms[r].tags : r \in hit} : SectorOf[x] \notin deleted}
      /\ t \in DOMAIN rows => rows[t] = Cardinality(R)
  BY DEF TagRows
<1>7. t \in DOMAIN rows <=> R # {}
  BY <1>6
<1>8. GroupByTagCount(f, S) = BySector(rows)
  BY DEF GroupByTagCount
<1> HIDE DEF rows, R, hit, own
<1>9. \A s \in DOMAIN BySector(rows) : t \in DOMAIN BySector(rows)[s] => t \in DOMAIN rows
  BY DEF BySector
<1>10. t \in DOMAIN rows => BySector(rows)[SectorOf[t]][t] = rows[t]
  BY DEF BySector
<1> QED BY <1>4, <1>5, <1>6, <1>7, <1>8, <1>9, <1>10 DEF own

-----------------------------------------------------------------------------
(* The theorems.                                                           *)

\* The inductive invariant holds in every reachable state.
THEOREM Invariance == Spec => []IndInv
<1>1. ASSUME IndInv, Next PROVE IndInv'
  <2>1. CASE ChatsNext
    BY <1>1, <2>1, ChatsSteps, EventKeeps DEF IndInv
  <2>2. CASE \E asked \in Asked : Ask(asked[1], asked[2])
    BY <1>1, <2>2, AskKeeps
  <2>3. CASE Answering
    BY <1>1, <2>3, ExpandKeeps, AttendanceKeeps, AnalysisKeeps, TimeMetricsKeeps, CsatKeeps,
       PageKeeps DEF Answering, CsatRatings, CsatScoreByAgents
  <2> QED BY <1>1, <2>1, <2>2, <2>3 DEF Next, ChatsNext
<1>2. ASSUME IndInv, UNCHANGED vars PROVE IndInv'
  <2>1. TypeOK' /\ RoomsInv' /\ KindInv' /\ RatingsInv'
    BY <1>2 DEF vars, IndInv, TypeOK, RoomsInv, KindInv, RatingsInv, Midnight, LastSecond, LocalDate
  <2>2. FilterInv'
    BY <1>2, AnsweringFacts DEF vars, IndInv, FilterInv, FilterOf, Expanded
  <2>3. StayedInv' /\ CountedInv' /\ HeadingInv'
    BY <1>2, AnsweringFacts, WatchedStays DEF vars, IndInv, StayedInv, Expanded, Clause, CountedInv,
       TagsVanished, HeadingInv
  <2>4. FinishedInv'
    <3>1. (StartOfDay(req.at)..req.at)' = StartOfDay(req.at)..req.at
      BY <1>2 DEF vars, StartOfDay, Midnight, UtcDate
    <3> QED BY <1>2, <3>1, AnsweringFacts DEF vars, IndInv, FinishedInv
  <2> QED BY <2>1, <2>2, <2>3, <2>4 DEF IndInv
<1>3. IndInv /\ [Next]_vars => IndInv'
  BY <1>1, <1>2
<1> QED BY <1>3, InitIndInv, PTL DEF Spec

\* Every variable keeps its type, and no filter sent for a page still has the token
\* "__all__".
THEOREM TypeCorrect == Spec => []TypeOK
<1>1. IndInv => TypeOK
  BY DEF IndInv
<1> QED BY <1>1, Invariance, PTL

\* For any number of rooms and any filters: the card counts every room that stayed
\* open, in one order of its queries (get_attendance_status), and a room that did
\* not move under one heading.
THEOREM AttendanceIsComplete == Spec => []AttendanceMissesNothing
<1>1. ASSUME IndInv, req.kind = "attendance", req.step = "done"
      PROVE  /\ TagsVanished \/ \A r \in watch.stayed :
                  req.counts["is_waiting"][r] + req.counts["in_progress"][r] > 0
             /\ \A r \in Ids \ watch.moved : Cardinality({c \in Counts : req.counts[c][r] > 0}) <= 1
  <2>1. ASSUME ~TagsVanished, NEW r \in watch.stayed
        PROVE  req.counts["is_waiting"][r] + req.counts["in_progress"][r] > 0
    <3>1. req.counts["is_waiting"][r] \in Nat /\ req.counts["in_progress"][r] \in Nat
      BY <1>1, RequestTypes DEF IndInv, Counts
    <3>2. req.counts["is_waiting"][r] > 0 \/ req.counts["in_progress"][r] > 0
      BY <1>1, <2>1 DEF IndInv, CountedInv
    <3> QED BY <3>1, <3>2
  <2>2. ASSUME NEW r \in Ids \ watch.moved
        PROVE  Cardinality({c \in Counts : req.counts[c][r] > 0}) <= 1
    <3> DEFINE under == {c \in Counts : req.counts[c][r] > 0}
    <3>1. \E c \in Counts : under \subseteq {c}
      BY <1>1 DEF IndInv, HeadingInv, Counts, Waiting, Ongoing
    <3>2. PICK c \in Counts : under \subseteq {c}
      BY <3>1
    <3>3. IsFiniteSet({c}) /\ Cardinality({c}) = 1
      BY FS_Singleton
    <3> QED BY <3>2, <3>3, FS_Subset
  <2> QED BY <2>1, <2>2
<1>2. IndInv => AttendanceMissesNothing
  BY <1>1 DEF AttendanceMissesNothing
<1> QED BY <1>2, Invariance, PTL

\* For any offset from UTC and any length of the day: what is finished "today" is
\* what was closed in the project's day, when the day of UTC is the same
\* (datetime.now() in TIME_ZONE, localized afterwards), and ratings without dates
\* are of the project's day.
THEOREM UndatedIsToday == Spec => []DayOfProject
<1>1. ASSUME IndInv, req.step = "done",
             req.kind = "attendance" \/ (req.kind = "analysis"
                                         /\ NoDate \in {req.choice.start, req.choice.end}),
             UtcDate(req.at) = LocalDate(req.at)
      PROVE  {r \in Ids : req.counts["finished"][r] > 0} = ClosedOn(LocalDate(req.at))
  <2> DEFINE today == LocalDate(req.at)
  <2>1. TypeOK /\ Ids \subseteq 1..MaxRooms /\ req.at \in Nat
    BY <1>1, RoomTypes, RequestTypes DEF Ids, IndInv, RoomsInv
  <2>2. today \in Int /\ Midnight(today) \in Int /\ LastSecond(today) \in Int
        /\ req.at \in Midnight(today)..LastSecond(today)
    BY <2>1, DayIsWindow
  <2>3. StartOfDay(req.at) = Midnight(today)
    BY <1>1 DEF StartOfDay
  <2>4. ASSUME NEW t \in Nat, t <= req.at
        PROVE  t \in StartOfDay(req.at)..req.at <=> LocalDate(t) = today
    BY <2>1, <2>2, <2>3, <2>4, DayIsWindow
  <2>5. \A r \in Ids : req.counts["finished"][r] > 0 <=>
                         r \in Closed(StartOfDay(req.at)..req.at) /\ Matches(req.filters, r)
    BY <1>1, <2>1 DEF IndInv, FinishedInv
  <2>6. ASSUME NEW r \in Ids
        PROVE  rooms[r].ended \in Nat
    BY <2>1, RoomTypes, BoundsAssumption DEF RoomRecords
  <2>7. ASSUME NEW r \in Ids
        PROVE  rooms[r].ended \in StartOfDay(req.at)..req.at
                 <=> rooms[r].ended <= req.at /\ LocalDate(rooms[r].ended) = today
    BY <2>1, <2>4, <2>6
  <2> QED BY <2>5, <2>7 DEF Closed, ClosedOn
<1>2. ASSUME IndInv, req.step = "done", req.kind \in {"csat_ratings", "csat_score"},
             {req.choice.start, req.choice.end} = {NoDate}, NEW t \in 0..MaxNow
      PROVE  t \in req.from..req.to <=> LocalDate(t) = LocalDate(req.at)
  <2>1. TypeOK /\ req.at \in Nat /\ t \in Nat
    BY <1>2, RequestTypes, BoundsAssumption DEF IndInv
  <2>2. LocalDate(req.at) \in Int
    BY <2>1, DayIsWindow
  <2>3. req.from = Midnight(LocalDate(req.at)) /\ req.to = LastSecond(LocalDate(req.at))
    BY <1>2 DEF IndInv, RatingsInv
  <2> QED BY <2>1, <2>2, <2>3, DayIsWindow
<1>3. IndInv => DayOfProject
  BY <1>1, <1>2 DEF DayOfProject
<1> QED BY <1>3, Invariance, PTL

\* For any lists, page size and number of rooms, and whatever happens between two
\* pages: a browser that follows the links misses what stayed listed only if
\* something left, and sees a row twice only if something came (the pagination of
\* Chats, forwarded).
THEOREM WalksAreComplete == Spec => []WalkVisitsAll
<1>1. Init => WalkInv
  BY DEF Init, NoRequest, WalkInv, Walking, Lists
<1>2. IndInv /\ IndInv' /\ WalkInv /\ [Next]_vars => WalkInv'
  BY StepsWalk
<1>3. WalkInv => WalkVisitsAll
  BY DEF WalkInv, Walking, WalkVisitsAll
<1> QED BY <1>1, <1>2, <1>3, Invariance, PTL DEF Spec

\* Every breakdown of the dashboards, by queue, deleted or not, by tag and by hour, adds
\* up to what a count would answer at the same moment.
THEOREM BreakdownsAddUp == Spec => []BreakdownsAgree
<1>1. ASSUME IndInv, NEW asked \in Asked, NEW f, f = Resolved(asked[2])
      PROVE  /\ \A chip \in Chips :
                 /\ TotalOf(VolumeByQueue(f, chip)) = Count(f, VolumeRooms(chip))
                 /\ TotalOf(AnalysisVolumeByQueue(f, chip)) = Count(f, AnalysisVolumeRooms(f, chip))
                 /\ TagsAgree(f, VolumeByTag(f, chip), VolumeRooms(TagChip(chip)))
                 /\ TagsAgree(f, AnalysisVolumeByTag(f, chip), AnalysisVolumeRooms(f, TagChip(chip)))
             /\ Total(PeaksInHumanService(f))
                  = Count(f, {r \in Ids : rooms[r].created >= StartOfDay(now)})
             /\ Total(AnalysisPeaksInHumanService(f)) = Count(f, Created(Period(f, now)))
  <2>1. asked[2] \in Filters
    BY AskedAssumption
  <2>2. f \in Filters /\ All \notin f.tags
    BY <1>1, <2>1, ResolvedFilters, NamesAssumption
  <2>3. TypeOK
    BY <1>1 DEF IndInv
  <2>4. \A chip : VolumeRooms(chip) \in SUBSET Ids /\ AnalysisVolumeRooms(f, chip) \in SUBSET Ids
    BY DEF VolumeRooms, AnalysisVolumeRooms, Waiting, Ongoing, Closed, Created
  <2>5. {r \in Ids : rooms[r].created >= StartOfDay(now)} \in SUBSET Ids
        /\ Created(Period(f, now)) \in SUBSET Ids
    BY DEF Created
  <2>6. /\ Total(PeaksInHumanService(f))
             = Count(f, {r \in Ids : rooms[r].created >= StartOfDay(now)})
        /\ Total(AnalysisPeaksInHumanService(f)) = Count(f, Created(Period(f, now)))
    BY <2>2, <2>3, <2>5, HoursTotal DEF PeaksInHumanService, AnalysisPeaksInHumanService
  <2>7. ASSUME NEW chip \in Chips
        PROVE  /\ TotalOf(VolumeByQueue(f, chip)) = Count(f, VolumeRooms(chip))
               /\ TotalOf(AnalysisVolumeByQueue(f, chip)) = Count(f, AnalysisVolumeRooms(f, chip))
    BY <2>2, <2>3, <2>4, QueueTotal DEF VolumeByQueue, AnalysisVolumeByQueue
  <2>8. ASSUME NEW chip \in Chips
        PROVE  /\ TagsAgree(f, VolumeByTag(f, chip), VolumeRooms(TagChip(chip)))
               /\ TagsAgree(f, AnalysisVolumeByTag(f, chip), AnalysisVolumeRooms(f, TagChip(chip)))
    BY <2>2, <2>3, <2>4, TagsTotal DEF VolumeByTag, AnalysisVolumeByTag
  <2> QED BY <2>6, <2>7, <2>8
<1>2. IndInv => BreakdownsAgree
  BY <1>1 DEF BreakdownsAgree
<1> QED BY <1>2, Invariance, PTL
=============================================================================
