----------------------------- MODULE VtexOrders -----------------------------
(***************************************************************************)
(* The orders of a utm_source in a range of dates, read from VTEX page by  *)
(* page, and the answers kept in redis.                                    *)
(*                                                                         *)
(* VTEX gives a limited number of pages of a query.  A longer listing is   *)
(* read in windows: a window is the pages of a query, read by threads in   *)
(* any order, and the next one asks for what was authorized up to the      *)
(* oldest order seen.  Orders are invoiced meanwhile, and shift the pages. *)
(* An order is its number, which stands for its id and for its value.      *)
(***************************************************************************)
EXTENDS Integers, FiniteSetsExt, Functions

CONSTANTS
    Web,          \* web processes that list orders
    Orders,       \* a set of positive numbers
    Layouts,      \* bound: the dates orders may have, functions of Orders
    PageSize,     \* VTEX_ORDERS_API_PAGE_SIZE
    WindowPages,  \* VTEX_ORDERS_API_MAX_PAGES
    MaxPages,     \* VTEX_ORDERS_MAX_PAGES_CLIENT_DEFINED
    MaxLate       \* bound: orders invoiced while listings are made

ASSUME OrdersAssumption ==
    /\ Orders \subseteq Nat \ {0} /\ IsFiniteSet(Orders)
    /\ \A d \in Layouts : d \in [Orders -> Int]
    /\ {PageSize, WindowPages, MaxPages} \subseteq Nat \ {0} /\ MaxLate \in Nat

VARIABLES
    date,      \* authorizedDate of each order
    invoiced,  \* the orders VTEX lists
    list,      \* the listing each process makes
    listed     \* answers in redis, by range

ordersVars == <<date, invoiced, list, listed>>

InRange(span) == {o \in Orders : date[o] \in span.start..span.end}
Listable(span) == InRange(span) \cap invoiced

NoListing == [step |-> "idle", range |-> [start |-> 0, end |-> 0], until |-> 0, quota |-> 0,
              rounds |-> 0, todo |-> {}, sell |-> 0, total |-> 0, seen |-> {},
              had |-> {}, again |-> 0, late |-> 0, cuts |-> {}]

OrdersTypeOK ==
    /\ date \in Layouts /\ invoiced \subseteq Orders
    /\ \A a \in Web :
        /\ list[a].step \in {"idle", "first", "pages", "done", "failed"}
        /\ list[a].quota \in 0..MaxPages /\ list[a].rounds \in 0..MaxPages + 1
        /\ list[a].todo \subseteq 1..WindowPages
        /\ list[a].sell \in Nat /\ list[a].total \in Nat /\ list[a].seen \subseteq Orders
        /\ list[a].late \in Nat /\ list[a].again \in Nat
    /\ \A k \in DOMAIN listed : k \in [start: Int, end: Int] /\ listed[k].step = "done"

-----------------------------------------------------------------------------
(* The shop.                                                               *)

\* An order authorized before or just now becomes one VTEX lists.
Invoice(o) ==
    /\ o \notin invoiced
    /\ \E a \in Web : list[a].step = "pages" /\ list[a].late < MaxLate
    /\ invoiced' = invoiced \cup {o}
    /\ list' = [a \in Web |-> IF list[a].step = "pages" /\ o \in InRange(list[a].range)
                              THEN [list[a] EXCEPT !.late = @ + 1] ELSE list[a]]
    /\ UNCHANGED <<date, listed>>

\* Newest first.
Newer(o, p) == date[o] > date[p] \/ (date[o] = date[p] /\ o > p)
Place(o, orders) == Cardinality({p \in orders : Newer(p, o)})
PageOf(span, page) ==
    LET orders == Listable(span)
    IN {o \in orders : Place(o, orders) \in (page - 1) * PageSize..page * PageSize - 1}
Pages(span) == (Cardinality(Listable(span)) + PageSize - 1) \div PageSize

-----------------------------------------------------------------------------
(* VtexOrdersRestClient.list and get_pages                                 *)

\* The key of redis is made of the filters before they are narrowed.
BeginListing(a, range) ==
    list' = [list EXCEPT ![a] =
      IF range \in DOMAIN listed
      THEN [listed[range] EXCEPT !.step = "done"]
      ELSE [NoListing EXCEPT !.step = "first", !.range = range, !.until = range.end]]

\* The next window, if the rounds and the pages are not used up.
Window(r) ==
    [r EXCEPT !.todo = 1..IF r.rounds = 0 THEN 0
                          ELSE Min({WindowPages, r.quota}),
              !.rounds = Max({@ - 1, 0})]

\* Mutant of Rounds: a window for each whole number of pages.
RoundsWhole(pages) == pages \div WindowPages

Rounds(pages) == pages \div WindowPages + 1

\* The first page is read for the number of pages, and read again with the others.
FirstPage(a) ==
    /\ list[a].step = "first"
    /\ LET range == list[a].range
           pages == Min({Pages(range), MaxPages})
       IN list' = [list EXCEPT ![a] =
            Window([@ EXCEPT !.step = "pages", !.quota = pages, !.rounds = Rounds(pages),
                             !.had = Listable(range)])]
    /\ UNCHANGED <<date, invoiced, listed>>

Oldest(orders) == Min({date[o] : o \in orders})

\* Mutant of Count: an order read again is counted again.
CountAll(r, orders) ==
    [r EXCEPT !.sell = @ + Cardinality(orders), !.total = @ + MapThenSumSet(LAMBDA o : o, orders),
              !.seen = @ \cup orders]

\* An order read before is not counted again.
Count(r, orders) ==
    LET new == orders \ r.seen IN
    [r EXCEPT !.sell = @ + Cardinality(new), !.total = @ + MapThenSumSet(LAMBDA o : o, new),
              !.seen = @ \cup new, !.again = @ + Cardinality(orders \ new)]

\* When the window's pages are all read, the query ends at the oldest order seen.
Narrow(r) ==
    IF r.todo # {} THEN r
    ELSE LET oldest == IF r.seen = {} THEN r.until ELSE Oldest(r.seen)
             rest == r.quota - Min({WindowPages, r.quota})
         IN Window([r EXCEPT !.until = oldest, !.quota = rest,
                             !.cuts = IF rest > 0 THEN @ \cup {oldest} ELSE @])

ReadPage(a) ==
    /\ list[a].step = "pages"
    /\ \E page \in list[a].todo :
         LET r == list[a]
             orders == PageOf([start |-> r.range.start, end |-> r.until], page)
         IN list' = [list EXCEPT ![a] = Narrow([Count(r, orders) EXCEPT !.todo = @ \ {page}])]
    /\ UNCHANGED <<date, invoiced, listed>>

\* VTEX answers with an error, or does not answer.
ListingFails(a) ==
    /\ list[a].step \in {"first", "pages"}
    /\ list' = [list EXCEPT ![a] = [NoListing EXCEPT !.step = "failed"]]
    /\ UNCHANGED <<date, invoiced, listed>>

FinishListing(a) ==
    /\ list[a].step = "pages" /\ list[a].todo = {}
    /\ list' = [list EXCEPT ![a].step = "done"]
    /\ listed' = [k \in DOMAIN listed \cup {list[a].range} |->
                    IF k = list[a].range THEN list'[a] ELSE listed[k]]
    /\ UNCHANGED <<date, invoiced>>

\* VTEX_ORDERS_API_CACHE_TTL
ForgetListing(range) ==
    /\ range \in DOMAIN listed
    /\ listed' = Restrict(listed, DOMAIN listed \ {range})
    /\ UNCHANGED <<date, invoiced, list>>

ListingStep(a) == FirstPage(a) \/ ReadPage(a) \/ ListingFails(a) \/ FinishListing(a)

-----------------------------------------------------------------------------
(* Properties.                                                             *)

Made == {list[a] : a \in {b \in Web : list[b].step = "done"}}

\* An answer, made now or found in redis, is about orders of the range asked for,
\* each counted once however often the windows and the shifting pages gave it.
CountedOnce ==
    /\ \A r \in Made : r.sell = Cardinality(r.seen) /\ r.total = MapThenSumSet(LAMBDA o : o, r.seen)
    /\ \A k \in DOMAIN listed : listed[k].seen \subseteq InRange(k)

\* No date has as many orders as a window gives, so that every window gets further.
Spread(orders) ==
    \A o \in orders : Cardinality({p \in orders : date[p] = date[o]}) < WindowPages * PageSize

\* Of the orders there were when the first page was read, up to the pages read at
\* most, an answer misses no more than it has read twice and were invoiced while
\* it was made; and when none was and they are spread, no more than those of the
\* dates at which a window ended.
MissedBounded ==
    \A r \in Made :
        LET missed == Min({Cardinality(r.had), MaxPages * PageSize}) - Cardinality(r.seen \cap r.had)
        IN /\ missed <= r.again + r.late
           /\ r.late = 0 /\ Spread(r.had) =>
                missed <= Cardinality({o \in r.had : date[o] \in r.cuts})
=============================================================================
