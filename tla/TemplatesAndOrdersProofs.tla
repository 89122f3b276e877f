----------------------- MODULE TemplatesAndOrdersProofs -----------------------
(***************************************************************************)
(* For any number of processes, days, messages, orders and pages: an order *)
(* is counted once and few are missed, totals are the traffic, points add  *)
(* up, and a page is about one range.                                      *)
(***************************************************************************)
EXTENDS TemplatesAndOrders, FiniteSumProofs

-----------------------------------------------------------------------------
(* Numbers.                                                                *)

LEMMA Quotient ==
    ASSUME NEW n \in Nat, NEW k \in Nat \ {0}
    PROVE  n \div k \in Nat /\ (n \div k) * k <= n /\ n < (n \div k) * k + k
OBVIOUS

LEMMA MoreIsMore ==
    ASSUME NEW a \in Int, NEW b \in Int, a <= b, NEW k \in Nat
    PROVE  a * k <= b * k
OBVIOUS

LEMMA TimesSum ==
    ASSUME NEW a \in Int, NEW b \in Int, NEW k \in Int
    PROVE  (a + b) * k = a * k + b * k /\ a * k \in Int /\ b * k \in Int
OBVIOUS

-----------------------------------------------------------------------------
(* The places of orders in a listing, newest first, and its pages.         *)

PageAt(orders, i) == {o \in orders : Place(o, orders) \in (i - 1) * PageSize..i * PageSize - 1}
Slots(h, i) == {j \in 0..h - 1 : j \in (i - 1) * PageSize..i * PageSize - 1}

LEMMA PageBounds ==
    ASSUME NEW i \in Int
    PROVE  PageSize \in Nat \ {0} /\ i * PageSize \in Int /\ (i - 1) * PageSize = i * PageSize - PageSize
BY OrdersAssumption

LEMMA OrdersAreFew ==
    ASSUME NEW L, L \subseteq Orders
    PROVE  /\ IsFiniteSet(L) /\ Cardinality(L) \in Nat
           /\ \A o \in L : o \in Orders /\ o \in Nat /\ (date \in [Orders -> Int] => date[o] \in Int)
<1>1. IsFiniteSet(L)
  BY OrdersAssumption, FS_Subset
<1>2. \A o \in L : o \in Orders /\ o \in Nat
  BY OrdersAssumption
<1>3. Cardinality(L) \in Nat
  BY <1>1, FS_CardinalityType
<1>4. \A o \in L : date \in [Orders -> Int] => date[o] \in Int
  BY <1>2
<1> QED BY <1>1, <1>2, <1>3, <1>4

LEMMA PlaceFits ==
    ASSUME date \in [Orders -> Int], NEW L, L \subseteq Orders, NEW o \in L
    PROVE  /\ IsFiniteSet(L) /\ Cardinality(L) \in Nat
           /\ Place(o, L) \in 0..Cardinality(L) - 1
<1> DEFINE before == {p \in L : Newer(p, o)}
<1>1. IsFiniteSet(L) /\ \A p \in L : p \in Int /\ p \in Orders /\ date[p] \in Int
  BY OrdersAreFew
<1>2. before \subseteq L \ {o}
  BY <1>1 DEF Newer
<1>3. IsFiniteSet(L \ {o}) /\ Cardinality(L \ {o}) = Cardinality(L) - 1 /\ Cardinality(L) \in Nat
  BY <1>1, FS_RemoveElement, FS_CardinalityType
<1> HIDE DEF before
<1>4. Cardinality(before) \in Nat /\ Cardinality(before) <= Cardinality(L \ {o})
  BY <1>2, <1>3, CardLess
<1>5. Place(o, L) = Cardinality(before)
  BY DEF Place, before
<1> QED BY <1>1, <1>3, <1>4, <1>5

\* An order has fewer before it than one that comes after it.
LEMMA PlaceOrder ==
    ASSUME date \in [Orders -> Int], NEW L, L \subseteq Orders, NEW o \in L, NEW p \in L, Newer(p, o)
    PROVE  Place(p, L) < Place(o, L)
<1> DEFINE before(x) == {q \in L : Newer(q, x)}
<1>1. IsFiniteSet(L) /\ \A q \in L : q \in Int /\ q \in Orders /\ date[q] \in Int
  BY OrdersAreFew
<1>2. IsFiniteSet(before(p)) /\ IsFiniteSet(before(o)) /\ Cardinality(before(p)) \in Nat
  BY <1>1, FS_Subset, FS_CardinalityType
<1>3. p \notin before(p) /\ before(p) \cup {p} \subseteq before(o)
  <2>1. p \notin before(p) /\ p \in before(o)
    BY <1>1 DEF Newer
  <2>2. ASSUME NEW q \in before(p) PROVE q \in before(o)
    BY <1>1 DEF Newer
  <2> QED BY <2>1, <2>2
<1>4. Place(o, L) = Cardinality(before(o)) /\ Place(p, L) = Cardinality(before(p))
  BY DEF Place
<1> HIDE DEF before
<1>5. IsFiniteSet(before(p) \cup {p}) /\ Cardinality(before(p) \cup {p}) = Cardinality(before(p)) + 1
  BY <1>2, <1>3, FS_AddElement
<1>6. Cardinality(before(p) \cup {p}) <= Cardinality(before(o)) /\ Cardinality(before(o)) \in Nat
  BY <1>2, <1>3, CardLess
<1> QED BY <1>2, <1>4, <1>5, <1>6

LEMMA PlaceIsOwn ==
    ASSUME date \in [Orders -> Int], NEW L, L \subseteq Orders, NEW o \in L, NEW p \in L, o # p
    PROVE  Place(p, L) # Place(o, L)
<1>1. o \in Orders /\ p \in Orders /\ date[o] \in Int /\ date[p] \in Int /\ o \in Int /\ p \in Int
  BY OrdersAssumption
<1>2. Newer(o, p) \/ Newer(p, o)
  BY <1>1 DEF Newer
<1>3. Place(o, L) \in Int /\ Place(p, L) \in Int
  <2>1. Place(o, L) \in 0..Cardinality(L) - 1 /\ Place(p, L) \in 0..Cardinality(L) - 1 /\ Cardinality(L) \in Nat
    BY PlaceFits
  <2> QED BY <2>1
<1>4. CASE Newer(o, p)
  BY <1>3, <1>4, PlaceOrder
<1>5. CASE Newer(p, o)
  BY <1>3, <1>5, PlaceOrder
<1> QED BY <1>2, <1>4, <1>5

\* Every place is that of an order.
LEMMA PlaceFilled ==
    ASSUME date \in [Orders -> Int], NEW L, L \subseteq Orders, NEW j \in 0..Cardinality(L) - 1
    PROVE  \E o \in L : Place(o, L) = j
<1> DEFINE places == 0..Cardinality(L) - 1
           f == [o \in L |-> Place(o, L)]
<1>1. IsFiniteSet(L) /\ Cardinality(L) \in Nat
  BY OrdersAssumption, FS_Subset, FS_CardinalityType
<1>2. IsFiniteSet(places) /\ Cardinality(places) = Cardinality(L)
  BY <1>1, FS_Interval
<1>3. f \in Injection(L, places)
  <2>1. \A o \in L : Place(o, L) \in places
    BY PlaceFits
  <2>2. \A o, p \in L : Place(o, L) = Place(p, L) => o = p
    BY PlaceIsOwn
  <2> HIDE DEF places
  <2> QED BY <2>1, <2>2 DEF Injection, IsInjective
<1>4. f \in Surjection(L, places)
  <2> HIDE DEF places, f
  <2> QED BY <1>1, <1>2, <1>3, FS_Injection
<1>5. \E o \in L : f[o] = j
  <2> HIDE DEF f
  <2> QED BY <1>4 DEF Surjection
<1> QED BY <1>5

\* A page has at most so many orders, and no fewer than the places it has among
\* those of a part of the orders.
LEMMA PageHolds ==
    ASSUME date \in [Orders -> Int], NEW L, L \subseteq Orders, NEW i \in Nat \ {0},
           NEW h \in Nat, h <= Cardinality(L)
    PROVE  /\ IsFiniteSet(PageAt(L, i)) /\ Cardinality(PageAt(L, i)) \in Nat
           /\ Cardinality(PageAt(L, i)) <= PageSize
           /\ IsFiniteSet(Slots(h, i)) /\ Cardinality(Slots(h, i)) \in Nat
           /\ Cardinality(Slots(h, i)) <= Cardinality(PageAt(L, i))
<1> DEFINE orders == PageAt(L, i)
           room == (i - 1) * PageSize..i * PageSize - 1
           f == [o \in orders |-> Place(o, L)]
           g == [j \in Slots(h, i) |-> CHOOSE o \in L : Place(o, L) = j]
<1>1. IsFiniteSet(L) /\ Cardinality(L) \in Nat
  BY OrdersAssumption, FS_Subset, FS_CardinalityType
<1>2. orders \subseteq L /\ IsFiniteSet(orders) /\ Cardinality(orders) \in Nat
  BY <1>1, CardLess DEF PageAt
<1>3. IsFiniteSet(room) /\ Cardinality(room) = PageSize
  <2>1. PICK k \in Int : k = i * PageSize /\ (i - 1) * PageSize = k - PageSize
    BY PageBounds
  <2>2. PageSize \in Nat \ {0} /\ k - PageSize \in Int /\ k - 1 \in Int
    BY PageBounds
  <2>3. room = k - PageSize..k - 1
    BY <2>1
  <2>4. IsFiniteSet(k - PageSize..k - 1) /\ Cardinality(k - PageSize..k - 1) = PageSize
    BY <2>2, FS_Interval
  <2> QED BY <2>3, <2>4
<1>4. f \in Injection(orders, room)
  <2>1. \A o \in orders : Place(o, L) \in room
    BY DEF PageAt
  <2>2. \A o, p \in orders : Place(o, L) = Place(p, L) => o = p
    BY <1>2, PlaceIsOwn
  <2> HIDE DEF room, orders
  <2> QED BY <2>1, <2>2 DEF Injection, IsInjective
<1>5. Cardinality(orders) <= PageSize
  <2> HIDE DEF room, orders, f
  <2> QED BY <1>3, <1>4, FS_Injection
<1>6. g \in Injection(Slots(h, i), orders)
  <2>1. ASSUME NEW j \in Slots(h, i)
        PROVE  g[j] \in L /\ Place(g[j], L) = j
    <3>1. j \in 0..Cardinality(L) - 1
      BY <1>1 DEF Slots
    <3> QED BY <3>1, PlaceFilled
  <2>2. \A j \in Slots(h, i) : g[j] \in orders
    BY <2>1 DEF Slots, PageAt
  <2> HIDE DEF orders
  <2>3. g \in [Slots(h, i) -> orders]
    BY <2>2
  <2>4. \A j, k \in Slots(h, i) : g[j] = g[k] => j = k
    BY <2>1
  <2> HIDE DEF g
  <2> QED BY <2>3, <2>4 DEF Injection, IsInjective
<1>7. IsFiniteSet(Slots(h, i)) /\ Cardinality(Slots(h, i)) <= Cardinality(orders)
  <2> HIDE DEF orders, g
  <2> QED BY <1>2, <1>6, FS_Injection
<1> QED BY <1>2, <1>5, <1>7, FS_CardinalityType

-----------------------------------------------------------------------------
(* What holds of a listing while it is made.                               *)

Listings == [step: {"idle", "first", "pages", "done", "failed"}, range: [start: Int, end: Int],
             until: Int, quota: Nat, rounds: Nat, todo: SUBSET Nat, sell: Nat, total: Nat,
             seen: SUBSET Orders, had: SUBSET Orders, again: Nat, late: Nat, cuts: SUBSET Int]

\* Every order seen is one of the range, and counted once.
Counted(r) ==
    /\ r.sell = Cardinality(r.seen) /\ r.total = SumIds(r.seen)
    /\ r.seen \subseteq InRange(r.range) /\ r.until <= r.range.end

\* The orders still asked for, of those there were, and those behind the window.
Waiting(r) == {o \in r.had : date[o] <= r.until}
Behind(r) == {o \in r.had : date[o] > r.until}

AllPages(r) == Min({(Cardinality(r.had) + PageSize - 1) \div PageSize, MaxPages})
Width(r) == Min({WindowPages, r.quota})
Reads(r) == Cardinality(r.seen) + r.again

\* Places, among the orders waiting, of the pages of the window that were read.
SlotsRead(r) ==
    {j \in 0..Cardinality(Waiting(r)) - 1 :
        \E i \in (1..Width(r)) \ r.todo : j \in (i - 1) * PageSize..i * PageSize - 1}

LaterWaiting(r, o) == {p \in Waiting(r) : date[p] > date[o]}

\* What is behind the window was read, in pages that were full.
Reading(r) ==
    /\ r.todo \subseteq 1..Width(r)
    /\ r.quota <= AllPages(r) /\ r.quota <= (r.rounds + 1) * WindowPages
    /\ r.had \subseteq Listable(r.range) /\ r.seen \subseteq Listable(r.range)
    /\ Cardinality(Listable(r.range) \ r.had) <= r.late
    /\ Cardinality(Behind(r)) + Cardinality(SlotsRead(r)) <= Reads(r)
    /\ \/ Cardinality(r.had) + Cardinality(SlotsRead(r)) <= Reads(r)
       \/ (AllPages(r) - r.quota) * PageSize + Cardinality(SlotsRead(r)) <= Reads(r)
    /\ Reads(r) <= (AllPages(r) - r.quota + Width(r) - Cardinality(r.todo)) * PageSize
    /\ Cardinality(Behind(r)) <= (AllPages(r) - r.quota) * PageSize
    /\ r.quota > 0 =>
         \A o \in r.seen : Cardinality(LaterWaiting(r, o)) < Width(r) * PageSize

LEMMA ListingNumbers ==
    ASSUME date \in [Orders -> Int], NEW r \in Listings
    PROVE  /\ AllPages(r) \in Nat /\ AllPages(r) <= MaxPages
           /\ Width(r) \in Nat /\ Width(r) <= r.quota /\ Width(r) <= WindowPages
           /\ Width(r) = WindowPages \/ Width(r) = r.quota
           /\ IsFiniteSet(r.seen) /\ Cardinality(r.seen) \in Nat /\ Reads(r) \in Nat
           /\ IsFiniteSet(r.had) /\ Cardinality(r.had) \in Nat
           /\ IsFiniteSet(Waiting(r)) /\ Cardinality(Waiting(r)) \in Nat
           /\ IsFiniteSet(Behind(r)) /\ Cardinality(Behind(r)) \in Nat
           /\ Cardinality(r.had) = Cardinality(Waiting(r)) + Cardinality(Behind(r))
           /\ IsFiniteSet(SlotsRead(r)) /\ Cardinality(SlotsRead(r)) \in Nat
           /\ SlotsRead(r) \subseteq 0..Cardinality(Waiting(r)) - 1
<1>1. r.seen \subseteq Orders /\ r.had \subseteq Orders /\ r.quota \in Nat /\ r.again \in Nat /\ r.until \in Int
  BY DEF Listings
<1>2. /\ IsFiniteSet(r.seen) /\ Cardinality(r.seen) \in Nat
      /\ IsFiniteSet(r.had) /\ Cardinality(r.had) \in Nat
  BY <1>1, OrdersAreFew
<1>3. Waiting(r) \subseteq r.had /\ Behind(r) = r.had \ Waiting(r)
  <2>1. \A o \in r.had : date[o] \in Int
    BY <1>1, OrdersAreFew
  <2> QED BY <1>1, <2>1 DEF Waiting, Behind
<1>4. /\ IsFiniteSet(Waiting(r)) /\ Cardinality(Waiting(r)) \in Nat
      /\ IsFiniteSet(Behind(r)) /\ Cardinality(Behind(r)) \in Nat
      /\ Cardinality(r.had) = Cardinality(Waiting(r)) + Cardinality(Behind(r))
  BY <1>2, <1>3, CardMinus
<1>5. /\ AllPages(r) \in Nat /\ AllPages(r) <= MaxPages
  <2>1. PICK q \in Nat : q = (Cardinality(r.had) + PageSize - 1) \div PageSize
    <3>1. Cardinality(r.had) + PageSize - 1 \in Nat /\ PageSize \in Nat \ {0}
      BY <1>2, OrdersAssumption
    <3> QED BY <3>1, Quotient
  <2>2. MaxPages \in Nat
    BY OrdersAssumption
  <2>3. AllPages(r) = IF q <= MaxPages THEN q ELSE MaxPages
    BY <2>1, <2>2, LesserOfTwo DEF AllPages
  <2> QED BY <2>1, <2>2, <2>3
<1>6. /\ Width(r) \in Nat /\ Width(r) <= r.quota /\ Width(r) <= WindowPages
      /\ Width(r) = WindowPages \/ Width(r) = r.quota
  <2>1. WindowPages \in Nat
    BY OrdersAssumption
  <2>2. Width(r) = IF WindowPages <= r.quota THEN WindowPages ELSE r.quota
    BY <1>1, <2>1, LesserOfTwo DEF Width
  <2> QED BY <1>1, <2>1, <2>2
<1>7. /\ IsFiniteSet(SlotsRead(r)) /\ Cardinality(SlotsRead(r)) \in Nat
      /\ SlotsRead(r) \subseteq 0..Cardinality(Waiting(r)) - 1
  <2>1. IsFiniteSet(0..Cardinality(Waiting(r)) - 1)
    BY <1>4, FS_Interval
  <2>2. SlotsRead(r) \subseteq 0..Cardinality(Waiting(r)) - 1
    BY DEF SlotsRead
  <2> QED BY <2>1, <2>2, CardLess
<1>8. Reads(r) \in Nat
  BY <1>1, <1>2 DEF Reads
<1> QED BY <1>2, <1>4, <1>5, <1>6, <1>7, <1>8

LEMMA PagesApart ==
    ASSUME NEW i \in Int, NEW k \in Int, i # k, NEW j \in Int,
           j \in (i - 1) * PageSize..i * PageSize - 1
    PROVE  j \notin (k - 1) * PageSize..k * PageSize - 1
<1>1. /\ PageSize \in Nat /\ i * PageSize \in Int /\ k * PageSize \in Int
      /\ (i - 1) * PageSize = i * PageSize - PageSize /\ (k - 1) * PageSize = k * PageSize - PageSize
  BY PageBounds
<1>2. CASE i < k
  <2>1. i * PageSize <= (k - 1) * PageSize
    BY <1>1, <1>2, MoreIsMore
  <2> QED BY <1>1, <2>1
<1>3. CASE k < i
  <2>1. k * PageSize <= (i - 1) * PageSize
    BY <1>1, <1>3, MoreIsMore
  <2> QED BY <1>1, <2>1
<1> QED BY <1>2, <1>3

\* The orders waiting are among those VTEX lists for the window.
LEMMA WaitingIsListed ==
    ASSUME date \in [Orders -> Int], NEW r \in Listings, r.had \subseteq Listable(r.range)
    PROVE  Waiting(r) \subseteq Listable([start |-> r.range.start, end |-> r.until])
<1>1. r.had \subseteq Orders /\ r.until \in Int /\ r.range.start \in Int /\ r.range.end \in Int
  BY DEF Listings
<1>2. \A o \in r.had : o \in Orders /\ date[o] \in Int /\ date[o] >= r.range.start /\ o \in invoiced
  BY <1>1 DEF Listable, InRange
<1> QED BY <1>1, <1>2 DEF Waiting, Listable, InRange

\* A page read: what the listing is before the end of its window is looked at.
PageRead(r, orders, i) == [Count(r, orders) EXCEPT !.todo = @ \ {i}]

ReadsPage(r, orders, i, c) ==
    /\ c.step = r.step /\ c.range = r.range /\ c.until = r.until /\ c.quota = r.quota
    /\ c.rounds = r.rounds /\ c.had = r.had /\ c.late = r.late /\ c.cuts = r.cuts
    /\ c.todo = r.todo \ {i} /\ c.seen = r.seen \cup orders
    /\ c.again = r.again + Cardinality(orders \cap r.seen)
    /\ c.sell = Cardinality(c.seen) /\ c.total = SumIds(c.seen)
    /\ Reads(c) = Reads(r) + Cardinality(orders)

LEMMA PageReadFields ==
    ASSUME date \in [Orders -> Int], NEW r \in Listings, NEW orders, orders \subseteq Orders,
           NEW i, r.total = SumIds(r.seen), r.sell = Cardinality(r.seen),
           NEW c, c = PageRead(r, orders, i)
    PROVE  c \in Listings /\ ReadsPage(r, orders, i, c)
<1> DEFINE new == orders \ r.seen
<1>1. /\ r.seen \subseteq Orders /\ r.again \in Nat /\ r.todo \subseteq Nat
      /\ r.sell \in Nat /\ r.total \in Nat
  BY DEF Listings
<1>2. /\ IsFiniteSet(r.seen) /\ IsFiniteSet(new) /\ IsFiniteSet(orders)
      /\ Cardinality(r.seen) \in Nat /\ Cardinality(new) \in Nat /\ Cardinality(orders) \in Nat
  BY <1>1, OrdersAreFew
<1>3. r.seen \cap new = {} /\ r.seen \cup new = r.seen \cup orders /\ orders \ new = orders \cap r.seen
      /\ new \subseteq orders
  OBVIOUS
<1>4. /\ Cardinality(orders \cap r.seen) \in Nat
      /\ Cardinality(orders) = Cardinality(new) + Cardinality(orders \cap r.seen)
  <2> HIDE DEF new
  <2> QED BY <1>2, <1>3, CardMinus
<1>5. Cardinality(r.seen \cup orders) = Cardinality(r.seen) + Cardinality(new)
  <2> HIDE DEF new
  <2> QED BY <1>2, <1>3, CardDisjoint
<1>6. SumIds(r.seen \cup orders) = SumIds(r.seen) + SumIds(new) /\ SumIds(new) \in Nat
  <2>1. r.seen \cup new \subseteq Nat /\ new \subseteq Nat
    BY <1>1, OrdersAreFew
  <2> HIDE DEF new
  <2>2. SumIds(r.seen \cup new) = SumIds(r.seen) + SumIds(new)
    BY <1>2, <1>3, <2>1, SumIdsUnion
  <2> QED BY <1>2, <1>3, <2>1, <2>2, SumIdsType
<1>7. c = [r EXCEPT !.sell = @ + Cardinality(new), !.total = @ + SumIds(new), !.seen = r.seen \cup orders,
                    !.again = @ + Cardinality(orders \cap r.seen), !.todo = @ \ {i}]
  <2>1. c = [[r EXCEPT !.sell = @ + Cardinality(new), !.total = @ + SumIds(new), !.seen = @ \cup new,
                    !.again = @ + Cardinality(orders \ new)] EXCEPT !.todo = @ \ {i}]
    BY DEF PageRead, Count, SumIds
  <2> HIDE DEF new
  <2> QED BY <2>1, <1>3 DEF Listings
<1>8. /\ c \in Listings
      /\ c.step = r.step /\ c.range = r.range /\ c.until = r.until /\ c.quota = r.quota
      /\ c.rounds = r.rounds /\ c.had = r.had /\ c.late = r.late /\ c.cuts = r.cuts
      /\ c.todo = r.todo \ {i} /\ c.seen = r.seen \cup orders
      /\ c.again = r.again + Cardinality(orders \cap r.seen)
      /\ c.sell = r.sell + Cardinality(new) /\ c.total = r.total + SumIds(new)
  <2> HIDE DEF new
  <2>1. r.seen \cup orders \subseteq Orders /\ r.todo \ {i} \subseteq Nat
    BY <1>1
  <2>2. /\ r.sell + Cardinality(new) \in Nat /\ r.total + SumIds(new) \in Nat
        /\ r.again + Cardinality(orders \cap r.seen) \in Nat
    BY <1>1, <1>2, <1>4, <1>6
  <2>3. c \in Listings
    BY <1>7, <2>1, <2>2 DEF Listings
  <2> QED BY <1>7, <2>3 DEF Listings
<1>9. Reads(c) = Reads(r) + Cardinality(orders)
  <2> HIDE DEF new
  <2> QED BY <1>1, <1>2, <1>4, <1>5, <1>8 DEF Reads
<1> HIDE DEF new
<1> QED BY <1>5, <1>6, <1>8, <1>9 DEF ReadsPage

LEMMA PageReadIsReading ==
    ASSUME date \in [Orders -> Int], NEW r \in Listings, Counted(r), Reading(r), NEW i \in r.todo,
           NEW orders, orders = PageAt(Listable([start |-> r.range.start, end |-> r.until]), i),
           NEW c, c = PageRead(r, orders, i)
    PROVE  /\ c \in Listings /\ Counted(c) /\ Reading(c)
           /\ SlotsRead(c) = SlotsRead(r) \cup Slots(Cardinality(Waiting(r)), i)
<1> DEFINE L == Listable([start |-> r.range.start, end |-> r.until])
           h == Cardinality(Waiting(r))
<1>1. /\ L \subseteq Orders /\ orders \subseteq L /\ i \in Nat \ {0} /\ i \in 1..Width(r)
      /\ r.until <= r.range.end /\ r.until \in Int /\ r.range.start \in Int /\ r.range.end \in Int
  BY DEF Reading, Counted, Listings, PageAt, Listable, InRange
<1>2. L \subseteq Listable(r.range)
  <2>1. \A o \in Orders : date[o] \in Int
    OBVIOUS
  <2> QED BY <1>1, <2>1 DEF Listable, InRange
<1>3. /\ c \in Listings
      /\ c.step = r.step /\ c.range = r.range /\ c.until = r.until /\ c.quota = r.quota
      /\ c.rounds = r.rounds /\ c.had = r.had /\ c.late = r.late /\ c.cuts = r.cuts
      /\ c.todo = r.todo \ {i} /\ c.seen = r.seen \cup orders
      /\ c.sell = Cardinality(c.seen) /\ c.total = SumIds(c.seen)
      /\ Reads(c) = Reads(r) + Cardinality(orders)
  <2>1. orders \subseteq Orders /\ r.total = SumIds(r.seen) /\ r.sell = Cardinality(r.seen)
    BY <1>1 DEF Counted
  <2> HIDE DEF L, h
  <2>2. c \in Listings /\ ReadsPage(r, orders, i, c)
    BY <2>1, PageReadFields
  <2> QED BY <2>2 DEF ReadsPage
<1> HIDE DEF L
<1>4. Waiting(c) = Waiting(r) /\ Behind(c) = Behind(r) /\ Width(c) = Width(r) /\ AllPages(c) = AllPages(r)
  BY <1>3 DEF Waiting, Behind, Width, AllPages
<1>5. /\ Width(r) \in Nat /\ AllPages(r) \in Nat /\ Reads(r) \in Nat /\ h \in Nat /\ r.quota \in Nat
      /\ Cardinality(r.had) \in Nat /\ Cardinality(Behind(r)) \in Nat
      /\ IsFiniteSet(SlotsRead(r)) /\ Cardinality(SlotsRead(r)) \in Nat
  BY ListingNumbers DEF Listings
<1>6. h <= Cardinality(L)
  <2>1. Waiting(r) \subseteq L
    BY WaitingIsListed DEF Reading, L
  <2> QED BY <1>1, <2>1, OrdersAreFew, CardLess
<1>7. /\ IsFiniteSet(orders) /\ Cardinality(orders) \in Nat /\ Cardinality(orders) <= PageSize
      /\ IsFiniteSet(Slots(h, i)) /\ Cardinality(Slots(h, i)) \in Nat
      /\ Cardinality(Slots(h, i)) <= Cardinality(orders)
  <2>1. orders = PageAt(L, i)
    BY DEF L
  <2> HIDE DEF h
  <2> QED BY <1>1, <1>5, <1>6, <2>1, PageHolds
<1>8. SlotsRead(c) = SlotsRead(r) \cup Slots(h, i)
  <2>1. (1..Width(c)) \ c.todo = ((1..Width(r)) \ r.todo) \cup {i}
    BY <1>1, <1>3, <1>4
  <2> QED BY <1>4, <2>1 DEF SlotsRead, Slots
<1>9. SlotsRead(r) \cap Slots(h, i) = {}
  <2> SUFFICES ASSUME NEW j \in SlotsRead(r), j \in Slots(h, i) PROVE FALSE
    OBVIOUS
  <2>1. PICK k \in (1..Width(r)) \ r.todo : j \in (k - 1) * PageSize..k * PageSize - 1
    BY DEF SlotsRead
  <2>2. j \in Int /\ k \in Int /\ i \in Int /\ i # k /\ j \in (i - 1) * PageSize..i * PageSize - 1
    BY <1>1, <1>5, <2>1 DEF Slots
  <2> QED BY <2>1, <2>2, PagesApart
<1>10. Cardinality(SlotsRead(c)) = Cardinality(SlotsRead(r)) + Cardinality(Slots(h, i))
  BY <1>5, <1>7, <1>8, <1>9, CardDisjoint
<1>11. Cardinality(c.todo) = Cardinality(r.todo) - 1 /\ Cardinality(r.todo) \in Nat
  <2>4. PICK w \in Int : w = Width(r)
    BY <1>5
  <2>2. IsFiniteSet(1..Width(r))
    BY <2>4, FS_Interval
  <2>3. r.todo \subseteq 1..Width(r)
    BY DEF Reading
  <2>1. IsFiniteSet(r.todo)
    BY <2>2, <2>3, FS_Subset
  <2> QED BY <1>3, <2>1, FS_RemoveElement, FS_CardinalityType
<1>12. Counted(c)
  <2>1. r.seen \subseteq InRange(r.range) /\ orders \subseteq InRange(r.range)
    BY <1>1, <1>2 DEF Counted, Listable
  <2> QED BY <1>1, <1>3, <2>1 DEF Counted
<1>13. c.todo \subseteq 1..Width(c) /\ c.seen \subseteq Listable(c.range)
  BY <1>1, <1>2, <1>3, <1>4 DEF Reading
<1>14. Reads(c) <= (AllPages(c) - c.quota + Width(c) - Cardinality(c.todo)) * PageSize
  <2>1. PICK x \in Int : x = AllPages(r) - r.quota + Width(r) - Cardinality(r.todo)
    BY <1>5, <1>11
  <2>2. (x + 1) * PageSize = x * PageSize + PageSize /\ x * PageSize \in Int /\ PageSize \in Nat
    BY <2>1, OrdersAssumption
  <2>3. AllPages(c) - c.quota + Width(c) - Cardinality(c.todo) = x + 1
    BY <1>3, <1>4, <1>5, <1>11, <2>1
  <2>4. Reads(r) <= x * PageSize
    BY <2>1 DEF Reading
  <2> QED BY <1>3, <1>5, <1>7, <2>2, <2>3, <2>4
<1>15. c.quota > 0 => \A o \in c.seen : Cardinality(LaterWaiting(c, o)) < Width(c) * PageSize
  <2> SUFFICES ASSUME r.quota > 0, NEW o \in c.seen
               PROVE  Cardinality(LaterWaiting(r, o)) < Width(r) * PageSize
    BY <1>3, <1>4 DEF LaterWaiting
  <2>1. CASE o \in r.seen
    BY <2>1 DEF Reading
  <2>2. CASE o \in orders
    <3>1. LaterWaiting(r, o) \subseteq {p \in L : Newer(p, o)}
      <4>1. Waiting(r) \subseteq L
        BY WaitingIsListed DEF Reading, L
      <4> QED BY <4>1 DEF LaterWaiting, Newer
    <3>2. IsFiniteSet(L)
      BY <1>1, OrdersAreFew
    <3>3. IsFiniteSet({p \in L : Newer(p, o)})
      BY <3>2, FS_Subset
    <3>4. Cardinality(LaterWaiting(r, o)) <= Place(o, L) /\ Cardinality(LaterWaiting(r, o)) \in Nat /\ Place(o, L) \in Nat
      BY <3>1, <3>3, CardLess DEF Place
    <3>5. Place(o, L) <= i * PageSize - 1 /\ i * PageSize \in Int
      <4>1. Place(o, L) \in (i - 1) * PageSize..i * PageSize - 1
        BY <2>2 DEF PageAt, L
      <4> QED BY <4>1, <1>1, PageBounds
    <3>6. i * PageSize <= Width(r) * PageSize /\ Width(r) * PageSize \in Int
      BY <1>1, <1>5, OrdersAssumption, MoreIsMore
    <3> QED BY <3>4, <3>5, <3>6
  <2> QED BY <1>3, <2>1, <2>2
<1>16. /\ Cardinality(Behind(c)) + Cardinality(SlotsRead(c)) <= Reads(c)
       /\ \/ Cardinality(c.had) + Cardinality(SlotsRead(c)) <= Reads(c)
          \/ (AllPages(c) - c.quota) * PageSize + Cardinality(SlotsRead(c)) <= Reads(c)
  <2>1. PICK x \in Int : x = (AllPages(r) - r.quota) * PageSize
    BY <1>5, OrdersAssumption
  <2>2. (AllPages(c) - c.quota) * PageSize = x
    BY <1>3, <1>4, <2>1
  <2>3. /\ Cardinality(Behind(r)) + Cardinality(SlotsRead(r)) <= Reads(r)
        /\ \/ Cardinality(r.had) + Cardinality(SlotsRead(r)) <= Reads(r)
           \/ x + Cardinality(SlotsRead(r)) <= Reads(r)
    BY <2>1 DEF Reading
  <2> QED BY <1>3, <1>4, <1>5, <1>7, <1>10, <2>2, <2>3
<1>17. /\ c.quota <= AllPages(c) /\ c.quota <= (c.rounds + 1) * WindowPages
       /\ c.had \subseteq Listable(c.range) /\ Cardinality(Listable(c.range) \ c.had) <= c.late
       /\ Cardinality(Behind(c)) <= (AllPages(c) - c.quota) * PageSize
  BY <1>3, <1>4 DEF Reading
<1>18. Reading(c)
  BY <1>13, <1>14, <1>15, <1>16, <1>17 DEF Reading
<1> QED BY <1>3, <1>8, <1>12, <1>18

\* When all the pages of a window are read, so are its places, as far as there
\* are orders waiting.
LEMMA WindowIsRead ==
    ASSUME date \in [Orders -> Int], NEW r \in Listings, r.todo = {},
           NEW x \in Nat, x <= Cardinality(Waiting(r)), x <= Width(r) * PageSize
    PROVE  x <= Cardinality(SlotsRead(r))
<1>1. /\ Width(r) \in Nat /\ Cardinality(Waiting(r)) \in Nat
      /\ IsFiniteSet(SlotsRead(r)) /\ Cardinality(SlotsRead(r)) \in Nat
  BY ListingNumbers
<1>2. ASSUME NEW j \in 0..x - 1 PROVE j \in SlotsRead(r)
  <2>1. PageSize \in Nat \ {0} /\ j \in Nat
    BY OrdersAssumption
  <2>2. PICK q \in Nat : q * PageSize <= j /\ j < q * PageSize + PageSize
    BY <2>1, Quotient
  <2>3. q * PageSize \in Int /\ Width(r) * PageSize \in Int
        /\ (q + 1) * PageSize = q * PageSize + PageSize /\ (q + 1) - 1 = q
    BY <1>1, <2>1
  <2>4. q < Width(r)
    <3> SUFFICES ASSUME Width(r) <= q PROVE FALSE
      BY <1>1
    <3>1. Width(r) * PageSize <= q * PageSize
      BY <1>1, <2>1, MoreIsMore
    <3> QED BY <2>2, <2>3, <3>1
  <2>5. q + 1 \in (1..Width(r)) \ r.todo
    BY <1>1, <2>4
  <2>6. j \in ((q + 1) - 1) * PageSize..(q + 1) * PageSize - 1
    BY <2>1, <2>2, <2>3
  <2>7. j \in 0..Cardinality(Waiting(r)) - 1
    BY <1>1
  <2> QED BY <2>5, <2>6, <2>7 DEF SlotsRead
<1>3. IsFiniteSet(0..x - 1) /\ Cardinality(0..x - 1) = x
  <2>1. PICK y \in Int : y = x - 1
    OBVIOUS
  <2>2. IsFiniteSet(0..y) /\ Cardinality(0..y) = IF 0 > y THEN 0 ELSE y - 0 + 1
    BY FS_Interval
  <2> QED BY <2>1, <2>2
<1>4. 0..x - 1 \subseteq SlotsRead(r)
  BY <1>2
<1>5. Cardinality(0..x - 1) <= Cardinality(SlotsRead(r))
  BY <1>1, <1>4, CardLess
<1> QED BY <1>3, <1>5

LEMMA OldestIsThere ==
    ASSUME date \in [Orders -> Int], NEW S, S \subseteq Orders, S # {}
    PROVE  /\ Oldest(S) \in Int /\ \A o \in S : Oldest(S) <= date[o]
           /\ \E o \in S : date[o] = Oldest(S)
<1> DEFINE dates == {date[o] : o \in S}
           f == [o \in S |-> date[o]]
<1>1. dates \subseteq Int /\ dates # {}
  OBVIOUS
<1>2. IsFiniteSet(dates)
  <2>1. IsFiniteSet(S)
    BY OrdersAreFew
  <2>2. f \in Surjection(S, dates)
    BY DEF Surjection
  <2> HIDE DEF dates, f
  <2> QED BY <2>1, <2>2, FS_Surjection
<1>3. Min(dates) \in dates /\ \A x \in dates : Min(dates) <= x
  <2> HIDE DEF dates
  <2> QED BY <1>1, <1>2, LeastIsThere
<1> QED BY <1>1, <1>3 DEF Oldest

\* What the end of a window changes.
NextWindow(r, n) ==
    /\ n.step = r.step /\ n.range = r.range /\ n.had = r.had /\ n.late = r.late
    /\ n.seen = r.seen /\ n.again = r.again /\ n.sell = r.sell /\ n.total = r.total
    /\ n.until = IF r.seen = {} THEN r.until ELSE Oldest(r.seen)
    /\ n.quota = r.quota - Width(r)
    /\ n.cuts = IF n.quota > 0 THEN r.cuts \cup {n.until} ELSE r.cuts
    /\ n.todo = IF r.rounds = 0 THEN {} ELSE 1..Width(n)
    /\ n.rounds = IF r.rounds = 0 THEN 0 ELSE r.rounds - 1

LEMMA WindowFields ==
    ASSUME NEW r \in Listings, NEW n, n = Window(r)
    PROVE  /\ n \in Listings
           /\ n = [r EXCEPT !.todo = IF r.rounds = 0 THEN {} ELSE 1..Width(r),
                            !.rounds = IF r.rounds = 0 THEN 0 ELSE r.rounds - 1]
<1>1. r.rounds \in Nat /\ r.quota \in Nat /\ WindowPages \in Nat
  BY OrdersAssumption DEF Listings
<1>2. Max({r.rounds - 1, 0}) = IF r.rounds = 0 THEN 0 ELSE r.rounds - 1
  <2>1. r.rounds - 1 \in Int /\ 0 \in Int
    BY <1>1
  <2>2. Max({r.rounds - 1, 0}) = IF r.rounds - 1 <= 0 THEN 0 ELSE r.rounds - 1
    BY <2>1, GreaterOfTwo
  <2> QED BY <1>1, <2>2
<1>3. (1..IF r.rounds = 0 THEN 0 ELSE Min({WindowPages, r.quota})) = IF r.rounds = 0 THEN {} ELSE 1..Width(r)
  BY DEF Width
<1>4. n = [r EXCEPT !.todo = IF r.rounds = 0 THEN {} ELSE 1..Width(r),
                   !.rounds = IF r.rounds = 0 THEN 0 ELSE r.rounds - 1]
  BY <1>2, <1>3 DEF Window, Listings
<1>5. Width(r) \in Nat
  <2>1. Width(r) = IF WindowPages <= r.quota THEN WindowPages ELSE r.quota
    BY <1>1, LesserOfTwo DEF Width
  <2> QED BY <1>1, <2>1
<1>6. PICK t \in SUBSET Nat : t = (IF r.rounds = 0 THEN {} ELSE 1..Width(r))
  <2>1. 1..Width(r) \subseteq Nat /\ {} \subseteq Nat
    BY <1>5
  <2> QED BY <2>1, Zenon
<1>9. PICK k \in Nat : k = (IF r.rounds = 0 THEN 0 ELSE r.rounds - 1)
  BY <1>1
<1>7. n = [r EXCEPT !.todo = t, !.rounds = k]
  BY <1>4, <1>6, <1>9
<1>8. n \in Listings
  BY <1>7 DEF Listings
<1> QED BY <1>4, <1>8

LEMMA NarrowFields ==
    ASSUME date \in [Orders -> Int], NEW r \in Listings, r.todo = {}, NEW n, n = Narrow(r)
    PROVE  n \in Listings /\ NextWindow(r, n)
<1> DEFINE oldest == IF r.seen = {} THEN r.until ELSE Oldest(r.seen)
           rest == r.quota - Width(r)
           cut == IF rest > 0 THEN r.cuts \cup {oldest} ELSE r.cuts
<1>1. oldest \in Int /\ rest \in Nat /\ cut \subseteq Int
  <2>1. r.seen \subseteq Orders /\ r.until \in Int /\ r.cuts \subseteq Int /\ r.quota \in Nat
    BY DEF Listings
  <2>2. oldest \in Int
    BY <2>1, OldestIsThere
  <2>3. Width(r) \in Nat /\ Width(r) <= r.quota
    BY ListingNumbers
  <2> QED BY <2>1, <2>2, <2>3
<1> HIDE DEF oldest, rest, cut
<1>2. PICK m : m = [r EXCEPT !.until = oldest, !.quota = rest, !.cuts = cut]
  OBVIOUS
<1>3. n = Window(m)
  <2>1. n = Window([r EXCEPT !.until = oldest, !.quota = rest, !.cuts = IF rest > 0 THEN @ \cup {oldest} ELSE @])
    BY DEF Narrow, oldest, rest, Width
  <2>2. m = [r EXCEPT !.until = oldest, !.quota = rest, !.cuts = IF rest > 0 THEN @ \cup {oldest} ELSE @]
    BY <1>2 DEF cut, Listings
  <2> QED BY <2>1, <2>2
<1>4. m \in Listings
  BY <1>1, <1>2 DEF Listings
<1>5. /\ n \in Listings
      /\ n = [m EXCEPT !.todo = IF m.rounds = 0 THEN {} ELSE 1..Width(m),
                       !.rounds = IF m.rounds = 0 THEN 0 ELSE m.rounds - 1]
  BY <1>3, <1>4, WindowFields
<1>6. /\ m.step = r.step /\ m.range = r.range /\ m.had = r.had /\ m.late = r.late
      /\ m.seen = r.seen /\ m.again = r.again /\ m.sell = r.sell /\ m.total = r.total
      /\ m.until = oldest /\ m.quota = rest /\ m.cuts = cut /\ m.rounds = r.rounds
  BY <1>2 DEF Listings
<1>7. /\ n.step = m.step /\ n.range = m.range /\ n.had = m.had /\ n.late = m.late
      /\ n.seen = m.seen /\ n.again = m.again /\ n.sell = m.sell /\ n.total = m.total
      /\ n.until = m.until /\ n.quota = m.quota /\ n.cuts = m.cuts
      /\ n.rounds = IF m.rounds = 0 THEN 0 ELSE m.rounds - 1
      /\ n.todo = IF m.rounds = 0 THEN {} ELSE 1..Width(m)
  BY <1>4, <1>5 DEF Listings
<1>8. Width(n) = Width(m)
  BY <1>7 DEF Width
<1> QED BY <1>5, <1>6, <1>7, <1>8 DEF NextWindow, oldest, rest, cut

LEMMA NextWindowIsReading ==
    ASSUME date \in [Orders -> Int], NEW r \in Listings, Counted(r), Reading(r),
           r.todo = {}, r.quota > 0, NEW n, n = Narrow(r)
    PROVE  n \in Listings /\ Counted(n) /\ Reading(n) /\ (n.todo = {} => n.quota = 0)
<1>1. n \in Listings /\ NextWindow(r, n)
  BY NarrowFields
<1>2. /\ n.range = r.range /\ n.had = r.had /\ n.late = r.late /\ n.seen = r.seen /\ n.again = r.again
      /\ n.sell = r.sell /\ n.total = r.total
      /\ n.until = (IF r.seen = {} THEN r.until ELSE Oldest(r.seen))
      /\ n.quota = r.quota - Width(r)
      /\ n.todo = (IF r.rounds = 0 THEN {} ELSE 1..Width(n))
      /\ n.rounds = (IF r.rounds = 0 THEN 0 ELSE r.rounds - 1)
  BY <1>1 DEF NextWindow
<1>3. /\ r.quota \in Nat /\ r.rounds \in Nat /\ n.quota \in Nat /\ r.until \in Int /\ n.until \in Int
      /\ r.seen \subseteq Orders /\ r.had \subseteq Orders
      /\ \A o \in r.had : date[o] \in Int
      /\ \A o \in r.seen : date[o] \in Int
  <2>1. r.seen \subseteq Orders /\ r.had \subseteq Orders
    BY DEF Listings
  <2> QED BY <1>1, <2>1, OrdersAreFew DEF Listings
<1>4. /\ AllPages(r) \in Nat /\ Reads(r) \in Nat
      /\ Width(r) \in Nat /\ Width(r) <= r.quota /\ (Width(r) = WindowPages \/ Width(r) = r.quota)
      /\ Cardinality(r.had) \in Nat /\ IsFiniteSet(r.had)
      /\ Cardinality(Waiting(r)) \in Nat /\ IsFiniteSet(Waiting(r))
      /\ IsFiniteSet(Behind(r)) /\ Cardinality(Behind(r)) \in Nat
      /\ Cardinality(r.had) = Cardinality(Waiting(r)) + Cardinality(Behind(r))
      /\ Cardinality(SlotsRead(r)) \in Nat
  BY ListingNumbers
<1>5. /\ Width(n) \in Nat /\ Width(n) <= n.quota /\ (Width(n) = WindowPages \/ Width(n) = n.quota)
      /\ IsFiniteSet(Behind(n)) /\ Cardinality(Behind(n)) \in Nat
  BY <1>1, ListingNumbers
<1>6. WindowPages \in Nat \ {0} /\ PageSize \in Nat \ {0}
  BY OrdersAssumption
<1>7. AllPages(n) = AllPages(r) /\ Reads(n) = Reads(r)
  BY <1>2 DEF AllPages, Reads
<1>8. Width(r) > 0
  BY <1>3, <1>4, <1>6
<1>9. n.quota <= (n.rounds + 1) * WindowPages /\ (r.rounds = 0 => n.quota = 0)
  <2>1. r.quota <= (r.rounds + 1) * WindowPages
    BY DEF Reading
  <2>2. CASE r.rounds = 0
    <3>1. (r.rounds + 1) * WindowPages = WindowPages
      BY <1>6, <2>2
    <3>2. n.quota = 0 /\ n.rounds = 0
      BY <1>2, <1>3, <1>4, <1>6, <2>1, <2>2, <3>1
    <3>3. (n.rounds + 1) * WindowPages = WindowPages
      BY <1>6, <3>2
    <3> QED BY <1>6, <3>2, <3>3
  <2>3. CASE r.rounds # 0
    <3>1. PICK x \in Int : x = r.rounds * WindowPages /\ (r.rounds + 1) * WindowPages = x + WindowPages /\ x >= 0
      BY <1>3, <1>6
    <3>2. n.rounds + 1 = r.rounds
      BY <1>2, <1>3, <2>3
    <3>3. (n.rounds + 1) * WindowPages = x
      BY <3>1, <3>2
    <3>4. r.quota <= x + WindowPages
      BY <2>1, <3>1
    <3>5. n.quota <= x
      <4>1. CASE Width(r) = WindowPages
        <5>1. n.quota = r.quota - WindowPages
          BY <1>2, <4>1
        <5> QED BY <1>3, <1>6, <3>1, <3>4, <5>1
      <4>2. CASE Width(r) = r.quota
        <5>1. n.quota = 0
          BY <1>2, <1>3, <4>2
        <5> QED BY <3>1, <5>1
      <4> QED BY <1>4, <4>1, <4>2
    <3> QED BY <2>3, <3>3, <3>5
  <2> QED BY <2>2, <2>3
<1>10. n.todo \subseteq 1..Width(n) /\ (n.todo = {} => n.quota = 0) /\ (1..Width(n)) \ n.todo = {}
       /\ Cardinality(n.todo) = Width(n)
  <2>1. PICK w \in Nat : w = Width(n)
    BY <1>5
  <2>2. n.todo = 1..w
    BY <1>2, <1>5, <1>9, <2>1
  <2>3. Cardinality(1..w) = w
    BY FS_Interval
  <2>4. n.todo = {} => w = 0
    <3>1. w # 0 => 1 \in 1..w
      OBVIOUS
    <3> QED BY <2>2, <3>1
  <2>5. w = 0 => n.quota = 0
    BY <1>5, <1>6, <2>1
  <2> QED BY <2>1, <2>2, <2>3, <2>4, <2>5
<1>11. SlotsRead(n) = {} /\ Cardinality(SlotsRead(n)) = 0
  BY <1>10, FS_EmptySet DEF SlotsRead
<1>12. ASSUME NEW o \in r.seen PROVE n.until <= date[o]
  BY <1>2, <1>3, OldestIsThere
<1>13. Cardinality(Behind(n)) <= Cardinality(Behind(r)) + Cardinality(SlotsRead(r))
  <2>1. CASE r.seen = {}
    <3>1. Behind(n) = Behind(r)
      BY <1>2, <2>1 DEF Behind
    <3> QED BY <1>4, <3>1
  <2>2. CASE r.seen # {}
    <3>1. PICK o \in r.seen : date[o] = n.until
      BY <1>2, <1>3, <2>2, OldestIsThere
    <3>2. Behind(n) \subseteq Behind(r) \cup LaterWaiting(r, o)
      BY <1>2, <1>3, <3>1 DEF Behind, LaterWaiting, Waiting
    <3>3. IsFiniteSet(LaterWaiting(r, o)) /\ Cardinality(LaterWaiting(r, o)) \in Nat
          /\ Cardinality(LaterWaiting(r, o)) <= Cardinality(Waiting(r))
      BY <1>4, CardLess DEF LaterWaiting
    <3>4. Cardinality(LaterWaiting(r, o)) <= Cardinality(SlotsRead(r))
      <4>1. Cardinality(LaterWaiting(r, o)) < Width(r) * PageSize
        BY <1>3 DEF Reading
      <4>2. Width(r) * PageSize \in Int
        BY <1>4, <1>6
      <4> QED BY <3>3, <4>1, <4>2, WindowIsRead
    <3>5. Behind(r) \cap LaterWaiting(r, o) = {}
      BY <1>3 DEF Behind, LaterWaiting, Waiting
    <3>6. IsFiniteSet(Behind(r) \cup LaterWaiting(r, o))
          /\ Cardinality(Behind(r) \cup LaterWaiting(r, o)) = Cardinality(Behind(r)) + Cardinality(LaterWaiting(r, o))
      BY <1>4, <3>3, <3>5, CardDisjoint
    <3>7. Cardinality(Behind(n)) <= Cardinality(Behind(r) \cup LaterWaiting(r, o))
      BY <3>2, <3>6, CardLess
    <3> QED BY <1>4, <1>5, <3>3, <3>4, <3>6, <3>7
  <2> QED BY <2>1, <2>2
<1>14. PICK x \in Int, y \in Int : x = (AllPages(r) - r.quota) * PageSize /\ y = Width(r) * PageSize
  BY <1>3, <1>4, <1>6
<1>15. (AllPages(n) - n.quota) * PageSize = x + y
  <2>1. PICK u \in Int : u = AllPages(r) - r.quota
    BY <1>3, <1>4
  <2>2. AllPages(n) - n.quota = u + Width(r)
    BY <1>2, <1>3, <1>4, <1>7, <2>1
  <2>3. (u + Width(r)) * PageSize = u * PageSize + Width(r) * PageSize
    BY <1>4, <1>6, TimesSum
  <2> QED BY <1>14, <2>1, <2>2, <2>3
<1>16. Reads(n) <= x + y
  <2>1. (AllPages(r) - r.quota + Width(r) - Cardinality(r.todo)) * PageSize = x + y
    <3>1. Cardinality(r.todo) = 0
      BY FS_EmptySet
    <3> QED BY <1>3, <1>4, <1>6, <1>14, <3>1
  <2> QED BY <1>7, <2>1 DEF Reading
<1>17. Cardinality(Behind(n)) + Cardinality(SlotsRead(n)) <= Reads(n) /\ Cardinality(Behind(n)) <= x + y
  <2>1. Cardinality(Behind(r)) + Cardinality(SlotsRead(r)) <= Reads(r)
    BY DEF Reading
  <2> QED BY <1>4, <1>5, <1>7, <1>11, <1>13, <1>16, <2>1
<1>18. \/ Cardinality(n.had) + Cardinality(SlotsRead(n)) <= Reads(n)
       \/ (AllPages(n) - n.quota) * PageSize + Cardinality(SlotsRead(n)) <= Reads(n)
  <2>1. /\ Cardinality(Behind(r)) + Cardinality(SlotsRead(r)) <= Reads(r)
        /\ \/ Cardinality(r.had) + Cardinality(SlotsRead(r)) <= Reads(r)
           \/ x + Cardinality(SlotsRead(r)) <= Reads(r)
    BY <1>14 DEF Reading
  <2>2. CASE Cardinality(Waiting(r)) <= y
    <3>1. Cardinality(Waiting(r)) <= Cardinality(SlotsRead(r))
      BY <1>4, <1>14, <2>2, WindowIsRead
    <3> QED BY <1>2, <1>4, <1>7, <1>11, <2>1, <3>1
  <2>3. CASE y < Cardinality(Waiting(r))
    <3>1. y \in Nat
      BY <1>4, <1>6, <1>14
    <3>2. y <= Cardinality(SlotsRead(r))
      BY <1>4, <1>14, <2>3, <3>1, WindowIsRead
    <3> QED BY <1>2, <1>4, <1>7, <1>11, <1>15, <2>1, <3>2
  <2> QED BY <1>4, <2>2, <2>3
<1>19. n.quota > 0 => \A o \in n.seen : Cardinality(LaterWaiting(n, o)) < Width(n) * PageSize
  <2> SUFFICES ASSUME n.quota > 0, NEW o \in r.seen
               PROVE  Cardinality(LaterWaiting(n, o)) < Width(n) * PageSize
    BY <1>2
  <2>1. LaterWaiting(n, o) = {}
    BY <1>2, <1>3, <1>12 DEF LaterWaiting, Waiting
  <2>2. Cardinality(LaterWaiting(n, o)) = 0
    BY <2>1, FS_EmptySet
  <2>3. Width(n) > 0
    BY <1>3, <1>5, <1>6
  <2>4. Width(n) * PageSize > 0
    BY <1>5, <1>6, <2>3
  <2> QED BY <2>2, <2>4
<1>20. Counted(n)
  <2>1. n.until <= n.range.end
    <3>1. CASE r.seen = {}
      BY <1>2, <3>1 DEF Counted
    <3>2. CASE r.seen # {}
      <4>1. PICK o \in r.seen : date[o] = n.until
        BY <1>2, <1>3, <3>2, OldestIsThere
      <4>2. date[o] \in r.range.start..r.range.end
        BY DEF Counted, InRange
      <4> QED BY <1>2, <4>1, <4>2
    <3> QED BY <3>1, <3>2
  <2> QED BY <1>2, <2>1 DEF Counted
<1>21. Reads(n) <= (AllPages(n) - n.quota + Width(n) - Cardinality(n.todo)) * PageSize
  <2>1. AllPages(n) - n.quota + Width(n) - Cardinality(n.todo) = AllPages(n) - n.quota
    BY <1>3, <1>4, <1>5, <1>7, <1>10
  <2> QED BY <1>15, <1>16, <2>1
<1>22. /\ n.quota <= AllPages(n)
       /\ n.had \subseteq Listable(n.range) /\ n.seen \subseteq Listable(n.range)
       /\ Cardinality(Listable(n.range) \ n.had) <= n.late
  <2>1. r.quota <= AllPages(r)
    BY DEF Reading
  <2>2. n.quota <= AllPages(n)
    BY <1>2, <1>3, <1>4, <1>7, <2>1
  <2> QED BY <1>2, <2>2 DEF Reading
<1>23. Reading(n)
  BY <1>9, <1>10, <1>15, <1>17, <1>18, <1>19, <1>21, <1>22 DEF Reading
<1> QED BY <1>1, <1>10, <1>20, <1>23

-----------------------------------------------------------------------------
(* Orders read twice, while none is invoiced.                              *)

AtCuts(r) == {o \in r.had : date[o] \in r.cuts}

\* Waiting orders, on the pages of the window that were read.
Here(r) == {o \in Waiting(r) : \E i \in (1..Width(r)) \ r.todo : o \in PageAt(Waiting(r), i)}

\* Orders of the dates at which a window ended that the next one gave.
Repeated(r) == {o \in AtCuts(r) : date[o] > r.until \/ o \in Here(r)}

\* Before the last window is read, an order seen before this one is of the date at
\* which the last one ended.
ReadTwice(r) ==
    /\ Here(r) \subseteq r.seen /\ \A t \in r.cuts : r.until <= t
    /\ \A o \in r.seen \cap Waiting(r) : o \in Here(r) \/ (date[o] = r.until /\ r.until \in r.cuts)
    /\ r.again <= Cardinality(Repeated(r))

Once(r) ==
    r.late = 0 /\ Spread(r.had) =>
        /\ r.again <= Cardinality(AtCuts(r))
        /\ r.quota > 0 => ReadTwice(r)

LEMMA CutsNumbers ==
    ASSUME NEW r \in Listings
    PROVE  /\ IsFiniteSet(AtCuts(r)) /\ Cardinality(AtCuts(r)) \in Nat
           /\ IsFiniteSet(Repeated(r)) /\ Cardinality(Repeated(r)) \in Nat
           /\ Cardinality(Repeated(r)) <= Cardinality(AtCuts(r))
<1>1. AtCuts(r) \subseteq Orders
  BY DEF AtCuts, Listings
<1>2. IsFiniteSet(AtCuts(r))
  BY <1>1, OrdersAreFew
<1>3. Repeated(r) \subseteq AtCuts(r)
  BY DEF Repeated
<1> QED BY <1>2, <1>3, CardLess

\* While nothing is invoiced, VTEX lists for a window what is waiting.
LEMMA OnlyWaitingListed ==
    ASSUME date \in [Orders -> Int], NEW r \in Listings, Counted(r), Reading(r), r.late = 0
    PROVE  Listable([start |-> r.range.start, end |-> r.until]) = Waiting(r)
<1>1. r.until \in Int /\ r.range.start \in Int /\ r.range.end \in Int /\ r.until <= r.range.end
  BY DEF Listings, Counted
<1>2. r.had \subseteq Listable(r.range) /\ Cardinality(Listable(r.range) \ r.had) <= 0
  BY DEF Reading
<1>3. Listable(r.range) \subseteq Orders
  BY DEF Listable, InRange
<1>4. Listable(r.range) \ r.had = {}
  <2>1. PICK S : S = Listable(r.range) \ r.had
    OBVIOUS
  <2>2. IsFiniteSet(S) /\ Cardinality(S) \in Nat /\ Cardinality(S) <= 0
    BY <1>2, <1>3, <2>1, OrdersAreFew
  <2>3. Cardinality(S) = 0
    BY <2>2
  <2> QED BY <2>1, <2>2, <2>3, FS_EmptySet
<1>5. Listable([start |-> r.range.start, end |-> r.until]) \subseteq Waiting(r)
  <2> SUFFICES ASSUME NEW o \in Listable([start |-> r.range.start, end |-> r.until])
               PROVE  o \in Waiting(r)
    OBVIOUS
  <2>1. o \in Orders /\ o \in invoiced /\ date[o] \in Int /\ r.range.start <= date[o] /\ date[o] <= r.until
    BY <1>1 DEF Listable, InRange
  <2>2. o \in Listable(r.range)
    BY <1>1, <2>1 DEF Listable, InRange
  <2> QED BY <1>4, <2>1, <2>2 DEF Waiting
<1> QED BY <1>2, <1>5, WaitingIsListed

LEMMA PageReadOnce ==
    ASSUME date \in [Orders -> Int], NEW r \in Listings, Counted(r), Reading(r), Once(r), r.quota > 0,
           NEW i \in r.todo,
           NEW orders, orders = PageAt(Listable([start |-> r.range.start, end |-> r.until]), i),
           NEW c, c = PageRead(r, orders, i)
    PROVE  Once(c)
<1>1. orders \subseteq Orders
  BY DEF PageAt, Listable, InRange
<1>2. c \in Listings /\ ReadsPage(r, orders, i, c)
  BY <1>1, PageReadFields DEF Counted
<1>3. /\ c.until = r.until /\ c.quota = r.quota /\ c.had = r.had /\ c.late = r.late /\ c.cuts = r.cuts
      /\ c.todo = r.todo \ {i} /\ c.seen = r.seen \cup orders
      /\ c.again = r.again + Cardinality(orders \cap r.seen)
  BY <1>2 DEF ReadsPage
<1>4. Waiting(c) = Waiting(r) /\ Width(c) = Width(r) /\ AtCuts(c) = AtCuts(r)
  BY <1>3 DEF Waiting, Width, AtCuts
<1>5. SUFFICES ASSUME r.late = 0, Spread(r.had)
               PROVE  c.again <= Cardinality(AtCuts(c)) /\ ReadTwice(c)
  BY <1>3 DEF Once
<1>6. orders = PageAt(Waiting(r), i) /\ orders \subseteq Waiting(r) /\ Waiting(r) \subseteq r.had
  <2>1. orders = PageAt(Waiting(r), i)
    BY <1>5, OnlyWaitingListed
  <2> QED BY <2>1 DEF PageAt, Waiting
<1>7. ReadTwice(r)
  BY <1>5 DEF Once
<1>8. i \in 1..Width(r) /\ Width(r) \in Nat /\ r.until \in Int /\ r.had \subseteq Orders /\ r.again \in Nat
  BY ListingNumbers DEF Reading, Listings
<1>9. Here(c) = Here(r) \cup orders
  <2>1. (1..Width(c)) \ c.todo = ((1..Width(r)) \ r.todo) \cup {i}
    BY <1>3, <1>4, <1>8
  <2> QED BY <1>4, <1>6, <2>1 DEF Here
<1>10. orders \cap Here(r) = {}
  <2> SUFFICES ASSUME NEW o \in orders, o \in Here(r) PROVE FALSE
    OBVIOUS
  <2>1. PICK k \in (1..Width(r)) \ r.todo : o \in PageAt(Waiting(r), k)
    BY DEF Here
  <2>2. PICK j : j = Place(o, Waiting(r))
    OBVIOUS
  <2>3. /\ j \in (i - 1) * PageSize..i * PageSize - 1
        /\ j \in (k - 1) * PageSize..k * PageSize - 1
    BY <1>6, <2>1, <2>2 DEF PageAt
  <2>4. j \in Int
    BY <1>8, <2>3, PageBounds
  <2>5. i \in Int /\ k \in Int /\ i # k
    BY <1>8, <2>1
  <2> QED BY <2>3, <2>4, <2>5, PagesApart
<1>11. ASSUME NEW o \in orders \cap r.seen
       PROVE  o \in AtCuts(r) /\ date[o] = r.until /\ o \notin Here(r)
  <2>1. date[o] = r.until /\ r.until \in r.cuts
    BY <1>6, <1>7, <1>10 DEF ReadTwice
  <2> QED BY <1>6, <1>10, <2>1 DEF AtCuts
<1>12. Repeated(r) \cap (orders \cap r.seen) = {} /\ Repeated(r) \cup (orders \cap r.seen) \subseteq Repeated(c)
  <2>1. Repeated(r) \subseteq Repeated(c)
    BY <1>3, <1>4, <1>9 DEF Repeated
  <2>2. orders \cap r.seen \subseteq Repeated(c)
    BY <1>4, <1>9, <1>11 DEF Repeated
  <2>3. ASSUME NEW o \in orders \cap r.seen PROVE o \notin Repeated(r)
    BY <1>8, <1>11 DEF Repeated
  <2> QED BY <2>1, <2>2, <2>3
<1>13. c.again <= Cardinality(Repeated(c))
  <2>1. PICK S : S = orders \cap r.seen
    OBVIOUS
  <2>2. IsFiniteSet(S) /\ IsFiniteSet(Repeated(r)) /\ IsFiniteSet(Repeated(c))
    BY <1>1, <1>2, <2>1, OrdersAreFew, CutsNumbers
  <2>3. /\ IsFiniteSet(Repeated(r) \cup S) /\ Cardinality(Repeated(r)) \in Nat /\ Cardinality(S) \in Nat
        /\ Cardinality(Repeated(r) \cup S) = Cardinality(Repeated(r)) + Cardinality(S)
    BY <1>12, <2>1, <2>2, CardDisjoint
  <2>4. Cardinality(Repeated(r) \cup S) <= Cardinality(Repeated(c)) /\ Cardinality(Repeated(c)) \in Nat
    BY <1>12, <2>1, <2>2, CardLess
  <2>5. r.again <= Cardinality(Repeated(r)) /\ c.again = r.again + Cardinality(S)
    BY <1>3, <1>7, <2>1 DEF ReadTwice
  <2> QED BY <1>8, <2>3, <2>4, <2>5
<1>14. c.again <= Cardinality(AtCuts(c))
  <2>1. c.again \in Nat
    BY <1>2 DEF Listings
  <2> QED BY <1>2, <1>13, <2>1, CutsNumbers
<1>15. \A o \in c.seen \cap Waiting(c) : o \in Here(c) \/ (date[o] = c.until /\ c.until \in c.cuts)
  BY <1>3, <1>4, <1>7, <1>9 DEF ReadTwice
<1>16. Here(c) \subseteq c.seen /\ \A t \in c.cuts : c.until <= t
  BY <1>3, <1>7, <1>9 DEF ReadTwice
<1> QED BY <1>13, <1>14, <1>15, <1>16 DEF ReadTwice

\* A window that is not the last has full pages, so that if no date has as many
\* orders it has seen some of an earlier date.
LEMMA NextIsEarlier ==
    ASSUME date \in [Orders -> Int], NEW r \in Listings, Reading(r), Here(r) \subseteq r.seen,
           Spread(r.had), r.todo = {}, Width(r) < r.quota
    PROVE  r.seen # {} /\ Oldest(r.seen) < r.until
<1>1. PICK w \in Nat, p \in Nat : w = WindowPages /\ p = PageSize /\ p # 0
  BY OrdersAssumption
<1>2. /\ Width(r) = w /\ r.quota \in Nat /\ AllPages(r) \in Nat /\ r.until \in Int
      /\ r.had \subseteq Orders /\ IsFiniteSet(r.had) /\ Cardinality(r.had) \in Nat
      /\ Cardinality(Waiting(r)) \in Nat /\ Cardinality(Behind(r)) \in Nat
      /\ Cardinality(r.had) = Cardinality(Waiting(r)) + Cardinality(Behind(r))
  BY <1>1, ListingNumbers DEF Listings
<1>3. Waiting(r) \subseteq r.had /\ Waiting(r) \subseteq Orders
  BY <1>2 DEF Waiting
<1>4. w * p <= Cardinality(Waiting(r)) /\ w * p \in Nat
  <2>1. AllPages(r) * p <= Cardinality(r.had) + p - 1
    <3>1. Cardinality(r.had) + p - 1 \in Nat
      BY <1>1, <1>2
    <3>2. PICK q \in Nat : q = (Cardinality(r.had) + p - 1) \div p /\ q * p <= Cardinality(r.had) + p - 1
      BY <1>1, <3>1, Quotient
    <3>3. AllPages(r) <= q
      <4>1. MaxPages \in Nat
        BY OrdersAssumption
      <4>2. AllPages(r) = IF q <= MaxPages THEN q ELSE MaxPages
        BY <1>1, <3>2, <4>1, LesserOfTwo DEF AllPages
      <4> QED BY <3>2, <4>1, <4>2
    <3>4. AllPages(r) * p <= q * p /\ AllPages(r) * p \in Int /\ q * p \in Int
      BY <1>1, <1>2, <3>2, <3>3, MoreIsMore
    <3> QED BY <1>1, <1>2, <3>2, <3>4
  <2>2. Cardinality(Behind(r)) <= (AllPages(r) - r.quota) * p
    BY <1>1 DEF Reading
  <2>3. (AllPages(r) - r.quota) * p + r.quota * p = AllPages(r) * p
        /\ (AllPages(r) - r.quota) * p \in Int /\ r.quota * p \in Int /\ AllPages(r) * p \in Int
    <3>1. AllPages(r) - r.quota \in Int /\ (AllPages(r) - r.quota) + r.quota = AllPages(r)
      BY <1>2
    <3>2. PICK x \in Int : x = AllPages(r) - r.quota
      BY <3>1
    <3>3. (x + r.quota) * p = x * p + r.quota * p /\ x * p \in Int /\ r.quota * p \in Int
      BY <1>1, <1>2, TimesSum
    <3>4. x + r.quota = AllPages(r)
      BY <1>2, <3>2
    <3>5. AllPages(r) * p \in Int
      BY <1>1, <1>2
    <3> QED BY <3>2, <3>3, <3>4, <3>5
  <2>4. (w + 1) * p <= r.quota * p /\ (w + 1) * p = w * p + p /\ w * p \in Nat
    <3>1. w + 1 <= r.quota
      BY <1>1, <1>2
    <3>2. (w + 1) * p <= r.quota * p
      BY <1>1, <1>2, <3>1, MoreIsMore
    <3> QED BY <1>1, <3>2
  <2> QED BY <1>1, <1>2, <2>1, <2>2, <2>3, <2>4
<1> DEFINE Same == {q \in r.had : date[q] = r.until}
<1>5. IsFiniteSet(Same) /\ Cardinality(Same) \in Nat /\ Cardinality(Same) < w * p
  <2>1. IsFiniteSet(Same) /\ Cardinality(Same) \in Nat
    BY <1>2, CardLess
  <2>2. CASE Same = {}
    <3>1. Cardinality(Same) = 0
      BY <2>2, FS_EmptySet
    <3>2. w # 0
      BY <1>1, OrdersAssumption
    <3>3. w * p > 0
      BY <1>1, <3>2
    <3> QED BY <2>1, <3>1, <3>3
  <2>3. CASE Same # {}
    <3>1. PICK o \in r.had : date[o] = r.until
      BY <2>3
    <3>2. Same = {q \in r.had : date[q] = date[o]}
      BY <3>1
    <3> HIDE DEF Same
    <3>3. Cardinality(Same) < WindowPages * PageSize
      BY <3>1, <3>2 DEF Spread
    <3> QED BY <1>1, <2>1, <3>3
  <2> QED BY <2>2, <2>3
<1> HIDE DEF Same
<1>6. PICK m \in Nat : m = Cardinality(Same)
  BY <1>5
<1>7. PICK o \in Waiting(r) : Place(o, Waiting(r)) = m
  <2>1. m \in 0..Cardinality(Waiting(r)) - 1
    BY <1>2, <1>4, <1>5, <1>6
  <2> QED BY <1>3, <2>1, PlaceFilled
<1>8. o \in Orders /\ date[o] \in Int /\ date[o] <= r.until
  BY <1>3 DEF Waiting
<1>9. date[o] # r.until
  <2> SUFFICES ASSUME date[o] = r.until PROVE FALSE
    OBVIOUS
  <2>1. \A q \in Waiting(r) : q \in Int /\ date[q] \in Int /\ date[q] <= r.until /\ q \in r.had
    BY <1>3, OrdersAreFew DEF Waiting
  <2>2. {q \in Waiting(r) : Newer(q, o)} \subseteq Same \ {o} /\ o \in Same
    BY <1>3, <2>1 DEF Newer, Same
  <2>3. IsFiniteSet(Same \ {o}) /\ Cardinality(Same \ {o}) = m - 1
    BY <1>5, <1>6, <2>2, FS_RemoveElement
  <2>4. Place(o, Waiting(r)) <= m - 1 /\ Place(o, Waiting(r)) \in Nat
    BY <2>2, <2>3, CardLess DEF Place
  <2> QED BY <1>6, <1>7, <2>4
<1>10. o \in Here(r)
  <2>1. PICK q \in Nat : q * p <= m /\ m < q * p + p
    BY <1>1, Quotient
  <2>2. q * p \in Int /\ (q + 1) * p = q * p + p /\ (q + 1) - 1 = q
    BY <1>1
  <2>3. q < w
    <3> SUFFICES ASSUME w <= q PROVE FALSE
      BY <1>1
    <3>1. w * p <= q * p
      BY <1>1, MoreIsMore
    <3> QED BY <1>4, <1>5, <1>6, <2>1, <2>2, <3>1
  <2>4. q + 1 \in (1..Width(r)) \ r.todo
    BY <1>1, <1>2, <2>3
  <2>5. m \in ((q + 1) - 1) * p..(q + 1) * p - 1
    BY <1>1, <2>1, <2>2
  <2>6. o \in PageAt(Waiting(r), q + 1)
    BY <1>1, <1>7, <2>5 DEF PageAt
  <2> QED BY <2>4, <2>6 DEF Here
<1>11. o \in r.seen /\ r.seen \subseteq Orders
  BY <1>10 DEF Listings
<1>12. Oldest(r.seen) \in Int /\ Oldest(r.seen) <= date[o]
  <2>1. r.seen # {}
    BY <1>11
  <2> QED BY <1>11, <2>1, OldestIsThere
<1>13. Oldest(r.seen) < r.until
  <2>1. PICK x \in Int, y \in Int, z \in Int : x = Oldest(r.seen) /\ y = date[o] /\ z = r.until
    BY <1>2, <1>8, <1>12
  <2> QED BY <1>8, <1>9, <1>12, <2>1
<1>14. r.seen # {}
  BY <1>11
<1> QED BY <1>13, <1>14

LEMMA NextWindowOnce ==
    ASSUME date \in [Orders -> Int], NEW r \in Listings, Counted(r), Reading(r), Once(r),
           r.todo = {}, r.quota > 0, NEW n, n = Narrow(r)
    PROVE  Once(n)
<1>1. n \in Listings /\ NextWindow(r, n) /\ (n.todo = {} => n.quota = 0)
  BY NarrowFields, NextWindowIsReading
<1>2. /\ n.had = r.had /\ n.late = r.late /\ n.seen = r.seen /\ n.again = r.again
      /\ n.until = (IF r.seen = {} THEN r.until ELSE Oldest(r.seen))
      /\ n.quota = r.quota - Width(r)
      /\ n.cuts = (IF n.quota > 0 THEN r.cuts \cup {n.until} ELSE r.cuts)
      /\ n.todo = (IF r.rounds = 0 THEN {} ELSE 1..Width(n))
  BY <1>1 DEF NextWindow
<1>3. SUFFICES ASSUME r.late = 0, Spread(r.had)
               PROVE  n.again <= Cardinality(AtCuts(n)) /\ (n.quota > 0 => ReadTwice(n))
  BY <1>2 DEF Once
<1>4. ReadTwice(r)
  BY <1>3 DEF Once
<1>5. n.again <= Cardinality(AtCuts(n))
  <2>1. r.again <= Cardinality(AtCuts(r)) /\ r.again \in Nat
    BY <1>3 DEF Once, Listings
  <2>2. AtCuts(r) \subseteq AtCuts(n)
    BY <1>2 DEF AtCuts
  <2>3. /\ IsFiniteSet(AtCuts(n)) /\ Cardinality(AtCuts(r)) <= Cardinality(AtCuts(n))
        /\ Cardinality(AtCuts(r)) \in Nat /\ Cardinality(AtCuts(n)) \in Nat
    BY <1>1, <2>2, CutsNumbers, CardLess
  <2> QED BY <1>2, <2>1, <2>3
<1>6. ASSUME n.quota > 0 PROVE ReadTwice(n)
  <2>1. r.seen # {} /\ Oldest(r.seen) < r.until
    <3>1. Width(r) < r.quota
      <4>1. Width(r) \in Nat /\ r.quota \in Nat
        BY ListingNumbers DEF Listings
      <4> QED BY <1>2, <1>6, <4>1
    <3> QED BY <1>3, <1>4, <3>1, NextIsEarlier DEF ReadTwice
  <2>2. /\ n.until < r.until /\ n.until \in Int /\ r.until \in Int /\ n.cuts = r.cuts \cup {n.until}
        /\ n.cuts \subseteq Int /\ \A o \in r.seen : n.until <= date[o]
    <3>1. r.seen \subseteq Orders /\ r.until \in Int /\ n.until \in Int /\ n.cuts \subseteq Int
      BY <1>1 DEF Listings
    <3>2. n.until = Oldest(r.seen)
      BY <1>2, <2>1
    <3>3. \A o \in r.seen : Oldest(r.seen) <= date[o]
      BY <2>1, <3>1, OldestIsThere
    <3> QED BY <1>2, <1>6, <2>1, <3>1, <3>2, <3>3
  <2>3. Here(n) = {}
    <3>1. n.todo = 1..Width(n)
      BY <1>1, <1>2, <1>6
    <3> QED BY <3>1 DEF Here
  <2>4. \A t \in n.cuts : n.until <= t
    BY <1>4, <2>2 DEF ReadTwice
  <2>5. Repeated(r) \subseteq Repeated(n)
    <3> SUFFICES ASSUME NEW o \in Repeated(r) PROVE o \in Repeated(n)
      OBVIOUS
    <3>1. o \in r.had /\ date[o] \in r.cuts
      BY DEF Repeated, AtCuts
    <3>2. r.until <= date[o] /\ date[o] \in Int
      BY <1>4, <2>2, <3>1 DEF ReadTwice
    <3>3. date[o] > n.until
      BY <2>2, <3>2
    <3> QED BY <1>2, <2>2, <3>1, <3>3 DEF Repeated, AtCuts
  <2>6. n.again <= Cardinality(Repeated(n))
    <3>1. r.again <= Cardinality(Repeated(r)) /\ r.again \in Nat
      BY <1>4 DEF ReadTwice, Listings
    <3>2. IsFiniteSet(Repeated(n))
      BY <1>1, CutsNumbers
    <3>3. /\ Cardinality(Repeated(r)) <= Cardinality(Repeated(n))
          /\ Cardinality(Repeated(r)) \in Nat /\ Cardinality(Repeated(n)) \in Nat
      BY <2>5, <3>2, CardLess
    <3> QED BY <1>2, <3>1, <3>3
  <2>7. ASSUME NEW o \in n.seen \cap Waiting(n) PROVE date[o] = n.until /\ n.until \in n.cuts
    <3>1. date[o] <= n.until /\ n.until <= date[o] /\ date[o] \in Int
      <4>1. o \in Orders
        BY <1>1 DEF Listings
      <4> QED BY <1>2, <2>2, <4>1 DEF Waiting
    <3> QED BY <2>2, <3>1
  <2> QED BY <2>3, <2>4, <2>6, <2>7 DEF ReadTwice
<1> QED BY <1>5, <1>6

-----------------------------------------------------------------------------
(* The invariant of listings, and what each step makes of one.             *)

\* All was read, or as much as pages are read of.
Ended(r) ==
    /\ Cardinality(r.had) <= Reads(r) \/ MaxPages * PageSize <= Reads(r)
    /\ Cardinality(r.seen \ r.had) <= r.late

ListingOk(r) ==
    /\ r \in Listings /\ Counted(r)
    /\ r.step = "first" =>
         r = [NoListing EXCEPT !.step = "first", !.range = r.range, !.until = r.range.end]
    /\ r.step = "pages" => Reading(r) /\ (r.todo = {} => r.quota = 0)
    /\ r.step = "done" => Ended(r)
    /\ r.step \in {"pages", "done"} => Once(r)

ListingInv ==
    /\ date \in Layouts /\ invoiced \subseteq Orders
    /\ list \in [Web -> Listings] /\ \A a \in Web : ListingOk(list[a])
    /\ \A k \in DOMAIN listed :
        ListingOk(listed[k]) /\ listed[k].step = "done" /\ listed[k].range = k

LEMMA LayoutType == date \in Layouts => date \in [Orders -> Int]
BY OrdersAssumption

LEMMA FreshOk ==
    ASSUME NEW step \in {"idle", "first", "failed"}, NEW range \in [start: Int, end: Int],
           NEW r, r = [NoListing EXCEPT !.step = step, !.range = range, !.until = range.end]
    PROVE  ListingOk(r)
<1>1. /\ r.step = step /\ r.range = range /\ r.until = range.end /\ r.seen = {}
      /\ r.sell = 0 /\ r.total = 0 /\ r \in Listings
  BY DEF NoListing, Listings
<1>2. Cardinality({}) = 0
  BY FS_EmptySet
<1>3. SumIds({}) = 0
  BY FS_EmptySet, SumIdsIsSum, SumEmpty
<1>4. Counted(r)
  BY <1>1, <1>2, <1>3 DEF Counted
<1> QED BY <1>1, <1>4 DEF ListingOk

LEMMA NoListingOk ==
    ASSUME NEW step \in {"idle", "failed"}
    PROVE  ListingOk([NoListing EXCEPT !.step = step]) /\ NoListing = [NoListing EXCEPT !.step = "idle"]
<1>2. PICK range : range = [start |-> 0, end |-> 0]
  OBVIOUS
<1>4. range \in [start: Int, end: Int] /\ range.end = 0
  BY <1>2
<1>5. NoListing \in Listings
  BY DEF NoListing, Listings
<1>6. NoListing.range = range /\ NoListing.until = range.end
  BY <1>2, <1>4 DEF NoListing
<1>1. [NoListing EXCEPT !.step = step] = [NoListing EXCEPT !.step = step, !.range = range, !.until = range.end]
  BY <1>5, <1>6 DEF Listings
<1>3. ListingOk([NoListing EXCEPT !.step = step])
  BY <1>1, <1>4, FreshOk
<1> QED BY <1>3 DEF NoListing

LEMMA FirstPageOk ==
    ASSUME date \in [Orders -> Int], NEW r, ListingOk(r), r.step = "first",
           NEW pages, pages = Min({Pages(r.range), MaxPages}),
           NEW n, n = Window([r EXCEPT !.step = "pages", !.quota = pages, !.rounds = Rounds(pages),
                                      !.had = Listable(r.range)])
    PROVE  ListingOk(n)
<1> DEFINE L == Listable(r.range)
<1>1. r \in Listings /\ Counted(r) /\ L \subseteq Orders
  BY DEF ListingOk, Listable, InRange
<1>2. /\ r.seen = {} /\ r.again = 0 /\ r.late = 0 /\ r.until = r.range.end
      /\ r.range.start \in Int /\ r.range.end \in Int
  BY <1>1 DEF ListingOk, NoListing, Listings
<1>3. IsFiniteSet(L) /\ Cardinality(L) \in Nat /\ \A o \in L : date[o] \in Int
  BY <1>1, OrdersAreFew
<1> HIDE DEF L
<1>4. PageSize \in Nat \ {0} /\ WindowPages \in Nat \ {0} /\ MaxPages \in Nat \ {0}
  BY OrdersAssumption
<1>5. pages = Min({(Cardinality(L) + PageSize - 1) \div PageSize, MaxPages}) /\ pages \in Nat
  <2>1. PICK q \in Nat : q = (Cardinality(L) + PageSize - 1) \div PageSize
    <3>1. Cardinality(L) + PageSize - 1 \in Nat
      BY <1>3, <1>4
    <3> QED BY <1>4, <3>1, Quotient
  <2>2. Min({q, MaxPages}) = IF q <= MaxPages THEN q ELSE MaxPages
    BY <1>4, LesserOfTwo
  <2> QED BY <1>4, <2>1, <2>2 DEF Pages, L
<1>6. PICK k \in Nat : k = pages \div WindowPages /\ pages <= k * WindowPages + WindowPages
  <2>1. pages \div WindowPages \in Nat /\ pages < (pages \div WindowPages) * WindowPages + WindowPages
    BY <1>4, <1>5, Quotient
  <2> QED BY <1>4, <1>5, <2>1
<1>7. PICK m : m = [r EXCEPT !.step = "pages", !.quota = pages, !.rounds = Rounds(pages), !.had = L]
  OBVIOUS
<1>8. /\ m \in Listings /\ m.range = r.range /\ m.until = r.until /\ m.seen = {} /\ m.again = 0 /\ m.late = 0
      /\ m.sell = r.sell /\ m.total = r.total /\ m.quota = pages /\ m.rounds = k + 1 /\ m.had = L
      /\ m.step = "pages"
  <2>1. Rounds(pages) = k + 1 /\ k + 1 \in Nat
    BY <1>6 DEF Rounds
  <2> QED BY <1>1, <1>2, <1>5, <1>7, <2>1 DEF Listings
<1>9. /\ n \in Listings
      /\ n = [m EXCEPT !.todo = IF m.rounds = 0 THEN {} ELSE 1..Width(m),
                       !.rounds = IF m.rounds = 0 THEN 0 ELSE m.rounds - 1]
  <2>1. n = Window(m)
    BY <1>7 DEF L
  <2> QED BY <1>8, <2>1, WindowFields
<1>10. /\ n.range = r.range /\ n.until = r.until /\ n.seen = {} /\ n.again = 0 /\ n.late = 0
       /\ n.sell = r.sell /\ n.total = r.total /\ n.quota = pages /\ n.had = L /\ n.step = "pages"
       /\ n.rounds = k /\ n.todo = 1..Width(m)
  <2>1. m.rounds # 0 /\ m.rounds - 1 = k
    BY <1>8
  <2> QED BY <1>8, <1>9, <2>1 DEF Listings
<1>11. Width(m) = Width(n) /\ AllPages(n) = pages
  BY <1>5, <1>8, <1>10 DEF Width, AllPages
<1>12. /\ Width(n) \in Nat /\ Width(n) <= n.quota
       /\ (Width(n) = WindowPages \/ Width(n) = n.quota)
  BY <1>9, ListingNumbers
<1>13. (n.todo = {} => n.quota = 0) /\ Cardinality(n.todo) = Width(n) /\ (1..Width(n)) \ n.todo = {}
       /\ n.todo \subseteq 1..Width(n)
  <2>1. PICK w \in Nat : w = Width(n)
    BY <1>12
  <2>5. Cardinality(1..w) = w
    BY FS_Interval
  <2>2. n.todo = 1..w /\ Cardinality(1..w) = w
    BY <1>10, <1>11, <2>1, <2>5
  <2>3. w # 0 => 1 \in 1..w
    OBVIOUS
  <2>4. w = 0 => n.quota = 0
    BY <1>4, <1>12, <2>1
  <2> QED BY <2>1, <2>2, <2>3, <2>4
<1>14. Cardinality(Behind(n)) = 0 /\ Cardinality(SlotsRead(n)) = 0 /\ Reads(n) = 0
  <2>1. \A o \in L : date[o] <= r.range.end
    BY <1>2, <1>3 DEF L, Listable, InRange
  <2>2. Behind(n) = {}
    BY <1>2, <1>3, <1>10, <2>1 DEF Behind
  <2>3. SlotsRead(n) = {}
    BY <1>13 DEF SlotsRead
  <2>4. Cardinality({}) = 0
    BY FS_EmptySet
  <2>6. Cardinality(n.seen) = Cardinality({})
    BY <1>10, Zenon
  <2>5. Reads(n) = 0
    BY <1>10, <2>4, <2>6 DEF Reads
  <2>7. Cardinality(Behind(n)) = Cardinality({}) /\ Cardinality(SlotsRead(n)) = Cardinality({})
    BY <2>2, <2>3, Zenon
  <2> QED BY <2>4, <2>5, <2>7
<1>15. (AllPages(n) - n.quota) * PageSize = 0
       /\ (AllPages(n) - n.quota + Width(n) - Cardinality(n.todo)) * PageSize = 0
  <2>3. n.quota = pages /\ AllPages(n) = pages /\ Cardinality(n.todo) = Width(n)
    BY <1>10, <1>11, <1>13
  <2>4. pages - pages = 0 /\ pages - pages + Width(n) - Width(n) = 0
    BY <1>5, <1>12
  <2>1. AllPages(n) - n.quota = 0 /\ AllPages(n) - n.quota + Width(n) - Cardinality(n.todo) = 0
    BY <2>3, <2>4
  <2>2. 0 * PageSize = 0
    BY <1>4
  <2> QED BY <2>1, <2>2
<1>16. n.quota <= (n.rounds + 1) * WindowPages
  <2>1. (k + 1) * WindowPages = k * WindowPages + WindowPages
    BY <1>4
  <2> QED BY <1>6, <1>10, <2>1
<1>17. n.had \subseteq Listable(n.range) /\ n.seen \subseteq Listable(n.range)
       /\ Cardinality(Listable(n.range) \ n.had) <= n.late
  <2>1. Listable(n.range) \ n.had = {}
    BY <1>10 DEF L
  <2>2. Cardinality(Listable(n.range) \ n.had) = 0
    BY <2>1, FS_EmptySet
  <2> QED BY <1>10, <2>2 DEF L
<1>20. n.quota <= AllPages(n)
  <2>1. n.quota = pages /\ AllPages(n) = pages
    BY <1>10, <1>11
  <2>2. pages <= pages
    BY <1>5
  <2> QED BY <2>1, <2>2
<1>21. /\ Cardinality(Behind(n)) + Cardinality(SlotsRead(n)) <= Reads(n)
       /\ (AllPages(n) - n.quota) * PageSize + Cardinality(SlotsRead(n)) <= Reads(n)
       /\ Reads(n) <= (AllPages(n) - n.quota + Width(n) - Cardinality(n.todo)) * PageSize
       /\ Cardinality(Behind(n)) <= (AllPages(n) - n.quota) * PageSize
  BY <1>14, <1>15
<1>18. Reading(n)
  BY <1>10, <1>13, <1>16, <1>17, <1>20, <1>21 DEF Reading
<1>19. Counted(n)
  BY <1>1, <1>2, <1>10 DEF Counted
<1>22. n.cuts = {}
  <2>1. r.cuts = {}
    BY <1>1 DEF ListingOk, NoListing, Listings
  <2>2. m.cuts = {}
    BY <1>1, <1>7, <2>1 DEF Listings
  <2> QED BY <1>8, <1>9, <2>2 DEF Listings
<1>23. Once(n)
  <2>1. Here(n) = {}
    BY <1>13 DEF Here
  <2>2. Cardinality(AtCuts(n)) \in Nat /\ Cardinality(Repeated(n)) \in Nat
    BY <1>9, CutsNumbers
  <2>3. n.seen = {} /\ n.again = 0
    BY <1>10
  <2> QED BY <1>22, <2>1, <2>2, <2>3 DEF Once, ReadTwice
<1> QED BY <1>9, <1>10, <1>13, <1>18, <1>19, <1>23 DEF ListingOk

LEMMA ReadPageOk ==
    ASSUME date \in [Orders -> Int], NEW r, ListingOk(r), r.step = "pages", NEW i \in r.todo,
           NEW orders, orders = PageOf([start |-> r.range.start, end |-> r.until], i),
           NEW n, n = Narrow([Count(r, orders) EXCEPT !.todo = @ \ {i}])
    PROVE  ListingOk(n) /\ n.step = "pages"
<1>1. r \in Listings /\ Counted(r) /\ Reading(r) /\ Once(r)
  BY DEF ListingOk
<1>2. orders = PageAt(Listable([start |-> r.range.start, end |-> r.until]), i)
  BY DEF PageOf, PageAt
<1>3. PICK c : c = PageRead(r, orders, i)
  OBVIOUS
<1>4. n = Narrow(c)
  BY <1>3 DEF PageRead
<1>5. c \in Listings /\ Counted(c) /\ Reading(c)
  BY <1>1, <1>2, <1>3, PageReadIsReading
<1>6. c.step = "pages" /\ c.quota = r.quota
  <2>1. orders \subseteq Orders
    BY <1>2 DEF PageAt, Listable, InRange
  <2>2. ReadsPage(r, orders, i, c)
    BY <1>1, <1>3, <2>1, PageReadFields DEF Counted
  <2> QED BY <2>2 DEF ReadsPage
<1>9. r.quota > 0
  <2>1. Width(r) \in Nat /\ Width(r) <= r.quota /\ r.quota \in Nat
    BY <1>1, ListingNumbers DEF Listings
  <2>2. i \in 1..Width(r)
    BY <1>1 DEF Reading
  <2> QED BY <2>1, <2>2
<1>10. Once(c)
  BY <1>1, <1>2, <1>3, <1>9, PageReadOnce
<1>7. CASE c.todo # {}
  <2>1. n = c
    BY <1>4, <1>7 DEF Narrow
  <2> QED BY <1>5, <1>6, <1>7, <1>10, <2>1 DEF ListingOk
<1>8. CASE c.todo = {}
  <2>1. Once(n)
    BY <1>4, <1>5, <1>6, <1>8, <1>9, <1>10, NextWindowOnce
  <2>2. n \in Listings /\ Counted(n) /\ Reading(n) /\ (n.todo = {} => n.quota = 0)
    BY <1>4, <1>5, <1>6, <1>8, <1>9, NextWindowIsReading
  <2>3. n.step = "pages"
    BY <1>4, <1>5, <1>6, <1>8, NarrowFields DEF NextWindow
  <2> QED BY <2>1, <2>2, <2>3 DEF ListingOk
<1> QED BY <1>7, <1>8

LEMMA FinishOk ==
    ASSUME date \in [Orders -> Int], NEW r, ListingOk(r), r.step = "pages", r.todo = {},
           NEW n, n = [r EXCEPT !.step = "done"]
    PROVE  ListingOk(n) /\ n.step = "done" /\ n.range = r.range
<1>1. r \in Listings /\ Counted(r) /\ Reading(r) /\ r.quota = 0 /\ Once(r)
  BY DEF ListingOk
<1>2. /\ n \in Listings /\ n.step = "done" /\ n.range = r.range /\ n.had = r.had /\ n.seen = r.seen
      /\ n.again = r.again /\ n.late = r.late /\ n.until = r.until /\ n.sell = r.sell /\ n.total = r.total
  BY <1>1 DEF Listings
<1>3. Counted(n)
  BY <1>1, <1>2 DEF Counted
<1>4. PageSize \in Nat \ {0} /\ MaxPages \in Nat \ {0} /\ r.late \in Nat
  BY <1>1, OrdersAssumption DEF Listings
<1>5. /\ AllPages(r) \in Nat /\ Reads(r) \in Nat /\ Cardinality(r.had) \in Nat
      /\ Cardinality(SlotsRead(r)) \in Nat
  BY <1>1, ListingNumbers
<1>6. Cardinality(r.had) <= AllPages(r) * PageSize \/ AllPages(r) = MaxPages
  <2>1. Cardinality(r.had) + PageSize - 1 \in Nat
    BY <1>4, <1>5
  <2>2. PICK q \in Nat : q = (Cardinality(r.had) + PageSize - 1) \div PageSize
                        /\ Cardinality(r.had) + PageSize - 1 < q * PageSize + PageSize
    BY <1>4, <2>1, Quotient
  <2>3. AllPages(r) = IF q <= MaxPages THEN q ELSE MaxPages
    BY <1>4, <2>2, LesserOfTwo DEF AllPages
  <2>4. q * PageSize \in Nat
    BY <1>4
  <2> QED BY <1>4, <1>5, <2>2, <2>3, <2>4
<1>7. Cardinality(r.had) <= Reads(r) \/ MaxPages * PageSize <= Reads(r)
  <2>1. PICK x \in Nat : x = AllPages(r) * PageSize
    BY <1>4, <1>5
  <2>2. (AllPages(r) - r.quota) * PageSize = x
    BY <1>1, <1>5, <2>1
  <2>3. \/ Cardinality(r.had) + Cardinality(SlotsRead(r)) <= Reads(r)
        \/ x + Cardinality(SlotsRead(r)) <= Reads(r)
    BY <1>1, <2>2 DEF Reading
  <2> QED BY <1>5, <1>6, <2>1, <2>3
<1>8. Cardinality(r.seen \ r.had) <= r.late
  <2>1. r.seen \ r.had \subseteq Listable(r.range) \ r.had
    BY <1>1 DEF Reading
  <2>2. Listable(r.range) \ r.had \subseteq Orders
    BY DEF Listable, InRange
  <2>3. IsFiniteSet(Listable(r.range) \ r.had)
    BY <2>2, OrdersAreFew
  <2>4. Cardinality(r.seen \ r.had) <= Cardinality(Listable(r.range) \ r.had)
        /\ Cardinality(r.seen \ r.had) \in Nat /\ Cardinality(Listable(r.range) \ r.had) \in Nat
    BY <2>1, <2>3, CardLess
  <2>5. Cardinality(Listable(r.range) \ r.had) <= r.late
    BY <1>1 DEF Reading
  <2> QED BY <1>4, <2>4, <2>5
<1>9. Ended(n)
  BY <1>2, <1>7, <1>8 DEF Ended, Reads
<1>10. Once(n)
  <2>1. n.cuts = r.cuts /\ n.quota = 0
    BY <1>1, <1>2 DEF Listings
  <2>2. AtCuts(n) = AtCuts(r)
    BY <1>2, <2>1 DEF AtCuts
  <2> QED BY <1>1, <1>2, <2>1, <2>2 DEF Once
<1> QED BY <1>2, <1>3, <1>9, <1>10 DEF ListingOk

LEMMA OnceStays == ASSUME date' = date, NEW r PROVE Once(r)' <=> Once(r)
<1>1. AtCuts(r)' = AtCuts(r) /\ Waiting(r)' = Waiting(r)
  BY DEF AtCuts, Waiting
<1>2. \A i : PageAt(Waiting(r), i)' = PageAt(Waiting(r), i)
  BY <1>1 DEF PageAt, Place, Newer
<1>3. Here(r)' = Here(r)
  BY <1>1, <1>2 DEF Here
<1>4. Repeated(r)' = Repeated(r)
  BY <1>1, <1>3 DEF Repeated
<1>5. ReadTwice(r)' <=> ReadTwice(r)
  BY <1>1, <1>3, <1>4 DEF ReadTwice
<1>6. Spread(r.had)' <=> Spread(r.had)
  BY DEF Spread
<1> QED BY <1>1, <1>5, <1>6 DEF Once

LEMMA ListingStays ==
    ASSUME date' = date, invoiced' = invoiced, NEW r, ListingOk(r)
    PROVE  ListingOk(r)'
<1>1. \A span : InRange(span)' = InRange(span) /\ Listable(span)' = Listable(span)
  BY DEF InRange, Listable
<1>2. Waiting(r)' = Waiting(r) /\ Behind(r)' = Behind(r)
  BY DEF Waiting, Behind
<1>3. \A o : LaterWaiting(r, o)' = LaterWaiting(r, o)
  BY <1>2 DEF LaterWaiting
<1>4. SlotsRead(r)' = SlotsRead(r)
  BY <1>2 DEF SlotsRead
<1>5. Counted(r)' <=> Counted(r)
  BY <1>1 DEF Counted
<1>6. Reading(r)' <=> Reading(r)
  BY <1>1, <1>2, <1>3, <1>4 DEF Reading
<1>7. Once(r)' <=> Once(r)
  BY OnceStays
<1> QED BY <1>5, <1>6, <1>7 DEF ListingOk

\* An order invoiced while a listing is made can only be counted as late.
LEMMA InvoiceOk ==
    ASSUME date \in [Orders -> Int], date' = date, NEW o \in Orders, invoiced' = invoiced \cup {o},
           NEW r, ListingOk(r),
           NEW n, n = IF r.step = "pages" /\ o \in InRange(r.range) THEN [r EXCEPT !.late = @ + 1] ELSE r
    PROVE  ListingOk(n)'
<1>1. r \in Listings /\ Counted(r) /\ r.late \in Nat
  BY DEF ListingOk, Listings
<1>2. /\ n \in Listings /\ n.step = r.step /\ n.range = r.range /\ n.until = r.until /\ n.quota = r.quota
      /\ n.rounds = r.rounds /\ n.todo = r.todo /\ n.sell = r.sell /\ n.total = r.total
      /\ n.seen = r.seen /\ n.had = r.had /\ n.again = r.again
      /\ n.late = IF r.step = "pages" /\ o \in InRange(r.range) THEN r.late + 1 ELSE r.late
  BY <1>1 DEF Listings
<1>3. \A span : InRange(span)' = InRange(span)
  BY DEF InRange
<1>4. Waiting(n)' = Waiting(r) /\ Behind(n)' = Behind(r) /\ Width(n) = Width(r) /\ AllPages(n) = AllPages(r)
      /\ Reads(n) = Reads(r)
  BY <1>2 DEF Waiting, Behind, Width, AllPages, Reads
<1>5. \A p : LaterWaiting(n, p)' = LaterWaiting(r, p)
  BY <1>4 DEF LaterWaiting
<1>6. SlotsRead(n)' = SlotsRead(r)
  BY <1>2, <1>4 DEF SlotsRead
<1>7. Counted(n)'
  BY <1>1, <1>2, <1>3 DEF Counted
<1>8. CASE r.step = "pages"
  <2>1. Reading(r) /\ (r.todo = {} => r.quota = 0)
    BY <1>8 DEF ListingOk
  <2>2. Listable(r.range) \subseteq Listable(r.range)'
    BY <1>3 DEF Listable
  <2>3. Cardinality(Listable(r.range)' \ r.had) <= n.late
    <3>1. PICK S : S = Listable(r.range) \ r.had
      OBVIOUS
    <3>2. S \subseteq Orders
      BY <3>1 DEF Listable, InRange
    <3>3. IsFiniteSet(S) /\ Cardinality(S) \in Nat /\ Cardinality(S) <= r.late
      BY <2>1, <3>1, <3>2, OrdersAreFew DEF Reading
    <3>4. IsFiniteSet(S \cup {o}) /\ Cardinality(S \cup {o}) \in Nat /\ Cardinality(S \cup {o}) <= Cardinality(S) + 1
      <4>1. IsFiniteSet(S \cup {o})
            /\ Cardinality(S \cup {o}) = IF o \in S THEN Cardinality(S) ELSE Cardinality(S) + 1
        BY <3>3, FS_AddElement
      <4> QED BY <3>3, <4>1
    <3>5. CASE o \in InRange(r.range)
      <4>1. Listable(r.range)' \ r.had \subseteq S \cup {o}
        BY <1>3, <3>1 DEF Listable
      <4>2. Cardinality(Listable(r.range)' \ r.had) <= Cardinality(S \cup {o})
            /\ Cardinality(Listable(r.range)' \ r.had) \in Nat
        BY <3>4, <4>1, CardLess
      <4>3. n.late = r.late + 1
        BY <1>2, <1>8, <3>5
      <4> QED BY <1>1, <3>3, <3>4, <4>2, <4>3
    <3>6. CASE o \notin InRange(r.range)
      <4>1. Listable(r.range)' \ r.had = S
        BY <1>3, <3>1, <3>6 DEF Listable
      <4>2. n.late = r.late
        BY <1>2, <3>6
      <4> QED BY <3>3, <4>1, <4>2
    <3> QED BY <3>5, <3>6
  <2>4. Listable(n.range)' = Listable(r.range)'
    BY <1>2
  <2>5. Reading(n)'
    BY <1>2, <1>4, <1>5, <1>6, <2>1, <2>2, <2>3, <2>4 DEF Reading
  <2>6. Once(n)'
    <3>1. CASE o \in InRange(r.range)
      <4>1. n.late # 0
        BY <1>1, <1>2, <1>8, <3>1
      <4> QED BY <4>1 DEF Once
    <3>2. CASE o \notin InRange(r.range)
      <4>1. n = r
        BY <3>2
      <4>2. Once(r)
        BY <1>8 DEF ListingOk
      <4> QED BY <4>1, <4>2, OnceStays
    <3> QED BY <3>1, <3>2
  <2> QED BY <1>2, <1>7, <1>8, <2>1, <2>5, <2>6 DEF ListingOk
<1>9. CASE r.step # "pages"
  <2>1. n = r
    BY <1>9
  <2>2. r.step = "done" => Once(r)
    BY DEF ListingOk
  <2>3. r.step = "done" => Once(r)'
    BY <2>2, OnceStays
  <2> QED BY <1>7, <1>9, <2>1, <2>3 DEF ListingOk
<1> QED BY <1>8, <1>9

\* A step that only makes another listing of one process.
LEMMA ListingMoves ==
    ASSUME ListingInv, UNCHANGED <<date, invoiced, listed>>,
           NEW a \in Web, NEW n, ListingOk(n), list' = [list EXCEPT ![a] = n]
    PROVE  ListingInv'
<1>1. date' = date /\ invoiced' = invoiced /\ listed' = listed
  OBVIOUS
<1>2. ASSUME NEW b \in Web PROVE ListingOk(list[b])'
  <2>1. PICK r : r = list'[b]
    OBVIOUS
  <2>2. ListingOk(r)
    BY <2>1 DEF ListingInv
  <2> QED BY <1>1, <2>1, <2>2, ListingStays
<1>3. ASSUME NEW k \in DOMAIN listed PROVE ListingOk(listed[k])'
  <2>1. PICK r : r = listed[k]
    OBVIOUS
  <2>2. ListingOk(r)
    BY <2>1 DEF ListingInv
  <2> QED BY <1>1, <2>1, <2>2, ListingStays
<1>4. list' \in [Web -> Listings]
  BY DEF ListingInv, ListingOk
<1> QED BY <1>1, <1>2, <1>3, <1>4 DEF ListingInv

LEMMA ListingKept ==
    ASSUME ListingInv, UNCHANGED <<date, invoiced, list, listed>>
    PROVE  ListingInv'
<1>1. date' = date /\ invoiced' = invoiced /\ listed' = listed /\ list' = list
  OBVIOUS
<1>2. ASSUME NEW b \in Web PROVE ListingOk(list[b])'
  <2>1. PICK r : r = list[b]
    OBVIOUS
  <2>2. ListingOk(r)
    BY <2>1 DEF ListingInv
  <2> QED BY <1>1, <2>1, <2>2, ListingStays
<1>3. ASSUME NEW k \in DOMAIN listed PROVE ListingOk(listed[k])'
  <2>1. PICK r : r = listed[k]
    OBVIOUS
  <2>2. ListingOk(r)
    BY <2>1 DEF ListingInv
  <2> QED BY <1>1, <2>1, <2>2, ListingStays
<1> QED BY <1>1, <1>2, <1>3 DEF ListingInv

LEMMA BeginListingOk ==
    ASSUME ListingInv, UNCHANGED <<date, invoiced, listed>>, NEW a \in Web,
           NEW range \in [start: Int, end: Int], BeginListing(a, range)
    PROVE  ListingInv' /\ list'[a].range = range
<1>1. PICK n : n = IF range \in DOMAIN listed THEN [listed[range] EXCEPT !.step = "done"]
                   ELSE [NoListing EXCEPT !.step = "first", !.range = range, !.until = range.end]
  OBVIOUS
<1>2. list' = [list EXCEPT ![a] = n] /\ a \in DOMAIN list
  BY <1>1 DEF BeginListing, ListingInv
<1>3. ListingOk(n) /\ n.range = range
  <2>1. CASE range \in DOMAIN listed
    <3>1. ListingOk(listed[range]) /\ listed[range].step = "done" /\ listed[range].range = range
      BY <2>1 DEF ListingInv
    <3>2. n = listed[range]
      BY <1>1, <2>1, <3>1 DEF ListingOk, Listings
    <3> QED BY <3>1, <3>2
  <2>2. CASE range \notin DOMAIN listed
    <3>1. n = [NoListing EXCEPT !.step = "first", !.range = range, !.until = range.end]
      BY <1>1, <2>2
    <3>2. n.range = range
      BY <3>1 DEF NoListing
    <3> QED BY <3>1, <3>2, FreshOk
  <2> QED BY <2>1, <2>2
<1> QED BY <1>2, <1>3, ListingMoves

LEMMA InvoiceInv ==
    ASSUME ListingInv, NEW o \in Orders, Invoice(o)
    PROVE  ListingInv'
<1>1. date' = date /\ invoiced' = invoiced \cup {o} /\ listed' = listed /\ date \in [Orders -> Int]
  BY LayoutType DEF Invoice, ListingInv
<1>2. ASSUME NEW b \in Web PROVE ListingOk(list[b])'
  <2>1. PICK r, n : r = list[b] /\ n = list'[b]
    OBVIOUS
  <2>2. ListingOk(r)
    BY <2>1 DEF ListingInv
  <2>3. n = IF r.step = "pages" /\ o \in InRange(r.range) THEN [r EXCEPT !.late = @ + 1] ELSE r
    BY <2>1 DEF Invoice
  <2>4. ListingOk(n)'
    BY <1>1, <2>2, <2>3, InvoiceOk
  <2> QED BY <2>1, <2>4
<1>3. ASSUME NEW k \in DOMAIN listed PROVE ListingOk(listed[k])'
  <2>1. PICK r : r = listed[k]
    OBVIOUS
  <2>2. ListingOk(r) /\ r.step = "done"
    BY <2>1 DEF ListingInv
  <2>3. r = IF r.step = "pages" /\ o \in InRange(r.range) THEN [r EXCEPT !.late = @ + 1] ELSE r
    BY <2>2
  <2>4. ListingOk(r)'
    BY <1>1, <2>2, <2>3, InvoiceOk
  <2> QED BY <1>1, <2>1, <2>4
<1>4. list' \in [Web -> Listings]
  <2>1. list' = [b \in Web |-> list'[b]]
    BY DEF Invoice
  <2> QED BY <1>2, <2>1 DEF ListingOk
<1> QED BY <1>1, <1>2, <1>3, <1>4 DEF ListingInv

LEMMA ListingStepInv ==
    ASSUME ListingInv, NEW a \in Web, ListingStep(a)
    PROVE  ListingInv'
<1>1. PICK r : r = list[a]
  OBVIOUS
<1>2. ListingOk(r) /\ date \in [Orders -> Int]
  BY <1>1, LayoutType DEF ListingInv
<1>3. CASE FirstPage(a)
  <2>1. PICK pages : pages = Min({Pages(r.range), MaxPages})
    OBVIOUS
  <2>2. PICK n : n = Window([r EXCEPT !.step = "pages", !.quota = pages, !.rounds = Rounds(pages),
                                     !.had = Listable(r.range)])
    OBVIOUS
  <2>3. r.step = "first" /\ UNCHANGED <<date, invoiced, listed>> /\ list' = [list EXCEPT ![a] = n]
    BY <1>1, <1>3, <2>1, <2>2 DEF FirstPage, ListingInv
  <2>4. ListingOk(n)
    BY <1>2, <2>1, <2>2, <2>3, FirstPageOk
  <2> QED BY <2>3, <2>4, ListingMoves
<1>4. CASE ReadPage(a)
  <2>1. PICK i \in r.todo :
          list' = [list EXCEPT ![a] = Narrow([Count(r, PageOf([start |-> r.range.start, end |-> r.until], i))
                                              EXCEPT !.todo = @ \ {i}])]
    BY <1>1, <1>4 DEF ReadPage
  <2>2. PICK orders : orders = PageOf([start |-> r.range.start, end |-> r.until], i)
    OBVIOUS
  <2>3. PICK n : n = Narrow([Count(r, orders) EXCEPT !.todo = @ \ {i}])
    OBVIOUS
  <2>4. r.step = "pages" /\ UNCHANGED <<date, invoiced, listed>> /\ list' = [list EXCEPT ![a] = n]
    BY <1>1, <1>4, <2>1, <2>2, <2>3 DEF ReadPage
  <2>5. ListingOk(n)
    BY <1>2, <2>2, <2>3, <2>4, ReadPageOk
  <2> QED BY <2>4, <2>5, ListingMoves
<1>5. CASE ListingFails(a)
  <2>1. PICK n : n = [NoListing EXCEPT !.step = "failed"]
    OBVIOUS
  <2>2. UNCHANGED <<date, invoiced, listed>> /\ list' = [list EXCEPT ![a] = n]
    BY <1>5, <2>1 DEF ListingFails
  <2>3. ListingOk(n)
    BY <2>1, NoListingOk
  <2> QED BY <2>2, <2>3, ListingMoves
<1>6. CASE FinishListing(a)
  <2>1. PICK n : n = [r EXCEPT !.step = "done"]
    OBVIOUS
  <2>2. /\ r.step = "pages" /\ r.todo = {} /\ date' = date /\ invoiced' = invoiced
        /\ list' = [list EXCEPT ![a] = n]
        /\ listed' = [k \in DOMAIN listed \cup {r.range} |-> IF k = r.range THEN list'[a] ELSE listed[k]]
    BY <1>1, <1>6, <2>1 DEF FinishListing, ListingInv
  <2>3. ListingOk(n) /\ n.step = "done" /\ n.range = r.range
    BY <1>2, <2>1, <2>2, FinishOk
  <2>4. list'[a] = n
    BY <2>2 DEF ListingInv
  <2>5. ASSUME NEW b \in Web PROVE ListingOk(list[b])'
    <3>1. PICK m : m = list'[b]
      OBVIOUS
    <3>2. ListingOk(m)
      BY <2>2, <2>3, <3>1 DEF ListingInv
    <3> QED BY <2>2, <3>1, <3>2, ListingStays
  <2>6. ASSUME NEW k \in DOMAIN listed' PROVE (ListingOk(listed[k]) /\ listed[k].step = "done" /\ listed[k].range = k)'
    <3>1. PICK m : m = listed'[k]
      OBVIOUS
    <3>2. ListingOk(m) /\ m.step = "done" /\ m.range = k
      BY <2>2, <2>3, <2>4, <3>1 DEF ListingInv
    <3> QED BY <2>2, <3>1, <3>2, ListingStays
  <2>7. list' \in [Web -> Listings]
    BY <2>2, <2>3 DEF ListingInv, ListingOk
  <2> QED BY <2>2, <2>5, <2>6, <2>7 DEF ListingInv
<1> QED BY <1>3, <1>4, <1>5, <1>6 DEF ListingStep

LEMMA ForgetListingInv ==
    ASSUME ListingInv, NEW range \in DOMAIN listed, ForgetListing(range)
    PROVE  ListingInv'
<1>1. /\ date' = date /\ invoiced' = invoiced /\ list' = list
      /\ listed' = [k \in DOMAIN listed \ {range} |-> listed[k]]
  BY DEF ForgetListing, Restrict
<1>2. ASSUME NEW b \in Web PROVE ListingOk(list[b])'
  <2>1. PICK r : r = list[b]
    OBVIOUS
  <2>2. ListingOk(r)
    BY <2>1 DEF ListingInv
  <2> QED BY <1>1, <2>1, <2>2, ListingStays
<1>3. ASSUME NEW k \in DOMAIN listed' PROVE (ListingOk(listed[k]) /\ listed[k].step = "done" /\ listed[k].range = k)'
  <2>1. PICK r : r = listed'[k]
    OBVIOUS
  <2>2. ListingOk(r) /\ r.step = "done" /\ r.range = k
    BY <1>1, <2>1 DEF ListingInv
  <2> QED BY <1>1, <2>1, <2>2, ListingStays
<1> QED BY <1>1, <1>2, <1>3 DEF ListingInv

-----------------------------------------------------------------------------
(* Traffic, answers of Meta and their merging.                             *)

TrafficInv ==
    /\ today \in Days /\ migrated \in {Never} \cup 1..today /\ cloned \in BOOLEAN
    /\ sent \in [Wabas -> [Days -> 0..MaxSent]]
    /\ \A d \in Days :
        /\ migrated = Never \/ d < migrated => sent["new"][d] = 0
        /\ ~cloned => sent["old"][d] = 0

Points == UNION {[D -> Nat] : D \in SUBSET Days}
Replies == [total: Nat, points: Points, bare: BOOLEAN]

\* The points of an answer are of the days asked for, and add up unless left out.
Reply(x, range) ==
    /\ x \in Replies /\ DOMAIN x.points \subseteq DaysOf(range)
    /\ Total(x.points) <= x.total /\ (Total(x.points) = x.total \/ x.bare)

LEMMA RangeDays ==
    ASSUME NEW range \in Ranges
    PROVE  /\ range.start \in Int /\ range.end \in Int /\ range \in [start: Int, end: Int]
           /\ IsFiniteSet(DaysOf(range)) /\ DaysOf(range) \subseteq Days
<1>1. range.start \in 1..MaxDay /\ range.end \in 1..MaxDay /\ MaxDay \in Nat /\ range \in [start: Days, end: Days]
  BY BoundsAssumption DEF Ranges, Days
<1>2. range.start \in Int /\ range.end \in Int
  BY <1>1
<1>3. IsFiniteSet(DaysOf(range))
  BY <1>2, FS_Interval DEF DaysOf
<1>4. DaysOf(range) \subseteq Days
  BY <1>1, <1>2 DEF DaysOf, Days
<1> QED BY <1>1, <1>2, <1>3, <1>4 DEF Days

LEMMA PointsAreFew ==
    ASSUME NEW p \in Points
    PROVE  /\ DOMAIN p \subseteq Days /\ IsFiniteSet(DOMAIN p) /\ \A d \in DOMAIN p : p[d] \in Nat
           /\ Total(p) = SumOver(p, DOMAIN p) /\ Total(p) \in Nat
<1>1. PICK D \in SUBSET Days : p \in [D -> Nat]
  BY DEF Points
<1>2. IsFiniteSet(Days)
  BY BoundsAssumption, FS_Interval DEF Days
<1>3. DOMAIN p \subseteq Days /\ \A d \in DOMAIN p : p[d] \in Nat
  BY <1>1
<1>4. IsFiniteSet(DOMAIN p)
  BY <1>2, <1>3, FS_Subset
<1>5. Total(p) = SumOver(p, DOMAIN p)
  BY DEF Total
<1> QED BY <1>3, <1>4, <1>5, SumType

LEMMA VolumeIsSum ==
    ASSUME NEW w, NEW range PROVE Volume(w, range) = SumOver(sent[w], DaysOf(range))
BY DEF Volume

LEMMA SentType ==
    ASSUME TrafficInv, NEW w \in Wabas, NEW d \in Days
    PROVE  sent[w][d] \in Nat
BY BoundsAssumption DEF TrafficInv

LEMMA VolumeType ==
    ASSUME TrafficInv, NEW w \in Wabas, NEW range \in Ranges
    PROVE  Volume(w, range) \in Nat
<1>1. IsFiniteSet(DaysOf(range)) /\ \A d \in DaysOf(range) : sent[w][d] \in Nat
  BY RangeDays, SentType
<1> QED BY <1>1, VolumeIsSum, SumType

LEMMA VolumeTypeNext ==
    ASSUME TrafficInv', NEW w \in Wabas, NEW range \in Ranges
    PROVE  Volume(w, range)' \in Nat
<1>1. PICK g : g = sent'[w]
  OBVIOUS
<1>2. IsFiniteSet(DaysOf(range)) /\ DaysOf(range) \subseteq Days
  BY RangeDays
<1>3. \A d \in Days : sent'[w][d] \in Nat
  BY BoundsAssumption DEF TrafficInv
<1>4. \A d \in DaysOf(range) : g[d] \in Nat
  BY <1>1, <1>2, <1>3
<1>5. Volume(w, range)' = SumOver(sent'[w], DaysOf(range))
  BY DEF Volume
<1> QED BY <1>1, <1>2, <1>4, <1>5, SumType

LEMMA VolumeMore ==
    ASSUME TrafficInv, NEW w \in Wabas, NEW range \in Ranges, NEW part, DaysOf(part) \subseteq DaysOf(range)
    PROVE  Volume(w, part) <= Volume(w, range)
<1>1. IsFiniteSet(DaysOf(range)) /\ \A d \in DaysOf(range) : sent[w][d] \in Nat
  BY RangeDays, SentType
<1> QED BY <1>1, VolumeIsSum, SumMore

LEMMA VolumeZero ==
    ASSUME TrafficInv, NEW w \in Wabas, NEW range \in Ranges, \A d \in DaysOf(range) : sent[w][d] = 0
    PROVE  Volume(w, range) = 0
<1>1. IsFiniteSet(DaysOf(range))
  BY RangeDays
<1> QED BY <1>1, VolumeIsSum, SumZero

\* Of a day that is over nothing is sent any more.
SentGrows ==
    \A w \in Wabas, d \in Days : sent[w][d] <= sent'[w][d] /\ (d < today => sent'[w][d] = sent[w][d])

LEMMA VolumeGrows ==
    ASSUME TrafficInv, TrafficInv', SentGrows, NEW w \in Wabas, NEW range \in Ranges
    PROVE  /\ Volume(w, range) <= Volume(w, range)'
           /\ range.end < today => Volume(w, range)' = Volume(w, range)
<1>1. IsFiniteSet(DaysOf(range)) /\ DaysOf(range) \subseteq Days
  BY RangeDays
<1>2. PICK f, g : f = sent[w] /\ g = sent'[w]
  OBVIOUS
<1>3. \A d \in DaysOf(range) : f[d] \in Nat /\ g[d] \in Nat /\ f[d] <= g[d]
  <2>1. \A d \in Days : sent'[w][d] \in Nat
    BY BoundsAssumption DEF TrafficInv
  <2> QED BY <1>1, <1>2, <2>1, SentType DEF SentGrows
<1>4. Volume(w, range) = SumOver(f, DaysOf(range)) /\ Volume(w, range)' = SumOver(g, DaysOf(range))
  <2>1. Volume(w, range)' = SumOver(sent'[w], DaysOf(range))
    BY DEF Volume
  <2> QED BY <1>2, <2>1, VolumeIsSum
<1>5. ASSUME range.end < today PROVE \A d \in DaysOf(range) : f[d] = g[d]
  <2>1. today \in Int
    BY BoundsAssumption DEF TrafficInv, Days
  <2>2. \A d \in DaysOf(range) : d < today
    BY <1>5, <2>1, RangeDays DEF DaysOf
  <2> QED BY <1>1, <1>2, <2>2 DEF SentGrows
<1> QED BY <1>1, <1>3, <1>4, <1>5, SumLess, SumEqual

LEMMA NothingIsReply ==
    ASSUME NEW range \in Ranges PROVE Reply(Nothing, range)
<1>1. <<>> \in Points
  <2>1. <<>> \in [{} -> Nat]
    OBVIOUS
  <2> QED BY <2>1 DEF Points
<1>2. DOMAIN <<>> = {}
  OBVIOUS
<1>3. Total(<<>>) = 0
  BY <1>1, <1>2, PointsAreFew, SumEmpty
<1> QED BY <1>1, <1>2, <1>3 DEF Reply, Replies, Nothing

\* A fresh answer has all the traffic of the days asked for.
LEMMA ResponseIsReply ==
    ASSUME TrafficInv, NEW key \in Keys, NEW include \in BOOLEAN, NEW x, x = Response(key, include)
    PROVE  Reply(x, key.range) /\ x.total = Volume(key.waba, key.range)
<1> DEFINE w == key.waba
           days == {d \in DaysOf(key.range) : sent[w][d] > 0}
           others == DaysOf(key.range) \ days
           p == [d \in days |-> sent[w][d]]
<1>1. w \in Wabas /\ key.range \in Ranges
  BY DEF Keys
<1>2. IsFiniteSet(DaysOf(key.range)) /\ DaysOf(key.range) \subseteq Days
  BY <1>1, RangeDays
<1>3. \A d \in DaysOf(key.range) : sent[w][d] \in Nat
  BY <1>1, <1>2, SentType
<1>4. p \in [days -> Nat] /\ days \subseteq Days
  BY <1>2, <1>3
<1>5. p \in Points
  <2> HIDE DEF p, days
  <2> QED BY <1>4 DEF Points
<1>6. Total(p) = Volume(w, key.range)
  <2>1. IsFiniteSet(days) /\ IsFiniteSet(others)
    BY <1>2, FS_Subset
  <2>2. days \cap others = {} /\ days \cup others = DaysOf(key.range)
    OBVIOUS
  <2>3. PICK f : f = sent[w]
    OBVIOUS
  <2>4. \A d \in days : p[d] = f[d]
    BY <2>3
  <2>5. \A d \in others : f[d] = 0
    BY <1>3, <2>3
  <2>6. DOMAIN p = days
    OBVIOUS
  <2> HIDE DEF p, days, others, w
  <2>7. SumOver(f, DaysOf(key.range)) = SumOver(f, days) + SumOver(f, others)
    BY <1>3, <2>1, <2>2, <2>3, SumUnion
  <2>8. SumOver(f, others) = 0
    BY <2>1, <2>5, SumZero
  <2>9. SumOver(p, days) = SumOver(f, days)
    BY <2>1, <2>4, SumEqual
  <2>10. SumOver(p, days) = Total(p) /\ Total(p) \in Nat
    BY <1>5, <2>6, PointsAreFew
  <2>11. Volume(w, key.range) = SumOver(f, DaysOf(key.range))
    BY <2>3, VolumeIsSum
  <2>12. SumOver(f, days) = Total(p) /\ Total(p) \in Nat
    BY <2>9, <2>10
  <2>13. Volume(w, key.range) = SumOver(f, days) + 0
    BY <2>7, <2>8, <2>11
  <2> QED BY <2>12, <2>13
<1>7. Volume(w, key.range) \in Nat
  BY <1>1, VolumeType
<1>8. x = [total |-> Volume(w, key.range), points |-> IF include THEN p ELSE <<>>, bare |-> ~include]
  BY DEF Response
<1>9. DOMAIN p \subseteq DaysOf(key.range)
  OBVIOUS
<1>10. Reply(Nothing, key.range)
  BY <1>1, NothingIsReply
<1> HIDE DEF p, w
<1>11. CASE include
  <2>1. x = [total |-> Volume(w, key.range), points |-> p, bare |-> FALSE]
    BY <1>8, <1>11
  <2>2. Reply(x, key.range)
    BY <1>5, <1>6, <1>7, <1>9, <2>1 DEF Reply, Replies
  <2> QED BY <2>1, <2>2 DEF w
<1>12. CASE ~include
  <2>1. x = [total |-> Volume(w, key.range), points |-> <<>>, bare |-> TRUE]
    BY <1>8, <1>12
  <2>2. <<>> \in Points /\ DOMAIN <<>> \subseteq DaysOf(key.range) /\ Total(<<>>) <= 0 /\ Total(<<>>) \in Nat
    BY <1>10, PointsAreFew DEF Reply, Nothing, Replies
  <2>3. Reply(x, key.range)
    BY <1>7, <2>1, <2>2 DEF Reply, Replies
  <2> QED BY <2>1, <2>3 DEF w
<1> QED BY <1>11, <1>12

LEMMA AddPointsAddUp ==
    ASSUME NEW p \in Points, NEW q \in Points, NEW s, s = AddPoints(p, q)
    PROVE  /\ s \in Points /\ DOMAIN s = DOMAIN p \cup DOMAIN q
           /\ Total(s) = Total(p) + Total(q)
<1> DEFINE U == DOMAIN p \cup DOMAIN q
           f == [d \in U |-> At(p, d)]
           g == [d \in U |-> At(q, d)]
<1>1. /\ IsFiniteSet(DOMAIN p) /\ IsFiniteSet(DOMAIN q) /\ U \subseteq Days
      /\ \A d \in DOMAIN p : p[d] \in Nat
      /\ \A d \in DOMAIN q : q[d] \in Nat
      /\ Total(p) = SumOver(p, DOMAIN p) /\ Total(q) = SumOver(q, DOMAIN q)
      /\ Total(p) \in Nat /\ Total(q) \in Nat
  BY PointsAreFew
<1>2. IsFiniteSet(U)
  BY <1>1, FS_Union
<1>3. \A d \in U : f[d] \in Nat /\ g[d] \in Nat /\ s[d] = f[d] + g[d]
  BY <1>1 DEF At, AddPoints
<1>4. DOMAIN s = U /\ s = [d \in U |-> s[d]]
  BY DEF AddPoints
<1>5. s \in Points
  <2>1. ASSUME NEW d \in U PROVE s[d] \in Nat
    <3>1. PICK m, n : m = f[d] /\ n = g[d]
      OBVIOUS
    <3>2. m \in Nat /\ n \in Nat /\ s[d] = m + n
      BY <1>3, <3>1
    <3> QED BY <3>2
  <2>2. s \in [U -> Nat]
    BY <1>4, <2>1
  <2> HIDE DEF U
  <2> QED BY <1>1, <2>2 DEF Points
<1>6. Total(s) = SumOver(f, U) + SumOver(g, U)
  <2>1. Total(s) = SumOver(s, U)
    BY <1>4, <1>5, PointsAreFew
  <2> HIDE DEF U, f, g
  <2> QED BY <1>2, <1>3, <2>1, SumPlus
<1>7. (\A d \in DOMAIN p : f[d] = p[d]) /\ (\A d \in U \ DOMAIN p : f[d] = 0)
      /\ (\A d \in DOMAIN q : g[d] = q[d]) /\ (\A d \in U \ DOMAIN q : g[d] = 0)
  BY DEF At
<1>8. /\ IsFiniteSet(U \ DOMAIN p) /\ IsFiniteSet(U \ DOMAIN q)
      /\ DOMAIN p \cap (U \ DOMAIN p) = {} /\ DOMAIN p \cup (U \ DOMAIN p) = U
      /\ DOMAIN q \cap (U \ DOMAIN q) = {} /\ DOMAIN q \cup (U \ DOMAIN q) = U
  BY <1>2, FS_Subset
<1> HIDE DEF U, f, g
<1>9. SumOver(f, U) = SumOver(p, DOMAIN p)
  <2>1. SumOver(f, U) = SumOver(f, DOMAIN p) + SumOver(f, U \ DOMAIN p)
    BY <1>1, <1>3, <1>8, SumUnion
  <2>2. SumOver(f, U \ DOMAIN p) = 0
    BY <1>7, <1>8, SumZero
  <2>3. SumOver(f, DOMAIN p) = SumOver(p, DOMAIN p)
    BY <1>1, <1>7, SumEqual
  <2> QED BY <1>1, <2>1, <2>2, <2>3
<1>10. SumOver(g, U) = SumOver(q, DOMAIN q)
  <2>0. \A d \in DOMAIN q \cup (U \ DOMAIN q) : g[d] \in Nat
    BY <1>3, <1>8
  <2>1. SumOver(g, U) = SumOver(g, DOMAIN q) + SumOver(g, U \ DOMAIN q)
    BY ONLY <1>1, <1>8, <2>0, SumUnion
  <2>2. SumOver(g, U \ DOMAIN q) = 0
    BY <1>7, <1>8, SumZero
  <2>3. SumOver(g, DOMAIN q) = SumOver(q, DOMAIN q)
    BY <1>1, <1>7, SumEqual
  <2> QED BY <1>1, <2>1, <2>2, <2>3
<1> QED BY <1>1, <1>4, <1>5, <1>6, <1>9, <1>10 DEF U

\* Merging loses no message and counts none twice.
LEMMA MergeIsReply ==
    ASSUME NEW range, NEW x, Reply(x, range), NEW y, Reply(y, range), NEW z, z = Merge(x, y)
    PROVE  /\ Reply(z, range) /\ z.total = x.total + y.total
           /\ Total(z.points) = Total(x.points) + Total(y.points)
<1>1. /\ x.points \in Points /\ y.points \in Points /\ x.total \in Nat /\ y.total \in Nat
      /\ x.bare \in BOOLEAN /\ y.bare \in BOOLEAN
  BY DEF Reply, Replies
<1>2. PICK s : s = AddPoints(x.points, y.points)
  OBVIOUS
<1>3. s \in Points /\ DOMAIN s = DOMAIN x.points \cup DOMAIN y.points
      /\ Total(s) = Total(x.points) + Total(y.points)
  BY <1>1, <1>2, AddPointsAddUp
<1>4. z = [total |-> x.total + y.total, points |-> s, bare |-> x.bare \/ y.bare]
  BY <1>2 DEF Merge
<1>5. Total(x.points) \in Nat /\ Total(y.points) \in Nat
  BY <1>1, PointsAreFew
<1>6. /\ z.total = x.total + y.total /\ z.points = s /\ z.bare = (x.bare \/ y.bare) /\ z \in Replies
  <2>1. (x.bare \/ y.bare) \in BOOLEAN /\ x.total + y.total \in Nat
    BY <1>1
  <2> QED BY <1>3, <1>4, <2>1 DEF Replies
<1>7. /\ Total(x.points) <= x.total /\ (Total(x.points) = x.total \/ x.bare)
      /\ Total(y.points) <= y.total /\ (Total(y.points) = y.total \/ y.bare)
      /\ DOMAIN x.points \subseteq DaysOf(range) /\ DOMAIN y.points \subseteq DaysOf(range)
  BY DEF Reply
<1>8. Total(s) <= z.total /\ (Total(s) = z.total \/ z.bare)
  BY <1>1, <1>3, <1>5, <1>6, <1>7
<1> QED BY <1>3, <1>6, <1>7, <1>8 DEF Reply
-----------------------------------------------------------------------------
(* What a request has yet to fetch and what it has got.                    *)

AskRecords ==
    [step: {"idle", "fetch", "done", "failed"}, entry: Entries, waba: Wabas, range: Ranges,
     todo: Seq(Keys), got: Seq(Replies), floor: Nat, skipped: BOOLEAN, answer: Replies]

Asks(r) == Truth(r.entry, r.waba, r.range)
Sends(key) == Volume(key.waba, key.range)

\* A WABA and days of which the answer is made.
Fits(key, r) ==
    /\ key \in Keys /\ DaysOf(key.range) \subseteq DaysOf(r.range)
    /\ key.waba = "new" => r.waba = "new"
    /\ key.waba = "old" => ~(r.entry = "client" /\ r.waba = "new")

\* The number is not less than what had been sent when the request came.
Enough(r, n) == r.floor <= n \/ (r.entry = "multi" /\ r.skipped)

\* Of two parts the first is of the old WABA.
Parted(r) == r.waba = "new" /\ r.entry # "client"

ToFetch(r) == r.todo = <<>> /\ r.got = <<>> /\ Enough(r, 0)
ToFetchOne(r, k) ==
    r.todo = <<k>> /\ r.got = <<>> /\ Fits(k, r) /\ Enough(r, Sends(k))
ToFetchTwo(r, j, k) ==
    /\ r.todo = <<j, k>> /\ r.got = <<>> /\ Parted(r) /\ Fits(j, r) /\ Fits(k, r)
    /\ j.waba = "old" /\ k.waba = "new" /\ Enough(r, Sends(j) + Sends(k))
HalfFetched(r, x, k) ==
    /\ r.todo = <<k>> /\ r.got = <<x>> /\ Parted(r) /\ Fits(k, r) /\ Reply(x, r.range)
    /\ k.waba = "new" /\ x.total <= Volume("old", r.range) /\ Enough(r, x.total + Sends(k))
FetchedOne(r, x) ==
    /\ r.todo = <<>> /\ r.got = <<x>> /\ Reply(x, r.range)
    /\ x.total <= Asks(r) /\ Enough(r, x.total)
FetchedTwo(r, x, y) ==
    /\ r.todo = <<>> /\ r.got = <<x, y>> /\ Reply(x, r.range) /\ Reply(y, r.range)
    /\ x.total + y.total <= Asks(r) /\ Enough(r, x.total + y.total)

Fetching(r) ==
    \/ ToFetch(r)
    \/ \E k \in Keys : ToFetchOne(r, k)
    \/ \E j, k \in Keys : ToFetchTwo(r, j, k)
    \/ \E x \in Replies, k \in Keys : HalfFetched(r, x, k)
    \/ \E x \in Replies : FetchedOne(r, x)
    \/ \E x, y \in Replies : FetchedTwo(r, x, y)

Answered(r) ==
    /\ Reply(r.answer, r.range) /\ r.answer.total <= Asks(r)
    /\ r.floor <= r.answer.total \/ (r.entry = "multi" /\ (r.skipped \/ r.answer.bare))

AskOk(r) ==
    /\ r \in AskRecords
    /\ r.step = "fetch" => Fetching(r)
    /\ r.step = "done" => Answered(r)

\* Redis has whole answers of days that are over.
CachedOk(key, x) ==
    key \in Keys /\ Reply(x, key.range) /\ x.total = Sends(key) /\ key.range.end < today

CacheInv == \A key \in DOMAIN cache : CachedOk(key, cache[key])

MetaInv ==
    /\ TrafficInv /\ CacheInv
    /\ ask = [a \in Requests |-> ask[a]] /\ \A a \in Requests : AskOk(ask[a])

LEMMA KeyFields ==
    ASSUME NEW key \in Keys PROVE key.waba \in Wabas /\ key.range \in Ranges
BY DEF Keys

LEMMA ReplyWider ==
    ASSUME NEW part, NEW range, DaysOf(part) \subseteq DaysOf(range), NEW x, Reply(x, part)
    PROVE  Reply(x, range)
BY DEF Reply

LEMMA ReplyNumbers ==
    ASSUME NEW range, NEW x, Reply(x, range)
    PROVE  x \in Replies /\ x.total \in Nat /\ x.bare \in BOOLEAN /\ Total(x.points) \in Nat
BY PointsAreFew DEF Reply, Replies

LEMMA TruthParts ==
    ASSUME TrafficInv, NEW entry, NEW w \in Wabas, NEW range \in Ranges
    PROVE  /\ Volume("old", range) \in Nat /\ Volume("new", range) \in Nat
           /\ Truth(entry, w, range) \in Nat
           /\ w = "old" => Truth(entry, w, range) = Volume("old", range)
           /\ w = "new" /\ entry = "client" => Truth(entry, w, range) = Volume("new", range)
           /\ w = "new" /\ entry # "client"
              => Truth(entry, w, range) = Volume("old", range) + Volume("new", range)
<1>1. "old" \in Wabas /\ "new" \in Wabas
  BY DEF Wabas
<1>2. PICK m, n : m = Volume("old", range) /\ n = Volume("new", range)
  OBVIOUS
<1>3. m \in Nat /\ n \in Nat
  BY <1>1, <1>2, VolumeType
<1>4. Truth(entry, w, range) = (IF entry = "client" /\ w = "new" THEN 0 ELSE m) + (IF w = "new" THEN n ELSE 0)
  BY <1>2 DEF Truth
<1>5. w = "old" \/ w = "new"
  BY DEF Wabas
<1> QED BY <1>2, <1>3, <1>4, <1>5

LEMMA SendsType == ASSUME TrafficInv, NEW key \in Keys PROVE Sends(key) \in Nat
BY KeyFields, VolumeType DEF Sends

\* What fits is a part of what is asked.
LEMMA FitsAsks ==
    ASSUME TrafficInv, NEW r \in AskRecords, NEW key, Fits(key, r)
    PROVE  /\ Sends(key) \in Nat /\ Sends(key) <= Asks(r) /\ Asks(r) \in Nat
           /\ Sends(key) <= Volume(key.waba, r.range) /\ Volume(key.waba, r.range) \in Nat
<1>1. r.waba \in Wabas /\ r.range \in Ranges
  BY DEF AskRecords
<1>2. key \in Keys /\ key.waba \in Wabas /\ DaysOf(key.range) \subseteq DaysOf(r.range)
  BY KeyFields DEF Fits
<1>3. Sends(key) \in Nat /\ Volume(key.waba, r.range) \in Nat /\ Sends(key) <= Volume(key.waba, r.range)
  BY <1>1, <1>2, SendsType, VolumeType, VolumeMore DEF Sends
<1>4. PICK m, n, s, t : m = Volume("old", r.range) /\ n = Volume("new", r.range) /\ s = Sends(key) /\ t = Asks(r)
  OBVIOUS
<1>5. /\ m \in Nat /\ n \in Nat /\ t \in Nat
      /\ r.waba = "old" => t = m
      /\ r.waba = "new" /\ r.entry = "client" => t = n
      /\ r.waba = "new" /\ r.entry # "client" => t = m + n
  BY <1>1, <1>4, TruthParts DEF Asks
<1>6. s \in Nat /\ (key.waba = "old" => s <= m) /\ (key.waba = "new" => s <= n)
  BY <1>3, <1>4
<1>7. s <= t
  BY <1>1, <1>2, <1>5, <1>6 DEF Fits, Wabas
<1> QED BY <1>3, <1>4, <1>5, <1>7
\* Days without traffic may be left out.
LEMMA VolumePart ==
    ASSUME TrafficInv, NEW w \in Wabas, NEW range \in Ranges, NEW part \in Ranges,
           DaysOf(part) \subseteq DaysOf(range), \A d \in DaysOf(range) \ DaysOf(part) : sent[w][d] = 0
    PROVE  Volume(w, part) = Volume(w, range)
<1> DEFINE S == DaysOf(part)
           R == DaysOf(range) \ DaysOf(part)
<1>1. IsFiniteSet(DaysOf(range)) /\ \A d \in DaysOf(range) : sent[w][d] \in Nat
  BY RangeDays, SentType
<1>2. S \cup R = DaysOf(range) /\ S \cap R = {} /\ IsFiniteSet(S) /\ IsFiniteSet(R)
  BY <1>1, FS_Subset
<1>3. PICK f : f = sent[w]
  OBVIOUS
<1>4. (\A d \in S : f[d] \in Nat) /\ (\A d \in S \cup R : f[d] \in Nat) /\ (\A d \in R : f[d] = 0)
  BY <1>1, <1>2, <1>3
<1>5. Volume(w, part) = SumOver(f, S) /\ Volume(w, range) = SumOver(f, DaysOf(range))
  BY <1>3, VolumeIsSum
<1> HIDE DEF S, R
<1>6. SumOver(f, DaysOf(range)) = SumOver(f, S) + SumOver(f, R)
  BY <1>2, <1>4, SumUnion
<1>7. SumOver(f, R) = 0 /\ SumOver(f, S) \in Nat
  BY <1>2, <1>4, SumZero, SumType
<1> QED BY <1>5, <1>6, <1>7

\* The days since the migration.
Since(range) == [range EXCEPT !.start = IF @ < migrated THEN migrated ELSE @]

LEMMA SinceMigration ==
    ASSUME TrafficInv, migrated # Never, NEW range \in Ranges, ~(range.end < migrated)
    PROVE  /\ Since(range) \in Ranges /\ DaysOf(Since(range)) \subseteq DaysOf(range)
           /\ Volume("new", Since(range)) = Volume("new", range)
<1>1. PICK s, e, m : s = range.start /\ e = range.end /\ m = migrated
  OBVIOUS
<1>2. /\ range \in [start: Days, end: Days] /\ s \in Days /\ e \in Days /\ s <= e
      /\ Days \subseteq Int
  BY <1>1, BoundsAssumption DEF Ranges, Days
<1>3. m \in Days /\ m <= e
  <2>1. PICK t, n : t = today /\ n = MaxDay
    OBVIOUS
  <2>2. t \in 1..n /\ n \in Nat /\ (m = 0 \/ m \in 1..t) /\ m # 0 /\ Days = 1..n
    BY <1>1, <2>1, BoundsAssumption DEF TrafficInv, Never, Days
  <2>3. m \in Days
    BY <2>2
  <2> QED BY <1>1, <1>2, <2>3
<1>4. PICK b : b = IF s < m THEN m ELSE s
  OBVIOUS
<1>5. b \in Days /\ s <= b /\ m <= b /\ b <= e /\ (b = s \/ b = m)
  BY <1>2, <1>3, <1>4
<1>6. Since(range) = [range EXCEPT !.start = b]
  BY <1>1, <1>4 DEF Since
<1>7. Since(range) = [start |-> b, end |-> e]
  BY <1>1, <1>2, <1>6
<1>8. Since(range) \in Ranges
  <2>1. [start |-> b, end |-> e] \in [start: Days, end: Days]
    BY <1>2, <1>5
  <2> QED BY <1>5, <1>7, <2>1 DEF Ranges
<1>9. DaysOf(Since(range)) = b..e /\ DaysOf(range) = s..e
  BY <1>1, <1>7 DEF DaysOf
<1>10. DaysOf(Since(range)) \subseteq DaysOf(range)
  BY <1>2, <1>5, <1>9
<1>11. ASSUME NEW d \in DaysOf(range) \ DaysOf(Since(range)) PROVE sent["new"][d] = 0
  <2>1. d \in Int /\ d < m
    BY <1>2, <1>3, <1>5, <1>9
  <2>2. d \in Days
    BY RangeDays
  <2> QED BY <1>1, <2>1, <2>2 DEF TrafficInv
<1>12. Volume("new", Since(range)) = Volume("new", range)
  <2>1. "new" \in Wabas
    BY DEF Wabas
  <2> QED BY <1>8, <1>10, <1>11, <2>1, VolumePart
<1> QED BY <1>8, <1>10, <1>12

LEMMA NothingBefore ==
    ASSUME TrafficInv, NEW range \in Ranges
    PROVE  /\ migrated = Never \/ range.end < migrated => Volume("new", range) = 0
           /\ ~cloned => Volume("old", range) = 0
<1>1. "old" \in Wabas /\ "new" \in Wabas /\ DaysOf(range) \subseteq Days
  BY RangeDays DEF Wabas
<1>2. ASSUME migrated = Never \/ range.end < migrated PROVE Volume("new", range) = 0
  <2>1. \A d \in DaysOf(range) : migrated = Never \/ d < migrated
    <3>1. migrated \in Int
      <4>1. PICK t, n, m : t = today /\ n = MaxDay /\ m = migrated
        OBVIOUS
      <4>2. t \in 1..n /\ n \in Nat /\ (m = 0 \/ m \in 1..t)
        BY <4>1, BoundsAssumption DEF TrafficInv, Never, Days
      <4> QED BY <4>1, <4>2
    <3> QED BY <1>2, <3>1, RangeDays DEF DaysOf
  <2>2. \A d \in DaysOf(range) : sent["new"][d] = 0
    BY <1>1, <2>1 DEF TrafficInv
  <2> QED BY <1>1, <2>2, VolumeZero
<1>3. ASSUME ~cloned PROVE Volume("old", range) = 0
  <2>1. \A d \in DaysOf(range) : sent["old"][d] = 0
    BY <1>1, <1>3 DEF TrafficInv
  <2> QED BY <1>1, <2>1, VolumeZero
<1> QED BY <1>2, <1>3
LEMMA OneAndTwo ==
    ASSUME NEW j, NEW k
    PROVE  /\ Head(<<j>>) = j /\ Tail(<<j>>) = <<>>
           /\ Head(<<j, k>>) = j /\ Tail(<<j, k>>) = <<k>>
           /\ Append(<<j>>, k) = <<j, k>>
           /\ <<j>> # <<>> /\ <<j, k>> # <<>>
<1>1. Head(<<j>>) = j /\ Tail(<<j>>) = <<>> /\ Head(<<j, k>>) = j /\ Tail(<<j, k>>) = <<k>>
  OBVIOUS
<1>2. PICK s, T, t : s = <<j>> /\ T = {j, k} /\ t = Append(s, k)
  OBVIOUS
<1>3. Append(<<j>>, k) = <<j, k>>
  <2>1. s \in Seq(T) /\ Len(s) = 1 /\ s[1] = j /\ k \in T
    BY <1>2
  <2>2. t \in Seq(T) /\ Len(t) = 2 /\ t[1] = j /\ t[2] = k
    BY <1>2, <2>1
  <2>3. t = <<t[1], t[2]>>
    BY ONLY <2>2
  <2> QED BY <1>2, <2>2, <2>3
<1>4. <<j>> # <<>> /\ <<j, k>> # <<>>
  OBVIOUS
<1> QED BY <1>1, <1>3, <1>4

LEMMA ResolvedParts ==
    ASSUME TrafficInv, NEW entry \in Entries, NEW range \in Ranges, NEW w,
           w = IF migrated = Never THEN "old" ELSE "new", NEW todo, todo = Resolved(entry, w, range)
    PROVE  \/ todo = <<OnWaba(w, range)>> /\ Truth(entry, w, range) <= Volume(w, range)
           \/ todo = <<>> /\ Truth(entry, w, range) = 0
           \/ /\ todo = <<OnWaba("old", range)>> /\ w = "new" /\ entry # "client"
              /\ Truth(entry, w, range) <= Volume("old", range)
           \/ /\ todo = <<OnWaba("new", Since(range))>> /\ w = "new"
              /\ ~(range.end < migrated) /\ migrated # Never
              /\ Truth(entry, w, range) <= Volume("new", range)
           \/ /\ todo = <<OnWaba("old", range), OnWaba("new", Since(range))>> /\ w = "new" /\ entry # "client"
              /\ ~(range.end < migrated) /\ migrated # Never
              /\ Truth(entry, w, range) = Volume("old", range) + Volume("new", range)
<1>1. w \in Wabas /\ (w = "old" \/ w = "new") /\ (w = "old" <=> migrated = Never)
  BY DEF Wabas
<1>2. PICK m, n, t : m = Volume("old", range) /\ n = Volume("new", range) /\ t = Truth(entry, w, range)
  OBVIOUS
<1>3. /\ m \in Nat /\ n \in Nat /\ t \in Nat
      /\ w = "old" => t = m
      /\ w = "new" /\ entry = "client" => t = n
      /\ w = "new" /\ entry # "client" => t = m + n
  BY <1>1, <1>2, TruthParts
<1>4. (migrated = Never \/ range.end < migrated => n = 0) /\ (~cloned => m = 0)
  BY <1>2, NothingBefore
<1>5. w = "old" => Volume(w, range) = m
  BY <1>2
<1>6. w = "new" => Volume(w, range) = n
  BY <1>2
<1>7. CASE entry = "client"
  <2>1. todo = <<OnWaba(w, range)>>
    BY <1>7 DEF Resolved
  <2>2. t <= Volume(w, range)
    BY <1>1, <1>3, <1>5, <1>6, <1>7
  <2> QED BY <1>2, <2>1, <2>2
<1>8. CASE entry # "client" /\ w = "old"
  <2>1. Periods(w, range) = <<OnWaba(w, range)>>
    BY <1>8 DEF Periods
  <2>2. Head(Periods(w, range)).waba = w
    BY <2>1 DEF OnWaba
  <2>3. todo = <<OnWaba(w, range)>>
    BY <1>8, <2>1, <2>2 DEF Resolved
  <2>4. t <= Volume(w, range)
    BY <1>3, <1>5, <1>8
  <2> QED BY <1>2, <2>3, <2>4
<1>9. CASE entry # "client" /\ w = "new" /\ range.end < migrated
  <2>1. Periods(w, range) = <<OnWaba("old", range)>>
    BY <1>1, <1>9 DEF Periods
  <2>2. Head(Periods(w, range)).waba # w /\ Tail(Periods(w, range)) = <<>>
    <3>1. PICK j : j = OnWaba("old", range)
      OBVIOUS
    <3>2. j.waba # w
      BY <1>9, <3>1 DEF OnWaba
    <3>3. Head(<<j>>) = j /\ Tail(<<j>>) = <<>>
      BY OneAndTwo
    <3> QED BY <2>1, <3>1, <3>2, <3>3
  <2>3. CASE cloned
    <3>1. todo = <<OnWaba("old", range)>>
      BY <1>9, <2>1, <2>3 DEF Resolved
    <3>2. t <= m
      BY <1>3, <1>4, <1>9
    <3> QED BY <1>2, <1>9, <3>1, <3>2
  <2>4. CASE ~cloned /\ entry \in {"public", "internal"}
    <3>1. todo = <<OnWaba(w, range)>>
      BY <1>9, <2>2, <2>4 DEF Resolved
    <3>2. t <= Volume(w, range)
      BY <1>3, <1>4, <1>6, <1>9, <2>4
    <3> QED BY <1>2, <3>1, <3>2
  <2>5. CASE ~cloned /\ entry \notin {"public", "internal"}
    <3>1. todo = <<>>
      BY <1>9, <2>2, <2>5 DEF Resolved
    <3>2. t = 0
      BY <1>3, <1>4, <1>9, <2>5
    <3> QED BY <1>2, <3>1, <3>2
  <2> QED BY <2>3, <2>4, <2>5
<1>10. CASE entry # "client" /\ w = "new" /\ ~(range.end < migrated)
  <2>1. Periods(w, range) = <<OnWaba("old", range), OnWaba("new", Since(range))>>
    BY <1>1, <1>10 DEF Periods, Since
  <2>2. /\ Head(Periods(w, range)).waba # w
        /\ Tail(Periods(w, range)) = <<OnWaba("new", Since(range))>>
    <3>1. PICK j, k : j = OnWaba("old", range) /\ k = OnWaba("new", Since(range))
      OBVIOUS
    <3>2. j.waba # w
      BY <1>10, <3>1 DEF OnWaba
    <3>3. Head(<<j, k>>) = j /\ Tail(<<j, k>>) = <<k>>
      BY OneAndTwo
    <3> QED BY <2>1, <3>1, <3>2, <3>3
  <2>3. CASE cloned
    <3>1. todo = <<OnWaba("old", range), OnWaba("new", Since(range))>>
      BY <1>10, <2>1, <2>3 DEF Resolved
    <3> QED BY <1>1, <1>2, <1>3, <1>10, <3>1
  <2>4. CASE ~cloned
    <3>1. todo = <<OnWaba("new", Since(range))>>
      BY <1>10, <2>2, <2>4 DEF Resolved
    <3>2. t <= n
      BY <1>3, <1>4, <1>10, <2>4
    <3> QED BY <1>1, <1>2, <1>10, <3>1, <3>2
  <2> QED BY <2>3, <2>4
<1> QED BY <1>1, <1>7, <1>8, <1>9, <1>10

LEMMA RequestIsRecord ==
    ASSUME NEW r,
           r = [step |-> r.step, entry |-> r.entry, waba |-> r.waba, range |-> r.range, todo |-> r.todo,
                got |-> r.got, floor |-> r.floor, skipped |-> r.skipped, answer |-> r.answer],
           r.step \in {"idle", "fetch", "done", "failed"}, r.entry \in Entries, r.waba \in Wabas,
           r.range \in Ranges, r.todo \in Seq(Keys), r.got \in Seq(Replies), r.floor \in Nat,
           r.skipped \in BOOLEAN, r.answer \in Replies
    PROVE  r \in AskRecords
BY DEF AskRecords

LEMMA NoAskOk ==
    ASSUME NEW step \in {"idle", "failed"}, NEW r, r = [NoAsk EXCEPT !.step = step]
    PROVE  AskOk(r)
<1>0. PICK b \in BOOLEAN : b = FALSE
  OBVIOUS
<1>1. PICK range, e, x : range = [start |-> 1, end |-> 1] /\ e = <<>> /\ x = Nothing
  OBVIOUS
<1>2. r = [step |-> step, entry |-> "public", waba |-> "old", range |-> range,
           todo |-> e, got |-> e, floor |-> 0, skipped |-> b, answer |-> x]
  BY <1>0, <1>1 DEF NoAsk
<1>3. range \in Ranges
  <2>1. 1 \in Days
    BY BoundsAssumption DEF Days
  <2>2. [start |-> 1, end |-> 1] \in [start: Days, end: Days]
    BY <2>1
  <2> QED BY <1>1, <2>2 DEF Ranges
<1>4. x \in Replies
  BY <1>1, <1>3, NothingIsReply DEF Reply
<1>5. e \in Seq(Replies) /\ e \in Seq(Keys)
  BY <1>1
<1>6. r \in AskRecords
  <2>1. "public" \in Entries /\ "old" \in Wabas /\ step \in {"idle", "fetch", "done", "failed"}
    BY DEF Entries, Wabas
  <2>2. r.range \in Ranges /\ r.answer \in Replies /\ r.todo \in Seq(Keys) /\ r.got \in Seq(Replies)
    BY <1>2, <1>3, <1>4, <1>5
  <2>3. /\ r.step \in {"idle", "fetch", "done", "failed"} /\ r.entry \in Entries /\ r.waba \in Wabas
        /\ r.floor \in Nat
    BY <1>2, <2>1
  <2>5. r.skipped \in BOOLEAN
    BY ONLY <1>0, <1>2
  <2>4. r = [step |-> r.step, entry |-> r.entry, waba |-> r.waba, range |-> r.range, todo |-> r.todo,
             got |-> r.got, floor |-> r.floor, skipped |-> r.skipped, answer |-> r.answer]
    BY <1>2
  <2> QED BY ONLY <2>2, <2>3, <2>4, <2>5, RequestIsRecord
<1> QED BY <1>2, <1>6 DEF AskOk

NewAsk(entry, w, range, todo, floor) ==
    [NoAsk EXCEPT !.step = "fetch", !.entry = entry, !.waba = w, !.range = range,
                  !.todo = todo, !.floor = floor]

LEMMA NewRequest ==
    ASSUME NEW entry \in Entries, NEW w \in Wabas, NEW range \in Ranges, NEW todo \in Seq(Keys),
           NEW floor \in Nat, NEW r, r = NewAsk(entry, w, range, todo, floor)
    PROVE  /\ r \in AskRecords /\ r.step = "fetch" /\ r.entry = entry /\ r.waba = w /\ r.range = range
           /\ r.todo = todo /\ r.got = <<>> /\ r.floor = floor
<1>0. PICK b \in BOOLEAN : b = FALSE
  OBVIOUS
<1>1. PICK e, x : e = <<>> /\ x = Nothing
  OBVIOUS
<1>2. r = [step |-> "fetch", entry |-> entry, waba |-> w, range |-> range, todo |-> todo,
           got |-> e, floor |-> floor, skipped |-> b, answer |-> x]
  BY <1>0, <1>1 DEF NewAsk, NoAsk
<1>3. x \in Replies
  BY <1>1, NothingIsReply DEF Reply
<1>4. e \in Seq(Replies)
  BY <1>1
<1>5. r \in AskRecords
  <2>1. /\ r.step \in {"idle", "fetch", "done", "failed"} /\ r.entry \in Entries /\ r.waba \in Wabas
        /\ r.range \in Ranges /\ r.todo \in Seq(Keys) /\ r.got \in Seq(Replies)
        /\ r.floor \in Nat /\ r.answer \in Replies
    BY ONLY <1>2, <1>3, <1>4, entry \in Entries, w \in Wabas, range \in Ranges, todo \in Seq(Keys), floor \in Nat
  <2>3. r.skipped \in BOOLEAN
    BY ONLY <1>0, <1>2
  <2>2. r = [step |-> r.step, entry |-> r.entry, waba |-> r.waba, range |-> r.range, todo |-> r.todo,
             got |-> r.got, floor |-> r.floor, skipped |-> r.skipped, answer |-> r.answer]
    BY <1>2
  <2> QED BY ONLY <2>1, <2>2, <2>3, RequestIsRecord
<1>6. /\ r.step = "fetch" /\ r.entry = entry /\ r.waba = w /\ r.range = range
      /\ r.todo = todo /\ r.got = e /\ r.floor = floor
  BY ONLY <1>2
<1> QED BY <1>1, <1>5, <1>6
LEMMA OnWabaKey ==
    ASSUME NEW w \in Wabas, NEW range \in Ranges, NEW k, k = OnWaba(w, range)
    PROVE  k \in Keys /\ k.waba = w /\ k.range = range
BY DEF OnWaba, Keys

LEMMA BeginRequestOk ==
    ASSUME TrafficInv, NEW entry \in Entries, NEW range \in Ranges, NEW w,
           w = IF migrated = Never THEN "old" ELSE "new",
           NEW r, r = NewAsk(entry, w, range, Resolved(entry, w, range), Truth(entry, w, range))
    PROVE  AskOk(r) /\ r.step = "fetch" /\ r.entry = entry /\ r.range = range
<1>1. w \in Wabas /\ (w = "old" \/ w = "new") /\ "old" \in Wabas /\ "new" \in Wabas
  BY DEF Wabas
<1>2. PICK todo, t, m, n : /\ todo = Resolved(entry, w, range) /\ t = Truth(entry, w, range)
                           /\ m = Volume("old", range) /\ n = Volume("new", range)
  OBVIOUS
<1>3. m \in Nat /\ n \in Nat /\ t \in Nat
  BY <1>1, <1>2, TruthParts
<1>4. PICK i, j : i = OnWaba("old", range) /\ j = OnWaba(w, range)
  OBVIOUS
<1>5. /\ i \in Keys /\ i.waba = "old" /\ i.range = range /\ Sends(i) = m
      /\ j \in Keys /\ j.waba = w /\ j.range = range /\ Sends(j) = Volume(w, range)
  BY <1>1, <1>2, <1>4, OnWabaKey DEF Sends
<1>6. PICK k : k = OnWaba("new", Since(range))
  OBVIOUS
<1>7. ASSUME migrated # Never, ~(range.end < migrated)
      PROVE  /\ k \in Keys /\ k.waba = "new" /\ Sends(k) = n
             /\ DaysOf(k.range) \subseteq DaysOf(range)
  <2>1. Since(range) \in Ranges /\ DaysOf(Since(range)) \subseteq DaysOf(range) /\ Volume("new", Since(range)) = n
    BY <1>2, <1>7, SinceMigration
  <2>2. k \in Keys /\ k.waba = "new" /\ k.range = Since(range)
    BY <1>1, <1>6, <2>1, OnWabaKey
  <2> QED BY <2>1, <2>2 DEF Sends
<1>8. \/ todo = <<j>> /\ t <= Sends(j)
      \/ todo = <<>> /\ t = 0
      \/ todo = <<i>> /\ w = "new" /\ entry # "client" /\ t <= m
      \/ todo = <<k>> /\ w = "new" /\ ~(range.end < migrated) /\ migrated # Never /\ t <= n
      \/ /\ todo = <<i, k>> /\ w = "new" /\ entry # "client"
         /\ ~(range.end < migrated) /\ migrated # Never /\ t = m + n
  BY <1>2, <1>4, <1>5, <1>6, ResolvedParts
<1>9. todo \in Seq(Keys)
  <2>1. \A x, y \in Keys : <<x>> \in Seq(Keys) /\ <<x, y>> \in Seq(Keys)
    OBVIOUS
  <2>2. <<>> \in Seq(Keys)
    OBVIOUS
  <2> QED BY <1>5, <1>7, <1>8, <2>1, <2>2
<1>10. /\ r \in AskRecords /\ r.step = "fetch" /\ r.entry = entry /\ r.waba = w /\ r.range = range
       /\ r.todo = todo /\ r.got = <<>> /\ r.floor = t
  <2>1. r = NewAsk(entry, w, range, todo, t)
    BY <1>2
  <2> QED BY <1>1, <1>3, <1>9, <2>1, NewRequest
<1>11. Fetching(r)
  <2>1. CASE todo = <<j>> /\ t <= Sends(j)
    <3>1. Fits(j, r)
      BY <1>1, <1>5, <1>10 DEF Fits
    <3>2. ToFetchOne(r, j)
      BY <1>10, <2>1, <3>1 DEF ToFetchOne, Enough
    <3> QED BY <1>5, <3>2 DEF Fetching
  <2>2. CASE todo = <<>> /\ t = 0
    <3>1. ToFetch(r)
      BY <1>10, <2>2 DEF ToFetch, Enough
    <3> QED BY <3>1 DEF Fetching
  <2>3. CASE todo = <<i>> /\ w = "new" /\ entry # "client" /\ t <= m
    <3>1. Fits(i, r)
      BY <1>5, <1>10, <2>3 DEF Fits
    <3>2. ToFetchOne(r, i)
      BY <1>5, <1>10, <2>3, <3>1 DEF ToFetchOne, Enough
    <3> QED BY <1>5, <3>2 DEF Fetching
  <2>4. CASE todo = <<k>> /\ w = "new" /\ ~(range.end < migrated) /\ migrated # Never /\ t <= n
    <3>0. k \in Keys /\ k.waba = "new" /\ Sends(k) = n /\ DaysOf(k.range) \subseteq DaysOf(range)
      BY <1>7, <2>4
    <3>1. Fits(k, r)
      BY <1>10, <2>4, <3>0 DEF Fits
    <3>2. ToFetchOne(r, k)
      BY <1>10, <2>4, <3>0, <3>1 DEF ToFetchOne, Enough
    <3> QED BY <3>0, <3>2 DEF Fetching
  <2>5. CASE /\ todo = <<i, k>> /\ w = "new" /\ entry # "client"
             /\ ~(range.end < migrated) /\ migrated # Never /\ t = m + n
    <3>0. k \in Keys /\ k.waba = "new" /\ Sends(k) = n /\ DaysOf(k.range) \subseteq DaysOf(range)
      BY <1>7, <2>5
    <3>1. Fits(i, r) /\ Fits(k, r) /\ Parted(r)
      BY <1>5, <1>10, <2>5, <3>0 DEF Fits, Parted
    <3>2. Enough(r, Sends(i) + Sends(k))
      <4>1. Sends(i) + Sends(k) = t
        BY <1>5, <2>5, <3>0
      <4> QED BY <1>3, <1>10, <4>1 DEF Enough
    <3>3. ToFetchTwo(r, i, k)
      BY <1>5, <1>10, <2>5, <3>0, <3>1, <3>2 DEF ToFetchTwo
    <3> QED BY <1>5, <3>0, <3>3 DEF Fetching
  <2> QED BY <1>8, <2>1, <2>2, <2>3, <2>4, <2>5
<1> QED BY <1>10, <1>11 DEF AskOk

\* What a request has got stays right while traffic grows.
LEMMA AskGrows ==
    ASSUME TrafficInv, TrafficInv', SentGrows, NEW r, AskOk(r)
    PROVE  AskOk(r)'
<1>1. r \in AskRecords /\ r.range \in Ranges /\ r.waba \in Wabas /\ r.floor \in Nat
  BY DEF AskOk, AskRecords
<1>2. "old" \in Wabas /\ "new" \in Wabas
  BY DEF Wabas
<1>3. PICK m, n, t : m = Volume("old", r.range) /\ n = Volume("new", r.range) /\ t = Asks(r)
  OBVIOUS
<1>4. PICK m1, n1, t1 : m1 = Volume("old", r.range)' /\ n1 = Volume("new", r.range)' /\ t1 = Asks(r)'
  OBVIOUS
<1>5. m \in Nat /\ n \in Nat /\ m1 \in Nat /\ n1 \in Nat /\ m <= m1 /\ n <= n1
  <2>1. m <= m1 /\ n <= n1
    BY <1>1, <1>2, <1>3, <1>4, VolumeGrows
  <2>2. m \in Nat /\ n \in Nat
    BY <1>1, <1>2, <1>3, VolumeType
  <2>3. m1 \in Nat /\ n1 \in Nat
    BY <1>1, <1>2, <1>4, VolumeTypeNext
  <2> QED BY <2>1, <2>2, <2>3
<1>6. /\ t = (IF r.entry = "client" /\ r.waba = "new" THEN 0 ELSE m) + (IF r.waba = "new" THEN n ELSE 0)
      /\ t1 = (IF r.entry = "client" /\ r.waba = "new" THEN 0 ELSE m1) + (IF r.waba = "new" THEN n1 ELSE 0)
  BY <1>3, <1>4 DEF Asks, Truth
<1>7. t \in Nat /\ t1 \in Nat /\ t <= t1
  BY <1>5, <1>6
<1>8. ASSUME NEW k \in Keys PROVE Sends(k) \in Nat /\ Sends(k)' \in Nat /\ Sends(k) <= Sends(k)'
  <2>1. k.waba \in Wabas /\ k.range \in Ranges
    BY KeyFields
  <2> QED BY <2>1, VolumeType, VolumeTypeNext, VolumeGrows DEF Sends
<1>9. ASSUME Fetching(r) PROVE Fetching(r)'
  <2>1. ASSUME NEW k \in Keys, ToFetchOne(r, k) PROVE ToFetchOne(r, k)'
    BY <1>1, <1>8, <2>1 DEF ToFetchOne, Enough, Fits
  <2>2. ASSUME NEW j \in Keys, NEW k \in Keys, ToFetchTwo(r, j, k) PROVE ToFetchTwo(r, j, k)'
    <3>1. PICK s, u, s1, u1 : s = Sends(j) /\ u = Sends(k) /\ s1 = Sends(j)' /\ u1 = Sends(k)'
      OBVIOUS
    <3>2. s \in Nat /\ u \in Nat /\ s1 \in Nat /\ u1 \in Nat /\ s + u <= s1 + u1
      BY <1>8, <3>1
    <3>3. Enough(r, s + u)
      BY <2>2, <3>1 DEF ToFetchTwo
    <3>4. Enough(r, s1 + u1)
      BY <1>1, <3>2, <3>3 DEF Enough
    <3>5. (r.todo = <<j, k>> /\ r.got = <<>> /\ Parted(r) /\ Fits(j, r) /\ Fits(k, r) /\ j.waba = "old" /\ k.waba = "new")'
      BY <2>2 DEF ToFetchTwo, Parted, Fits
    <3>6. Enough(r, Sends(j) + Sends(k))'
      BY <3>1, <3>4 DEF Enough
    <3> QED BY <3>5, <3>6 DEF ToFetchTwo
  <2>3. ASSUME NEW x \in Replies, NEW k \in Keys, HalfFetched(r, x, k) PROVE HalfFetched(r, x, k)'
    <3>1. PICK u, u1 : u = Sends(k) /\ u1 = Sends(k)'
      OBVIOUS
    <3>2. x.total \in Nat /\ u \in Nat /\ u1 \in Nat /\ x.total + u <= x.total + u1
      BY <1>8, <3>1 DEF Replies
    <3>3. Enough(r, x.total + u) /\ x.total <= m
      BY <1>3, <2>3, <3>1 DEF HalfFetched
    <3>4. Enough(r, x.total + u1) /\ x.total <= m1
      BY <1>1, <1>5, <3>2, <3>3 DEF Enough
    <3>5. (r.todo = <<k>> /\ r.got = <<x>> /\ Parted(r) /\ Fits(k, r) /\ Reply(x, r.range) /\ k.waba = "new")'
      BY <2>3 DEF HalfFetched, Parted, Fits
    <3>6. (x.total <= Volume("old", r.range) /\ Enough(r, x.total + Sends(k)))'
      BY <1>4, <3>1, <3>4 DEF Enough
    <3> QED BY <3>5, <3>6 DEF HalfFetched
  <2>4. ASSUME NEW x \in Replies, FetchedOne(r, x) PROVE FetchedOne(r, x)'
    <3>1. x.total \in Nat /\ x.total <= t
      BY <1>3, <2>4 DEF FetchedOne, Replies
    <3>2. x.total <= t1
      BY <1>7, <3>1
    <3> QED BY <1>4, <2>4, <3>2 DEF FetchedOne, Enough
  <2>5. ASSUME NEW x \in Replies, NEW y \in Replies, FetchedTwo(r, x, y) PROVE FetchedTwo(r, x, y)'
    <3>1. x.total + y.total \in Nat /\ x.total + y.total <= t
      BY <1>3, <2>5 DEF FetchedTwo, Replies
    <3>2. x.total + y.total <= t1
      BY <1>7, <3>1
    <3> QED BY <1>4, <2>5, <3>2 DEF FetchedTwo, Enough
  <2>6. ToFetch(r) => ToFetch(r)'
    BY DEF ToFetch, Enough
  <2> QED BY <1>9, <2>1, <2>2, <2>3, <2>4, <2>5, <2>6 DEF Fetching
<1>10. ASSUME Answered(r) PROVE Answered(r)'
  <2>1. r.answer.total \in Nat /\ r.answer.total <= t
    BY <1>1, <1>3, <1>10 DEF Answered, AskRecords, Replies
  <2>2. r.answer.total <= t1
    BY <1>7, <2>1
  <2> QED BY <1>4, <1>10, <2>2 DEF Answered
<1> QED BY <1>1, <1>9, <1>10 DEF AskOk

LEMMA AskStays ==
    ASSUME UNCHANGED sent, NEW r, AskOk(r)
    PROVE  AskOk(r)'
BY DEF AskOk, Fetching, ToFetch, ToFetchOne, ToFetchTwo, HalfFetched, FetchedOne, FetchedTwo,
       Fits, Parted, Enough, Answered, Asks, Sends, Truth, Volume

LEMMA AskChanges ==
    ASSUME MetaInv, UNCHANGED <<today, migrated, cloned, sent, cache>>, NEW a \in Requests,
           NEW r, AskOk(r), ask' = [ask EXCEPT ![a] = r]
    PROVE  MetaInv' /\ ask'[a] = r /\ \A b \in Requests \ {a} : ask'[b] = ask[b]
<1>1. /\ ask' = [b \in Requests |-> ask'[b]] /\ ask'[a] = r
      /\ \A b \in Requests \ {a} : ask'[b] = ask[b]
  BY DEF MetaInv
<1>2. TrafficInv' /\ CacheInv'
  <2>1. TrafficInv /\ CacheInv
    BY DEF MetaInv
  <2> QED BY <2>1 DEF TrafficInv, CacheInv, CachedOk, Sends, Volume
<1>3. ASSUME NEW b \in Requests PROVE AskOk(ask[b])'
  <2>1. PICK x : x = ask'[b]
    OBVIOUS
  <2>2. AskOk(x)
    BY <1>1, <2>1 DEF MetaInv
  <2>3. AskOk(x)'
    BY <2>2, AskStays
  <2> QED BY <2>1, <2>3
<1> QED BY <1>1, <1>2, <1>3 DEF MetaInv

LEMMA BeginOk ==
    ASSUME MetaInv, NEW a \in Requests, NEW entry \in Entries, NEW range \in Ranges, Begin(a, entry, range)
    PROVE  MetaInv' /\ (ask'[a].step = "failed" \/ (ask'[a].step = "fetch" /\ ask'[a].range = range /\ ask'[a].entry = entry))
<1>1. UNCHANGED <<today, migrated, cloned, sent, cache>>
  BY DEF Begin
<1>2. PICK w : w = IF migrated = Never THEN "old" ELSE "new"
  OBVIOUS
<1>3. PICK r : r = IF entry = "internal" /\ w = "new" THEN [NoAsk EXCEPT !.step = "failed"]
                   ELSE NewAsk(entry, w, range, Resolved(entry, w, range), Truth(entry, w, range))
  OBVIOUS
<1>4. ask' = [ask EXCEPT ![a] = r]
  BY <1>2, <1>3 DEF Begin, NewAsk
<1>5. AskOk(r) /\ (r.step = "failed" \/ (r.step = "fetch" /\ r.range = range /\ r.entry = entry))
  <2>1. CASE entry = "internal" /\ w = "new"
    <3>1. r = [NoAsk EXCEPT !.step = "failed"]
      BY <1>3, <2>1
    <3>2. r.step = "failed"
      BY <3>1 DEF NoAsk
    <3>3. \A step \in {"idle", "failed"} : AskOk([NoAsk EXCEPT !.step = step])
      BY NoAskOk
    <3>4. AskOk(r)
      BY <3>1, <3>3
    <3> QED BY <3>2, <3>4
  <2>2. CASE ~(entry = "internal" /\ w = "new")
    <3>1. r = NewAsk(entry, w, range, Resolved(entry, w, range), Truth(entry, w, range))
      BY <1>3, <2>2
    <3> QED BY <1>2, <3>1, BeginRequestOk DEF MetaInv
  <2> QED BY <2>1, <2>2
<1> QED BY <1>1, <1>4, <1>5, AskChanges
\* The part of a request that does not change while its answer is made.
SameRequest(q, r) ==
    q.entry = r.entry /\ q.waba = r.waba /\ q.range = r.range /\ q.floor = r.floor

LEMMA RequestFields ==
    ASSUME NEW r \in AskRecords
    PROVE  /\ r.entry \in Entries /\ r.waba \in Wabas /\ r.range \in Ranges /\ r.floor \in Nat
           /\ r.todo \in Seq(Keys) /\ r.got \in Seq(Replies) /\ r.answer \in Replies
BY DEF AskRecords

LEMMA SameFits ==
    ASSUME NEW q, NEW r, SameRequest(q, r)
    PROVE  /\ \A k : Fits(k, r) => Fits(k, q)
           /\ Parted(r) => Parted(q)
           /\ Asks(q) = Asks(r)
BY DEF SameRequest, Fits, Parted, Asks

LEMMA ReceiveOk ==
    ASSUME TrafficInv, NEW r, AskOk(r), r.step = "fetch", r.todo # <<>>, NEW x,
           Reply(x, Head(r.todo).range), x.total = Sends(Head(r.todo)),
           NEW q, q = [r EXCEPT !.got = Append(@, x), !.todo = Tail(@)]
    PROVE  AskOk(q) /\ q.step = r.step /\ q.range = r.range /\ q.entry = r.entry
<1>1. r \in AskRecords /\ Fetching(r)
  BY DEF AskOk
<1>2. r.todo \in Seq(Keys) /\ r.got \in Seq(Replies) /\ x \in Replies /\ x.total \in Nat
  BY <1>1, RequestFields, ReplyNumbers
<1>3. PICK todo, got : todo = Tail(r.todo) /\ got = Append(r.got, x)
  OBVIOUS
<1>4. todo \in Seq(Keys) /\ got \in Seq(Replies)
  BY <1>2, <1>3
<1>5. q = [r EXCEPT !.got = got, !.todo = todo]
  BY <1>3
<1>6. /\ q \in AskRecords /\ q.todo = todo /\ q.got = got /\ q.step = r.step /\ q.skipped = r.skipped
      /\ SameRequest(q, r)
  BY <1>1, <1>4, <1>5 DEF AskRecords, SameRequest
<1>7. /\ Asks(q) = Asks(r) /\ q.range = r.range /\ q.entry = r.entry /\ r.range \in Ranges /\ r.waba \in Wabas
      /\ \A n : Enough(r, n) => Enough(q, n)
  BY <1>1, <1>6, SameFits, RequestFields DEF SameRequest, Enough
<1>8. ASSUME NEW k \in Keys, ToFetchOne(r, k) PROVE Fetching(q)
  <2>1. Head(r.todo) = k /\ todo = <<>> /\ got = <<x>>
    BY <1>3, <1>8, OneAndTwo DEF ToFetchOne
  <2>2. Fits(k, r) /\ Enough(r, x.total) /\ Reply(x, k.range) /\ x.total = Sends(k)
    BY <1>8, <2>1 DEF ToFetchOne
  <2>3. Reply(x, r.range)
    BY <2>2, ReplyWider DEF Fits
  <2>4. x.total <= Asks(r)
    BY <1>1, <2>2, FitsAsks
  <2>5. FetchedOne(q, x)
    BY <1>6, <1>7, <2>1, <2>2, <2>3, <2>4 DEF FetchedOne
  <2> QED BY <1>2, <2>5 DEF Fetching
<1>9. ASSUME NEW j \in Keys, NEW k \in Keys, ToFetchTwo(r, j, k) PROVE Fetching(q)
  <2>1. Head(r.todo) = j /\ todo = <<k>> /\ got = <<x>>
    BY <1>3, <1>9, OneAndTwo DEF ToFetchTwo
  <2>2. /\ Fits(j, r) /\ Fits(k, r) /\ Enough(r, x.total + Sends(k)) /\ Reply(x, j.range) /\ x.total = Sends(j)
        /\ Parted(r) /\ j.waba = "old" /\ k.waba = "new"
    BY <1>9, <2>1 DEF ToFetchTwo
  <2>3. Reply(x, r.range)
    BY <2>2, ReplyWider DEF Fits
  <2>4. x.total <= Volume("old", r.range)
    BY <1>1, <2>2, FitsAsks
  <2>5. Fits(k, q) /\ Parted(q)
    BY <1>6, <2>2, SameFits
  <2>6. HalfFetched(q, x, k)
    BY <1>6, <1>7, <2>1, <2>2, <2>3, <2>4, <2>5 DEF HalfFetched
  <2> QED BY <1>2, <2>6 DEF Fetching
<1>10. ASSUME NEW y \in Replies, NEW k \in Keys, HalfFetched(r, y, k) PROVE Fetching(q)
  <2>0. r.todo = <<k>> /\ r.got = <<y>>
    BY <1>10 DEF HalfFetched
  <2>1. Head(r.todo) = k /\ todo = <<>> /\ got = <<y, x>>
    BY <1>3, <2>0, OneAndTwo
  <2>2. /\ Fits(k, r) /\ Enough(r, y.total + x.total) /\ Reply(x, k.range) /\ x.total = Sends(k)
        /\ Reply(y, r.range) /\ y.total <= Volume("old", r.range) /\ Parted(r) /\ k.waba = "new"
    BY <1>10, <2>1 DEF HalfFetched
  <2>3. Reply(x, r.range)
    BY <2>2, ReplyWider DEF Fits
  <2>4. PICK m, n, t : m = Volume("old", r.range) /\ n = Volume("new", r.range) /\ t = Asks(r)
    OBVIOUS
  <2>5. m \in Nat /\ n \in Nat /\ t = m + n
    BY <1>7, <2>2, <2>4, TruthParts DEF Parted, Asks
  <2>6. x.total <= n /\ y.total <= m /\ y.total \in Nat
    BY <1>1, <2>2, <2>4, FitsAsks, ReplyNumbers
  <2>7. y.total + x.total <= t
    BY <1>2, <2>5, <2>6
  <2>8. FetchedTwo(q, y, x)
    BY <1>6, <1>7, <2>1, <2>2, <2>3, <2>4, <2>7 DEF FetchedTwo
  <2> QED BY <1>2, <2>8 DEF Fetching
<1>11. Fetching(q)
  BY <1>1, <1>8, <1>9, <1>10 DEF Fetching, ToFetch, FetchedOne, FetchedTwo
<1> QED BY <1>6, <1>7, <1>11 DEF AskOk

\* Only the old WABA of several is skipped.
LEMMA SkipOk ==
    ASSUME TrafficInv, NEW r, AskOk(r), r.step = "fetch", r.todo # <<>>, r.entry = "multi",
           Head(r.todo).waba # r.waba,
           NEW q, q = [r EXCEPT !.todo = Tail(@), !.skipped = TRUE]
    PROVE  AskOk(q) /\ q.step = r.step /\ q.range = r.range /\ q.entry = r.entry
<1>1. r \in AskRecords /\ Fetching(r)
  BY DEF AskOk
<1>2. r.todo \in Seq(Keys)
  BY <1>1, RequestFields
<1>3. PICK todo : todo = Tail(r.todo)
  OBVIOUS
<1>4. todo \in Seq(Keys)
  BY <1>2, <1>3
<1>5. q = [r EXCEPT !.todo = todo, !.skipped = TRUE]
  BY <1>3
<1>6. /\ q \in AskRecords /\ q.todo = todo /\ q.got = r.got /\ q.step = r.step /\ q.skipped
      /\ SameRequest(q, r)
  BY <1>1, <1>4, <1>5 DEF AskRecords, SameRequest
<1>7. /\ Asks(q) = Asks(r) /\ q.range = r.range /\ q.entry = r.entry /\ r.waba \in Wabas
      /\ \A n : Enough(q, n)
  BY <1>1, <1>6, SameFits, RequestFields DEF SameRequest, Enough
<1>8. ASSUME NEW k \in Keys, ToFetchOne(r, k) PROVE Fetching(q)
  <2>1. todo = <<>> /\ r.got = <<>>
    BY <1>3, <1>8, OneAndTwo DEF ToFetchOne
  <2> QED BY <1>6, <1>7, <2>1 DEF Fetching, ToFetch
<1>9. ASSUME NEW j \in Keys, NEW k \in Keys, ToFetchTwo(r, j, k) PROVE Fetching(q)
  <2>1. todo = <<k>> /\ r.got = <<>> /\ Fits(k, r)
    BY <1>3, <1>9, OneAndTwo DEF ToFetchTwo
  <2>2. Fits(k, q)
    BY <1>6, <2>1, SameFits
  <2>3. ToFetchOne(q, k)
    BY <1>6, <1>7, <2>1, <2>2 DEF ToFetchOne
  <2> QED BY <2>3 DEF Fetching
<1>10. ASSUME NEW y \in Replies, NEW k \in Keys, HalfFetched(r, y, k) PROVE FALSE
  <2>1. Head(r.todo) = k /\ k.waba = "new" /\ r.waba = "new"
    BY <1>10, OneAndTwo DEF HalfFetched, Parted
  <2> QED BY <2>1
<1>11. Fetching(q)
  BY <1>1, <1>8, <1>9, <1>10 DEF Fetching, ToFetch, FetchedOne, FetchedTwo
<1> QED BY <1>6, <1>7, <1>11 DEF AskOk
\* The answers of a request put together, before several WABAs are added up.
Merged(r) ==
    IF Len(r.got) = 1 THEN r.got[1] ELSE IF r.got = <<>> THEN Nothing ELSE Merge(r.got[1], r.got[2])

LEMMA MergedOk ==
    ASSUME TrafficInv, NEW r \in AskRecords, Fetching(r), r.todo = <<>>, NEW z, z = Merged(r)
    PROVE  Reply(z, r.range) /\ z.total <= Asks(r) /\ Enough(r, z.total)
<1>1. r.range \in Ranges /\ r.waba \in Wabas
  BY RequestFields
<1>2. Asks(r) \in Nat
  BY <1>1, TruthParts DEF Asks
<1>3. CASE ToFetch(r)
  <2>1. r.got = <<>>
    BY <1>3 DEF ToFetch
  <2>2. z = Nothing
    BY <2>1 DEF Merged
  <2>3. z.total = 0
    BY <2>2 DEF Nothing
  <2>4. Reply(z, r.range)
    BY <1>1, <2>2, NothingIsReply
  <2>5. Enough(r, z.total)
    BY <1>3, <2>3 DEF ToFetch
  <2> QED BY <1>2, <2>3, <2>4, <2>5
<1>4. ASSUME NEW x \in Replies, FetchedOne(r, x) PROVE Reply(z, r.range) /\ z.total <= Asks(r) /\ Enough(r, z.total)
  <2>1. r.got = <<x>>
    BY <1>4 DEF FetchedOne
  <2>2. Len(<<x>>) = 1 /\ <<x>>[1] = x
    OBVIOUS
  <2>3. z = x
    BY <2>1, <2>2 DEF Merged
  <2> QED BY <1>4, <2>3 DEF FetchedOne
<1>5. ASSUME NEW x \in Replies, NEW y \in Replies, FetchedTwo(r, x, y)
      PROVE Reply(z, r.range) /\ z.total <= Asks(r) /\ Enough(r, z.total)
  <2>1. r.got = <<x, y>> /\ Reply(x, r.range) /\ Reply(y, r.range)
    BY <1>5 DEF FetchedTwo
  <2>2. Len(<<x, y>>) = 2 /\ <<x, y>>[1] = x /\ <<x, y>>[2] = y /\ <<x, y>> # <<>>
    OBVIOUS
  <2>3. z = Merge(x, y)
    BY <2>1, <2>2 DEF Merged
  <2>4. Reply(z, r.range) /\ z.total = x.total + y.total
    BY <2>1, <2>3, MergeIsReply
  <2> QED BY <1>5, <2>4 DEF FetchedTwo
<1>6. \/ ToFetch(r) \/ (\E x \in Replies : FetchedOne(r, x)) \/ (\E x, y \in Replies : FetchedTwo(r, x, y))
  <2>1. ASSUME NEW k \in Keys, ToFetchOne(r, k) PROVE FALSE
    BY <2>1, OneAndTwo DEF ToFetchOne
  <2>2. ASSUME NEW j \in Keys, NEW k \in Keys, ToFetchTwo(r, j, k) PROVE FALSE
    <3>1. r.todo = <<j, k>>
      BY <2>2 DEF ToFetchTwo
    <3>2. Len(r.todo) = 2
      BY <3>1
    <3>3. Len(r.todo) = 0
      OBVIOUS
    <3> QED BY <3>2, <3>3
  <2>3. ASSUME NEW x \in Replies, NEW k \in Keys, HalfFetched(r, x, k) PROVE FALSE
    <3>1. r.todo = <<k>>
      BY <2>3 DEF HalfFetched
    <3>2. Len(r.todo) = 1
      BY <3>1
    <3>3. Len(r.todo) = 0
      OBVIOUS
    <3> QED BY <3>2, <3>3
  <2> QED BY <2>1, <2>2, <2>3 DEF Fetching
<1> QED BY <1>3, <1>4, <1>5, <1>6

LEMMA AnswerOk ==
    ASSUME TrafficInv, NEW r, AskOk(r), r.step = "fetch", r.todo = <<>>,
           NEW q, q = [r EXCEPT !.answer = Consolidated(r), !.step = "done", !.got = <<>>]
    PROVE  AskOk(q) /\ q.step = "done" /\ q.range = r.range /\ q.entry = r.entry
<1>1. r \in AskRecords /\ Fetching(r) /\ r.floor \in Nat
  BY RequestFields DEF AskOk
<1>2. PICK z, x, e : z = Merged(r) /\ x = Consolidated(r) /\ e = <<>>
  OBVIOUS
<1>3. Reply(z, r.range) /\ z.total <= Asks(r) /\ Enough(r, z.total)
  BY <1>1, <1>2, MergedOk
<1>4. /\ z \in Replies /\ z.total \in Nat /\ Total(z.points) \in Nat /\ z.points \in Points
      /\ z.bare \in BOOLEAN
  BY <1>3, ReplyNumbers DEF Replies
<1>5. x = IF r.entry = "multi" THEN [z EXCEPT !.total = Total(z.points)] ELSE z
  BY <1>2 DEF Consolidated, Merged
<1>6. PICK t : t = Total(z.points)
  OBVIOUS
<1>7. t \in Nat /\ t <= z.total /\ (t = z.total \/ z.bare) /\ DOMAIN z.points \subseteq DaysOf(r.range)
  BY <1>3, <1>4, <1>6 DEF Reply
<1>8. Asks(r) \in Nat
  BY <1>1, RequestFields, TruthParts DEF Asks
<1>9. /\ Reply(x, r.range) /\ x.total <= Asks(r)
      /\ r.floor <= x.total \/ (r.entry = "multi" /\ (r.skipped \/ x.bare))
  <2>1. CASE r.entry = "multi"
    <3>1. x = [z EXCEPT !.total = t]
      BY <1>5, <1>6, <2>1
    <3>2. x \in Replies /\ x.total = t /\ x.points = z.points /\ x.bare = z.bare
      BY <1>4, <1>7, <3>1 DEF Replies
    <3>3. Reply(x, r.range)
      BY <1>6, <1>7, <3>2 DEF Reply
    <3>4. x.total <= Asks(r)
      BY <1>3, <1>4, <1>7, <1>8, <3>2
    <3>5. r.floor <= x.total \/ r.skipped \/ x.bare
      BY <1>3, <1>7, <3>2 DEF Enough
    <3> QED BY <2>1, <3>3, <3>4, <3>5
  <2>2. CASE r.entry # "multi"
    <3>1. x = z
      BY <1>5, <2>2
    <3> QED BY <1>3, <2>2, <3>1 DEF Enough
  <2> QED BY <2>1, <2>2
<1>10. x \in Replies
  BY <1>9, ReplyNumbers
<1>11. e \in Seq(Replies)
  BY <1>2
<1>12. q = [r EXCEPT !.answer = x, !.step = "done", !.got = e]
  BY <1>2
<1>13. /\ q \in AskRecords /\ q.step = "done" /\ q.answer = x /\ q.skipped = r.skipped /\ SameRequest(q, r)
  BY <1>1, <1>10, <1>11, <1>12 DEF AskRecords, SameRequest
<1>14. q.range = r.range /\ q.entry = r.entry /\ q.floor = r.floor /\ Asks(q) = Asks(r)
  BY <1>13, SameFits DEF SameRequest
<1> QED BY <1>9, <1>13, <1>14 DEF AskOk, Answered
-----------------------------------------------------------------------------
(* Every step of the requests, of time and of traffic.                     *)

LEMMA MetaTypes ==
    ASSUME TrafficInv
    PROVE  today \in Days /\ today \in Int /\ migrated \in Int /\ Days \subseteq Int
BY BoundsAssumption DEF TrafficInv, Never, Days

LEMMA KeptTail == ASSUME NEW r, AskOk(r), r.step = "fetch", r.todo # <<>> PROVE Head(r.todo) \in Keys
BY RequestFields DEF AskOk

\* What redis gains is whole.
LEMMA CacheChanges ==
    ASSUME TrafficInv, CacheInv, UNCHANGED <<today, migrated, cloned, sent>>,
           \A key \in DOMAIN cache' : CachedOk(key, cache'[key])
    PROVE  TrafficInv' /\ CacheInv'
<1>1. TrafficInv'
  BY DEF TrafficInv
<1>2. ASSUME NEW key \in DOMAIN cache' PROVE CachedOk(key, cache[key])'
  BY DEF CachedOk, Sends, Volume
<1> QED BY <1>1, <1>2 DEF CacheInv

LEMMA RequestChanges ==
    ASSUME MetaInv, UNCHANGED <<today, migrated, cloned, sent>>,
           \A key \in DOMAIN cache' : CachedOk(key, cache'[key]),
           NEW a \in Requests, NEW r, AskOk(r), ask' = [ask EXCEPT ![a] = r]
    PROVE  MetaInv' /\ ask'[a] = r /\ \A b \in Requests \ {a} : ask'[b] = ask[b]
<1>1. /\ ask' = [b \in Requests |-> ask'[b]] /\ ask'[a] = r
      /\ \A b \in Requests \ {a} : ask'[b] = ask[b]
  BY DEF MetaInv
<1>2. TrafficInv' /\ CacheInv'
  BY CacheChanges DEF MetaInv
<1>3. ASSUME NEW b \in Requests PROVE AskOk(ask[b])'
  <2>1. PICK x : x = ask'[b]
    OBVIOUS
  <2>2. AskOk(x)
    BY <1>1, <2>1 DEF MetaInv
  <2>3. AskOk(x)'
    BY <2>2, AskStays
  <2> QED BY <2>1, <2>3
<1> QED BY <1>1, <1>2, <1>3 DEF MetaInv

\* A step of a request leaves its range and entry, unless it fails.
Goes(a) == ask'[a].step = "failed" \/ (ask'[a].range = ask[a].range /\ ask'[a].entry = ask[a].entry)

LEMMA FetchInv ==
    ASSUME MetaInv, NEW a \in Requests, Fetch(a)
    PROVE  MetaInv' /\ ask'[a].step = "fetch" /\ Goes(a) /\ \A b \in Requests \ {a} : ask'[b] = ask[b]
<1>1. PICK r : r = ask[a]
  OBVIOUS
<1>2. AskOk(r) /\ r.step = "fetch" /\ r.todo # <<>>
  BY <1>1 DEF MetaInv, Fetch
<1>3. PICK key, fresh : key = Head(r.todo) /\ fresh = Response(key, r.entry # "internal")
  OBVIOUS
<1>4. key \in Keys /\ TrafficInv /\ CacheInv
  BY <1>2, <1>3, KeptTail DEF MetaInv
<1>5. Reply(fresh, key.range) /\ fresh.total = Sends(key)
  <2>1. PICK include \in BOOLEAN : include = (r.entry # "internal")
    OBVIOUS
  <2>2. fresh = Response(key, include)
    BY <1>3, <2>1
  <2> QED BY <1>4, <2>2, ResponseIsReply DEF Sends
<1>6. PICK x : /\ ask' = [ask EXCEPT ![a].got = Append(@, x), ![a].todo = Tail(@)]
               /\ \/ key \in DOMAIN cache /\ x = cache[key] /\ cache' = cache
                  \/ /\ key \notin DOMAIN cache /\ x = fresh
                     /\ cache' = IF Kept(key) /\ Cardinality(DOMAIN cache) < MaxCached
                                 THEN [k \in DOMAIN cache \cup {key} |-> IF k = key THEN fresh ELSE cache[k]]
                                 ELSE cache
  BY <1>1, <1>3 DEF Fetch, Receive
<1>7. Reply(x, key.range) /\ x.total = Sends(key)
  BY <1>5, <1>6, <1>4 DEF CacheInv, CachedOk
<1>8. \A k \in DOMAIN cache' : CachedOk(k, cache'[k])
  <2>1. CASE cache' = cache
    BY <1>4, <2>1 DEF CacheInv
  <2>2. CASE /\ Kept(key)
             /\ cache' = [k \in DOMAIN cache \cup {key} |-> IF k = key THEN fresh ELSE cache[k]]
    <3>1. CachedOk(key, fresh)
      BY <1>4, <1>5, <2>2 DEF Kept, CachedOk
    <3> QED BY <1>4, <2>2, <3>1 DEF CacheInv
  <2> QED BY <1>6, <2>1, <2>2
<1>9. PICK q : q = [r EXCEPT !.got = Append(@, x), !.todo = Tail(@)]
  OBVIOUS
<1>10. AskOk(q) /\ q.step = "fetch" /\ q.range = r.range /\ q.entry = r.entry
  BY <1>2, <1>3, <1>4, <1>7, <1>9, ReceiveOk
<1>11. ask' = [ask EXCEPT ![a] = q]
  BY <1>1, <1>6, <1>9 DEF MetaInv
<1>12. UNCHANGED <<today, migrated, cloned, sent>>
  BY DEF Fetch
<1>13. MetaInv' /\ ask'[a] = q /\ \A b \in Requests \ {a} : ask'[b] = ask[b]
  BY <1>8, <1>10, <1>11, <1>12, RequestChanges
<1> QED BY <1>1, <1>10, <1>13 DEF Goes

\* A failed request is forgotten.
LEMMA FailedOk ==
    ASSUME NEW r, r = [NoAsk EXCEPT !.step = "failed"]
    PROVE  AskOk(r) /\ r.step = "failed"
<1>1. \A step \in {"idle", "failed"} : AskOk([NoAsk EXCEPT !.step = step])
  BY NoAskOk
<1>2. r.step = "failed"
  BY DEF NoAsk
<1> QED BY <1>1, <1>2

LEMMA CacheKept ==
    ASSUME MetaInv, UNCHANGED cache
    PROVE  \A key \in DOMAIN cache' : CachedOk(key, cache'[key])
BY DEF MetaInv, CacheInv

\* The old WABA is skipped, or the request fails.
LEMMA FailsInv ==
    ASSUME MetaInv, NEW a \in Requests, LookupFails(a) \/ FetchFails(a)
    PROVE  /\ MetaInv' /\ ask'[a].step \in {"fetch", "failed"} /\ Goes(a)
           /\ \A b \in Requests \ {a} : ask'[b] = ask[b]
<1>1. PICK r : r = ask[a]
  OBVIOUS
<1>2. AskOk(r) /\ r.step = "fetch" /\ r.todo # <<>> /\ TrafficInv
  BY <1>1 DEF MetaInv, LookupFails, FetchFails
<1>3. UNCHANGED <<today, migrated, cloned, sent, cache>>
  BY DEF LookupFails, FetchFails
<1>4. PICK q : q = IF r.entry = "multi" /\ Head(r.todo).waba # r.waba
                   THEN [r EXCEPT !.todo = Tail(@), !.skipped = TRUE]
                   ELSE [NoAsk EXCEPT !.step = "failed"]
  OBVIOUS
<1>5. AskOk(q) /\ (q.step = "failed" \/ (q.step = "fetch" /\ q.range = r.range /\ q.entry = r.entry))
  <2>1. CASE r.entry = "multi" /\ Head(r.todo).waba # r.waba
    <3>1. q = [r EXCEPT !.todo = Tail(@), !.skipped = TRUE]
      BY <1>4, <2>1
    <3> QED BY <1>2, <2>1, <3>1, SkipOk
  <2>2. CASE ~(r.entry = "multi" /\ Head(r.todo).waba # r.waba)
    <3>1. q = [NoAsk EXCEPT !.step = "failed"]
      BY <1>4, <2>2
    <3> QED BY <3>1, FailedOk
  <2> QED BY <2>1, <2>2
<1>6. ask' = [ask EXCEPT ![a] = q]
  <2>1. CASE LookupFails(a)
    <3>1. Head(r.todo).waba # r.waba
      BY <1>1, <2>1 DEF LookupFails
    <3>2. ask' = [ask EXCEPT ![a] = IF ask[a].entry = "multi"
                                    THEN [ask[a] EXCEPT !.todo = Tail(@), !.skipped = TRUE]
                                    ELSE [NoAsk EXCEPT !.step = "failed"]]
      BY <2>1 DEF LookupFails
    <3>3. q = IF ask[a].entry = "multi" THEN [ask[a] EXCEPT !.todo = Tail(@), !.skipped = TRUE]
              ELSE [NoAsk EXCEPT !.step = "failed"]
      BY <1>1, <1>4, <3>1
    <3> QED BY <3>2, <3>3, Zenon
  <2>2. CASE FetchFails(a)
    <3>1. ask' = [ask EXCEPT ![a] = IF ask[a].entry = "multi" /\ Head(ask[a].todo).waba # ask[a].waba
                                    THEN [ask[a] EXCEPT !.todo = Tail(@), !.skipped = TRUE]
                                    ELSE [NoAsk EXCEPT !.step = "failed"]]
      BY <2>2 DEF FetchFails
    <3>2. q = IF ask[a].entry = "multi" /\ Head(ask[a].todo).waba # ask[a].waba
              THEN [ask[a] EXCEPT !.todo = Tail(@), !.skipped = TRUE]
              ELSE [NoAsk EXCEPT !.step = "failed"]
      BY <1>1, <1>4
    <3> QED BY <3>1, <3>2, Zenon
  <2> QED BY <2>1, <2>2
<1>7. MetaInv' /\ ask'[a] = q /\ \A b \in Requests \ {a} : ask'[b] = ask[b]
  BY <1>3, <1>5, <1>6, CacheKept, RequestChanges
<1> QED BY <1>1, <1>5, <1>7 DEF Goes

LEMMA AnswerInv ==
    ASSUME MetaInv, NEW a \in Requests, Answer(a)
    PROVE  /\ MetaInv' /\ ask'[a].step = "done" /\ Goes(a)
           /\ \A b \in Requests \ {a} : ask'[b] = ask[b]
<1>1. PICK r : r = ask[a]
  OBVIOUS
<1>2. AskOk(r) /\ r.step = "fetch" /\ r.todo = <<>> /\ TrafficInv
  BY <1>1 DEF MetaInv, Answer
<1>3. UNCHANGED <<today, migrated, cloned, sent, cache>>
  BY DEF Answer
<1>4. PICK q : q = [r EXCEPT !.answer = Consolidated(r), !.step = "done", !.got = <<>>]
  OBVIOUS
<1>5. ask' = [ask EXCEPT ![a] = q]
  BY <1>1, <1>4 DEF Answer, MetaInv
<1>6. AskOk(q) /\ q.step = "done" /\ q.range = r.range /\ q.entry = r.entry
  BY <1>2, <1>4, AnswerOk
<1>7. MetaInv' /\ ask'[a] = q /\ \A b \in Requests \ {a} : ask'[b] = ask[b]
  BY <1>3, <1>5, <1>6, CacheKept, RequestChanges
<1> QED BY <1>1, <1>6, <1>7 DEF Goes
LEMMA AskStepInv ==
    ASSUME MetaInv, NEW a \in Requests, AskStep(a)
    PROVE  /\ MetaInv' /\ ask[a].step = "fetch" /\ ask'[a].step \in {"fetch", "done", "failed"} /\ Goes(a)
           /\ \A b \in Requests \ {a} : ask'[b] = ask[b]
<1>1. ask[a].step = "fetch"
  BY DEF AskStep, LookupFails, FetchFails, Fetch, Answer
<1> QED BY <1>1, FetchInv, FailsInv, AnswerInv DEF AskStep

\* Time and traffic only move the sums on.
LEMMA GrowsInv ==
    ASSUME MetaInv, TrafficInv', SentGrows, today <= today', UNCHANGED <<cache, ask>>
    PROVE  MetaInv'
<1>1. CacheInv'
  <2>1. ASSUME NEW key \in DOMAIN cache PROVE CachedOk(key, cache[key])'
    <3>1. PICK x : x = cache[key]
      OBVIOUS
    <3>2. key \in Keys /\ Reply(x, key.range) /\ x.total = Sends(key) /\ key.range.end < today
      BY <3>1 DEF MetaInv, CacheInv, CachedOk
    <3>3. key.waba \in Wabas /\ key.range \in Ranges
      BY <3>2, KeyFields
    <3>4. Sends(key)' = Sends(key)
      BY <3>2, <3>3, VolumeGrows DEF Sends, MetaInv
    <3>5. key.range.end < today'
      <4>1. key.range.end \in Int /\ today \in Int /\ today' \in Int
        BY <3>3, RangeDays, MetaTypes, BoundsAssumption DEF MetaInv, TrafficInv, Days
      <4> QED BY <3>2, <4>1
    <3> QED BY <3>1, <3>2, <3>4, <3>5 DEF CachedOk
  <2> QED BY <2>1 DEF CacheInv
<1>2. ASSUME NEW a \in Requests PROVE AskOk(ask[a])'
  <2>1. PICK r : r = ask[a]
    OBVIOUS
  <2>2. AskOk(r)
    BY <2>1 DEF MetaInv
  <2>3. AskOk(r)'
    BY <2>2, AskGrows DEF MetaInv
  <2> QED BY <2>1, <2>3
<1> QED BY <1>1, <1>2 DEF MetaInv

LEMMA MetaMovesInv ==
    ASSUME MetaInv, MetaMoves
    PROVE  /\ MetaInv' /\ UNCHANGED <<ask, ordersVars, pageVars>> /\ SentGrows
           /\ TrafficInv'
<1>0. TrafficInv /\ today \in Days /\ today \in Int
  BY MetaTypes DEF MetaInv
<1>1. \A w \in Wabas, d \in Days : sent[w][d] \in Nat
  BY <1>0, SentType
<1>2. CASE NewDay
  <2>1. UNCHANGED <<migrated, cloned, sent, cache, ask>> /\ today' = today + 1 /\ today < MaxDay
    BY <1>2 DEF NewDay
  <2>2. today' \in Days
    BY <1>0, <2>1, BoundsAssumption DEF Days
  <2>3. TrafficInv'
    <3>1. migrated \in {Never} \cup 1..today'
      BY <1>0, <2>1 DEF TrafficInv, Never
    <3> QED BY <1>0, <2>1, <2>2, <3>1 DEF TrafficInv
  <2>4. SentGrows
    BY <1>1, <2>1 DEF SentGrows
  <2>5. today <= today'
    BY <1>0, <2>1
  <2> QED BY <2>1, <2>3, <2>4, <2>5, GrowsInv DEF MetaMoves
<1>3. CASE Migrate
  <2>1. UNCHANGED <<today, cloned, sent, cache, ask>> /\ migrated' = today /\ migrated = Never
    BY <1>3 DEF Migrate
  <2>2. TrafficInv'
    <3>1. migrated' \in 1..today
      BY <1>0, <2>1, BoundsAssumption DEF Days
    <3> QED BY <1>0, <2>1, <3>1 DEF TrafficInv
  <2>3. SentGrows
    BY <1>1, <2>1 DEF SentGrows
  <2>4. today <= today'
    BY <1>0, <2>1
  <2> QED BY <2>1, <2>2, <2>3, <2>4, GrowsInv DEF MetaMoves
<1>4. ASSUME NEW w \in Wabas, Send(w) PROVE MetaInv' /\ UNCHANGED <<ask, ordersVars, pageVars>> /\ SentGrows /\ TrafficInv'
  <2>1. /\ UNCHANGED <<today, migrated, cloned, cache, ask>> /\ sent[w][today] < MaxSent
        /\ sent' = [sent EXCEPT ![w][today] = @ + 1]
        /\ w = "new" => migrated # Never
        /\ w = "old" => cloned
    BY <1>4 DEF Send
  <2>2. sent \in [Wabas -> [Days -> 0..MaxSent]] /\ MaxSent \in Nat
    BY <1>0, BoundsAssumption DEF TrafficInv
  <2>3. /\ sent' \in [Wabas -> [Days -> 0..MaxSent]]
        /\ sent'[w][today] = sent[w][today] + 1
        /\ \A v \in Wabas, d \in Days : (v # w \/ d # today) => sent'[v][d] = sent[v][d]
    <3>1. sent[w][today] + 1 \in 0..MaxSent
      BY <1>0, <2>1, <2>2
    <3> QED BY <1>0, <2>1, <2>2, <3>1
  <2>4. SentGrows
    <3>1. ASSUME NEW v \in Wabas, NEW d \in Days
          PROVE  sent[v][d] <= sent'[v][d] /\ (d < today => sent'[v][d] = sent[v][d])
      <4>1. CASE v = w /\ d = today
        BY <1>0, <1>1, <2>3, <4>1
      <4>2. CASE v # w \/ d # today
        <5>1. sent'[v][d] = sent[v][d] /\ sent[v][d] \in Nat
          BY <1>1, <2>3, <4>2
        <5> QED BY <5>1
      <4> QED BY <4>1, <4>2
    <3> QED BY <3>1 DEF SentGrows
  <2>5. \A d \in Days : /\ migrated = Never \/ d < migrated => sent'["new"][d] = 0
                        /\ ~cloned => sent'["old"][d] = 0
    <3>1. "old" \in Wabas /\ "new" \in Wabas
      BY DEF Wabas
    <3>2. ASSUME NEW d \in Days, migrated = Never \/ d < migrated PROVE sent'["new"][d] = 0
      <4>1. ~("new" = w /\ d = today)
        <5>1. migrated = Never \/ ~(today < migrated)
          <6>1. PICK t, m : t = today /\ m = migrated
            OBVIOUS
          <6>2. t \in Int /\ (m = Never \/ m \in 1..t)
            BY <1>0, <6>1 DEF TrafficInv
          <6> QED BY <6>1, <6>2
        <5> QED BY <2>1, <3>2, <5>1
      <4>2. sent'["new"][d] = sent["new"][d]
        BY <2>3, <3>1, <4>1
      <4> QED BY <1>0, <3>2, <4>2 DEF TrafficInv
    <3>3. ASSUME NEW d \in Days, ~cloned PROVE sent'["old"][d] = 0
      <4>1. sent'["old"][d] = sent["old"][d]
        BY <2>1, <2>3, <3>1, <3>3
      <4> QED BY <1>0, <3>3, <4>1 DEF TrafficInv
    <3> QED BY <3>2, <3>3
  <2>6. TrafficInv'
    BY <1>0, <2>1, <2>3, <2>5 DEF TrafficInv
  <2>7. today <= today'
    BY <1>0, <2>1
  <2> QED BY <2>1, <2>4, <2>6, <2>7, GrowsInv DEF MetaMoves
<1>5. ASSUME NEW key \in Keys, Expire(key) PROVE MetaInv' /\ UNCHANGED <<ask, ordersVars, pageVars>> /\ SentGrows /\ TrafficInv'
  <2>1. /\ UNCHANGED <<today, migrated, cloned, sent, ask>>
        /\ cache' = [k \in DOMAIN cache \ {key} |-> cache[k]]
    BY <1>5 DEF Expire, Restrict
  <2>2. \A k \in DOMAIN cache' : CachedOk(k, cache'[k])
    BY <2>1 DEF MetaInv, CacheInv
  <2>3. TrafficInv' /\ CacheInv'
    BY <2>1, <2>2, CacheChanges DEF MetaInv
  <2>4. ASSUME NEW a \in Requests PROVE AskOk(ask[a])'
    <3>1. PICK r : r = ask[a]
      OBVIOUS
    <3>2. AskOk(r)
      BY <3>1 DEF MetaInv
    <3>3. AskOk(r)'
      BY <2>1, <3>2, AskStays
    <3> QED BY <2>1, <3>1, <3>3
  <2>5. SentGrows
    BY <1>1, <2>1 DEF SentGrows
  <2> QED BY <2>1, <2>3, <2>4, <2>5 DEF MetaInv, MetaMoves
<1> QED BY <1>2, <1>3, <1>4, <1>5 DEF MetaMoves
-----------------------------------------------------------------------------
(* Pages.                                                                  *)

PageRecords ==
    [step: {"idle", "templates", "current", "past", "done", "failed"},
     entry: {"view", "skill", "utm", "conversions"}, range: Ranges, templates: Nat,
     zeroed: BOOLEAN, current: SUBSET Orders, past: SUBSET Orders]

\* What a page says is about its range.
PageOk(p) ==
    /\ p \in PageRecords /\ p.templates <= Truth("multi", "new", p.range)
    /\ p.current \subseteq InRange(p.range) /\ p.past \subseteq InRange(Past(p.range))

ListsFor(r, range) == r.step = "failed" \/ r.range = range

\* What a process asks for is what its page has yet to say.
Linked(p, r, l) ==
    /\ p.step \in {"templates", "current", "past"} => p.range \in Spans
    /\ p.step = "templates" =>
         r.step \in {"fetch", "done", "failed"} /\ (r.step = "failed" \/ r.range = p.range)
    /\ p.step = "current" => ListsFor(l, p.range)
    /\ p.step = "past" => ListsFor(l, Past(p.range))

PageInv ==
    /\ page = [a \in Requests |-> page[a]]
    /\ \A a \in Requests : PageOk(page[a]) /\ Linked(page[a], ask[a], list[a])
    /\ DOMAIN kept \subseteq Spans
    /\ \A k \in DOMAIN kept : PageOk(kept[k]) /\ kept[k].step = "done" /\ kept[k].range = k

PagesInv == MetaInv /\ ListingInv /\ PageInv

LEMMA TruthMost ==
    ASSUME TrafficInv, NEW entry, NEW w \in Wabas, NEW range \in Ranges
    PROVE  Truth(entry, w, range) <= Truth("multi", "new", range)
<1>1. PICK m, n, s, t : /\ m = Volume("old", range) /\ n = Volume("new", range)
                        /\ s = Truth(entry, w, range) /\ t = Truth("multi", "new", range)
  OBVIOUS
<1>2. w = "old" \/ w = "new"
  BY DEF Wabas
<1>3. /\ m \in Nat /\ n \in Nat
      /\ w = "old" => s = m
      /\ w = "new" /\ entry = "client" => s = n
      /\ w = "new" /\ entry # "client" => s = m + n
  BY <1>1, TruthParts
<1>4. t = m + n
  <2>1. "new" \in Wabas
    BY DEF Wabas
  <2> QED BY <1>1, <2>1, TruthParts
<1> QED BY <1>1, <1>2, <1>3, <1>4

LEMMA SentStays == ASSUME TrafficInv, UNCHANGED sent PROVE SentGrows
<1>1. \A w \in Wabas, d \in Days : sent[w][d] \in Nat
  BY SentType
<1> QED BY <1>1 DEF SentGrows

LEMMA PageGrows ==
    ASSUME TrafficInv, TrafficInv', SentGrows, date' = date, NEW p, PageOk(p)
    PROVE  PageOk(p)'
<1>1. p \in PageRecords /\ p.range \in Ranges /\ p.templates \in Nat
  BY DEF PageOk, PageRecords
<1>2. PICK t, t1 : t = Truth("multi", "new", p.range) /\ t1 = Truth("multi", "new", p.range)'
  OBVIOUS
<1>3. t \in Nat /\ t1 \in Nat /\ t <= t1
  <2>1. "old" \in Wabas /\ "new" \in Wabas
    BY DEF Wabas
  <2>2. PICK m, n, m1, n1 : /\ m = Volume("old", p.range) /\ n = Volume("new", p.range)
                            /\ m1 = Volume("old", p.range)' /\ n1 = Volume("new", p.range)'
    OBVIOUS
  <2>3. m \in Nat /\ n \in Nat /\ m1 \in Nat /\ n1 \in Nat /\ m <= m1 /\ n <= n1
    <3>1. m \in Nat /\ n \in Nat
      BY <1>1, <2>1, <2>2, VolumeType
    <3>2. m1 \in Nat /\ n1 \in Nat
      BY <1>1, <2>1, <2>2, VolumeTypeNext
    <3>3. m <= m1 /\ n <= n1
      BY <1>1, <2>1, <2>2, VolumeGrows
    <3> QED BY <3>1, <3>2, <3>3
  <2>4. t = m + n /\ t1 = m1 + n1
    BY <1>2, <2>2 DEF Truth
  <2> QED BY <2>3, <2>4
<1>4. p.templates <= t1
  <2>1. p.templates <= t
    BY <1>2 DEF PageOk
  <2> QED BY <1>1, <1>3, <2>1
<1>5. (p.current \subseteq InRange(p.range) /\ p.past \subseteq InRange(Past(p.range)))'
  BY DEF PageOk, InRange, Past
<1> QED BY <1>1, <1>2, <1>4, <1>5 DEF PageOk

LEMMA PageChanges ==
    ASSUME TrafficInv, TrafficInv', SentGrows, date' = date,
           page' = [b \in Requests |-> page'[b]],
           \A b \in Requests : PageOk(page'[b]) /\ Linked(page'[b], ask'[b], list'[b]),
           DOMAIN kept' \subseteq Spans,
           \A k \in DOMAIN kept' : PageOk(kept'[k]) /\ kept'[k].step = "done" /\ kept'[k].range = k
    PROVE  PageInv'
<1>1. ASSUME NEW b \in Requests PROVE PageOk(page[b])'
  <2>1. PICK p : p = page'[b]
    OBVIOUS
  <2>2. PageOk(p)'
    BY <2>1, PageGrows
  <2> QED BY <2>1, <2>2
<1>2. ASSUME NEW k \in DOMAIN kept' PROVE PageOk(kept[k])'
  <2>1. PICK p : p = kept'[k]
    OBVIOUS
  <2>2. PageOk(p)'
    BY <2>1, PageGrows
  <2> QED BY <2>1, <2>2
<1>3. \A b \in Requests : Linked(page[b], ask[b], list[b])'
  BY DEF Linked, ListsFor, Past
<1> QED BY <1>1, <1>2, <1>3 DEF PageInv

\* A step that changes one page and leaves those in redis.
LEMMA OnePage ==
    ASSUME PagesInv, TrafficInv', SentGrows, date' = date, UNCHANGED kept, NEW a \in Requests, NEW p,
           PageOk(p), page' = [page EXCEPT ![a] = p], Linked(p, ask'[a], list'[a]),
           \A b \in Requests \ {a} : ask'[b] = ask[b] /\ list'[b] = list[b]
    PROVE  PageInv'
<1>1. page' = [b \in Requests |-> page'[b]] /\ page'[a] = p /\ \A b \in Requests \ {a} : page'[b] = page[b]
  BY DEF PagesInv, PageInv
<1>2. \A b \in Requests : PageOk(page'[b]) /\ Linked(page'[b], ask'[b], list'[b])
  BY <1>1 DEF PagesInv, PageInv
<1> QED BY <1>1, <1>2, PageChanges DEF PagesInv, PageInv, MetaInv

LEMMA SamePages ==
    ASSUME PagesInv, TrafficInv', SentGrows, date' = date, UNCHANGED <<page, kept>>,
           \A b \in Requests : Linked(page[b], ask'[b], list'[b])
    PROVE  PageInv'
<1>1. /\ page' = [b \in Requests |-> page'[b]]
      /\ \A b \in Requests : PageOk(page'[b]) /\ Linked(page'[b], ask'[b], list'[b])
  BY DEF PagesInv, PageInv
<1> QED BY <1>1, PageChanges DEF PagesInv, PageInv, MetaInv

LEMMA PageRanges ==
    ASSUME NEW range \in Ranges
    PROVE  range \in [start: Int, end: Int] /\ Past(range) \in [start: Int, end: Int]
<1>1. PICK s, e : s = range.start /\ e = range.end
  OBVIOUS
<1>2. s \in Int /\ e \in Int /\ range \in [start: Int, end: Int]
  BY <1>1, RangeDays
<1>3. Past(range) = [start |-> s - (e - s), end |-> e - (e - s)]
  BY <1>1 DEF Past
<1> QED BY <1>2, <1>3

\* A new page.
NewPage(step, entry, range, zeroed) ==
    [NoPage EXCEPT !.step = step, !.entry = entry, !.range = range, !.zeroed = zeroed]

LEMMA NewPageOk ==
    ASSUME TrafficInv, NEW step \in {"idle", "templates", "current", "past", "done", "failed"},
           NEW entry \in {"view", "skill", "utm", "conversions"}, NEW range \in Ranges,
           NEW zeroed \in BOOLEAN, NEW p, p = NewPage(step, entry, range, zeroed)
    PROVE  PageOk(p) /\ p.step = step /\ p.range = range
<1>1. p = [step |-> step, entry |-> entry, range |-> range, templates |-> 0, zeroed |-> zeroed,
           current |-> {}, past |-> {}]
  BY DEF NewPage, NoPage
<1>2. p \in PageRecords
  BY <1>1 DEF PageRecords
<1>3. 0 <= Truth("multi", "new", range)
  <2>1. "new" \in Wabas
    BY DEF Wabas
  <2>2. Truth("multi", "new", range) \in Nat
    BY <2>1, TruthParts
  <2> QED BY <2>2
<1>4. p.templates = 0 /\ p.range = range /\ p.step = step /\ p.current = {} /\ p.past = {}
  BY <1>1
<1> QED BY <1>2, <1>3, <1>4 DEF PageOk

LEMMA NoPageOk == ASSUME TrafficInv PROVE PageOk(NoPage) /\ NoPage.step = "idle"
<1>0. PICK none \in BOOLEAN : none = FALSE
  OBVIOUS
<1>1. PICK range : range = [start |-> 1, end |-> 1]
  OBVIOUS
<1>2. range \in Ranges
  <2>1. 1 \in Days
    BY BoundsAssumption DEF Days
  <2>2. [start |-> 1, end |-> 1] \in [start: Days, end: Days]
    BY <2>1
  <2> QED BY <1>1, <2>2 DEF Ranges
<1>3. NoPage = NewPage("idle", "view", range, none)
  <2>1. NewPage("idle", "view", range, none) = [NoPage EXCEPT !.step = "idle", !.entry = "view",
                                                           !.range = [start |-> 1, end |-> 1], !.zeroed = FALSE]
    BY <1>0, <1>1 DEF NewPage
  <2> QED BY <2>1 DEF NoPage
<1>4. "idle" \in {"idle", "templates", "current", "past", "done", "failed"} /\ "view" \in {"view", "skill", "utm", "conversions"}
  OBVIOUS
<1> QED BY <1>2, <1>3, <1>4, NewPageOk

\* A page that is not waiting for anything is linked to whatever there is.
LEMMA IdleLinked ==
    ASSUME NEW p, p.step \notin {"templates", "current", "past"}, NEW r, NEW l PROVE Linked(p, r, l)
BY DEF Linked
-----------------------------------------------------------------------------
(* Every step of a page.                                                   *)

LEMMA ListingRange ==
    ASSUME ListingInv, NEW a \in Web, ListingStep(a)
    PROVE  /\ ListsFor(list'[a], list[a].range) /\ \A b \in Web \ {a} : list'[b] = list[b]
           /\ date' = date
<1>1. PICK r : r = list[a]
  OBVIOUS
<1>2. r \in Listings /\ list = [b \in Web |-> list[b]]
  BY <1>1 DEF ListingInv
<1>3. CASE FirstPage(a)
  <2>1. PICK i, j, k : /\ i = Min({Pages(r.range), MaxPages}) /\ j = Rounds(i) /\ k = Listable(r.range)
    OBVIOUS
  <2>2. PICK x : x = [r EXCEPT !.step = "pages", !.quota = i, !.rounds = j, !.had = k]
    OBVIOUS
  <2>3. list' = [list EXCEPT ![a] = Window(x)] /\ date' = date
    BY <1>1, <1>3, <2>1, <2>2 DEF FirstPage
  <2>4. x.range = r.range /\ Window(x).range = x.range
    BY <1>2, <2>2 DEF Window, Listings
  <2> QED BY <1>1, <1>2, <2>3, <2>4 DEF ListsFor
<1>4. CASE ReadPage(a)
  <2>1. PICK i \in r.todo :
          list' = [list EXCEPT ![a] = Narrow([Count(r, PageOf([start |-> r.range.start, end |-> r.until], i))
                                              EXCEPT !.todo = @ \ {i}])]
    BY <1>1, <1>4 DEF ReadPage
  <2>2. PICK orders : orders = PageOf([start |-> r.range.start, end |-> r.until], i)
    OBVIOUS
  <2>3. PICK c : c = [Count(r, orders) EXCEPT !.todo = @ \ {i}]
    OBVIOUS
  <2>4. list' = [list EXCEPT ![a] = Narrow(c)] /\ date' = date
    BY <1>4, <2>1, <2>2, <2>3 DEF ReadPage
  <2>5. /\ orders \subseteq Orders /\ c = PageRead(r, orders, i) /\ date \in [Orders -> Int]
        /\ r.total = SumIds(r.seen) /\ r.sell = Cardinality(r.seen)
    BY <1>1, <2>2, <2>3, LayoutType DEF PageOf, Listable, InRange, PageRead, ListingInv, ListingOk, Counted
  <2>6. c \in Listings /\ c.range = r.range
    <3>1. c \in Listings /\ ReadsPage(r, orders, i, c)
      BY ONLY <1>2, <2>5, PageReadFields
    <3> QED BY <3>1 DEF ReadsPage
  <2>8. Narrow(c).range = c.range
    <3>1. CASE c.todo # {}
      BY <3>1 DEF Narrow
    <3>2. CASE c.todo = {}
      BY <2>5, <2>6, <3>2, NarrowFields DEF NextWindow
    <3> QED BY <3>1, <3>2
  <2> QED BY <1>1, <1>2, <2>4, <2>6, <2>8 DEF ListsFor
<1>5. CASE ListingFails(a)
  <2>1. list' = [list EXCEPT ![a] = [NoListing EXCEPT !.step = "failed"]] /\ date' = date
    BY <1>5 DEF ListingFails
  <2>2. [NoListing EXCEPT !.step = "failed"].step = "failed"
    BY DEF NoListing
  <2> QED BY <1>2, <2>1, <2>2 DEF ListsFor
<1>6. CASE FinishListing(a)
  <2>1. list' = [list EXCEPT ![a] = [r EXCEPT !.step = "done"]] /\ date' = date
    BY <1>1, <1>6 DEF FinishListing
  <2>2. [r EXCEPT !.step = "done"].range = r.range
    BY <1>2 DEF Listings
  <2> QED BY <1>1, <1>2, <2>1, <2>2 DEF ListsFor
<1> QED BY <1>3, <1>4, <1>5, <1>6 DEF ListingStep

LEMMA BeginListingRange ==
    ASSUME ListingInv, UNCHANGED <<date, invoiced, listed>>, NEW a \in Web,
           NEW range \in [start: Int, end: Int], BeginListing(a, range)
    PROVE  ListingInv' /\ ListsFor(list'[a], range) /\ \A b \in Web \ {a} : list'[b] = list[b]
<1>1. ListingInv' /\ list'[a].range = range
  BY BeginListingOk
<1>2. \A b \in Web \ {a} : list'[b] = list[b]
  BY DEF BeginListing, ListingInv
<1> QED BY <1>1, <1>2 DEF ListsFor

\* A process without a listing.
LEMMA NoListingInv ==
    ASSUME ListingInv, UNCHANGED <<date, invoiced, listed>>, NEW a \in Web,
           list' = [list EXCEPT ![a] = NoListing]
    PROVE  ListingInv' /\ \A b \in Web \ {a} : list'[b] = list[b]
<1>1. ListingOk(NoListing)
  BY NoListingOk
<1>2. PICK n : n = NoListing
  OBVIOUS
<1>3. ListingInv'
  BY <1>1, <1>2, ListingMoves
<1> QED BY <1>3 DEF ListingInv

LEMMA NoAskIsIdle == NoAsk = [NoAsk EXCEPT !.step = "idle"]
<1>1. PICK b \in BOOLEAN : b = FALSE
  OBVIOUS
<1>2. PICK range, e, x : range = [start |-> 1, end |-> 1] /\ e = <<>> /\ x = Nothing
  OBVIOUS
<1>3. PICK r : r = [step |-> "idle", entry |-> "public", waba |-> "old", range |-> range,
                    todo |-> e, got |-> e, floor |-> 0, skipped |-> b, answer |-> x]
  OBVIOUS
<1>4. NoAsk = r
  BY <1>1, <1>2, <1>3 DEF NoAsk
<1>5. [r EXCEPT !.step = "idle"] = r
  BY <1>3
<1> QED BY <1>4, <1>5

LEMMA NoAskInv ==
    ASSUME MetaInv, UNCHANGED <<today, migrated, cloned, sent, cache>>, NEW a \in Requests,
           ask' = [ask EXCEPT ![a] = NoAsk]
    PROVE  MetaInv' /\ \A b \in Requests \ {a} : ask'[b] = ask[b]
<1>1. NoAsk = [NoAsk EXCEPT !.step = "idle"]
  BY NoAskIsIdle
<1>2. PICK r : r = NoAsk
  OBVIOUS
<1>3. AskOk(r)
  <2>1. \A step \in {"idle", "failed"} : AskOk([NoAsk EXCEPT !.step = step])
    BY NoAskOk
  <2> QED BY <1>1, <1>2, <2>1
<1>4. MetaInv' /\ \A b \in Requests \ {a} : ask'[b] = ask[b]
  BY <1>2, <1>3, AskChanges
<1> QED BY <1>4

LEMMA MetaStays ==
    ASSUME MetaInv, UNCHANGED vars
    PROVE  MetaInv'
<1>1. UNCHANGED <<today, migrated, cloned, sent, cache, ask>>
  BY DEF vars
<1>2. TrafficInv' /\ CacheInv'
  BY <1>1, CacheKept, CacheChanges DEF MetaInv
<1>3. ASSUME NEW a \in Requests PROVE AskOk(ask[a])'
  <2>1. PICK r : r = ask[a]
    OBVIOUS
  <2>2. AskOk(r)
    BY <2>1 DEF MetaInv
  <2>3. AskOk(r)'
    BY <1>1, <2>2, AskStays
  <2> QED BY <1>1, <2>1, <2>3
<1> QED BY <1>1, <1>2, <1>3 DEF MetaInv

\* Begin leaves the requests of the others.
LEMMA BeginOthers ==
    ASSUME MetaInv, NEW a \in Requests, NEW entry \in Entries, NEW range \in Ranges, Begin(a, entry, range)
    PROVE  /\ MetaInv' /\ TrafficInv' /\ SentGrows /\ \A b \in Requests \ {a} : ask'[b] = ask[b]
           /\ ask'[a].step \in {"fetch", "done", "failed"}
           /\ ask'[a].step = "failed" \/ ask'[a].range = range
<1>1. MetaInv' /\ (ask'[a].step = "failed" \/ (ask'[a].step = "fetch" /\ ask'[a].range = range))
  BY BeginOk
<1>2. \A b \in Requests \ {a} : ask'[b] = ask[b]
  BY DEF Begin, MetaInv
<1>3. TrafficInv' /\ SentGrows
  BY <1>1, SentStays DEF Begin, MetaInv
<1> QED BY <1>1, <1>2, <1>3

LEMMA FindPageInv ==
    ASSUME PagesInv, NEW a \in Requests, FindPage(a)
    PROVE  PagesInv'
<1>1. PICK range \in DOMAIN kept : page' = [page EXCEPT ![a] = kept[range]]
  BY DEF FindPage
<1>2. /\ ask' = [ask EXCEPT ![a] = NoAsk] /\ list' = [list EXCEPT ![a] = NoListing]
      /\ UNCHANGED <<today, migrated, cloned, sent, cache, date, invoiced, listed, kept>>
  BY DEF FindPage
<1>3. MetaInv' /\ \A b \in Requests \ {a} : ask'[b] = ask[b]
  BY <1>2, NoAskInv DEF PagesInv
<1>4. ListingInv' /\ \A b \in Requests \ {a} : list'[b] = list[b]
  BY <1>2, SameProcesses, NoListingInv DEF PagesInv
<1>5. TrafficInv' /\ SentGrows
  BY <1>2, <1>3, SentStays DEF PagesInv, MetaInv
<1>6. PICK p : p = kept[range]
  OBVIOUS
<1>7. PageOk(p) /\ p.step = "done" /\ Linked(p, ask'[a], list'[a])
  BY <1>6, IdleLinked DEF PagesInv, PageInv
<1>8. PageInv'
  BY <1>1, <1>2, <1>3, <1>4, <1>5, <1>6, <1>7, OnePage
<1> QED BY <1>3, <1>4, <1>8 DEF PagesInv

LEMMA BeginAloneInv ==
    ASSUME PagesInv, NEW a \in Requests, BeginAlone(a)
    PROVE  PagesInv'
<1>1. PICK entry \in {"public", "internal"}, range \in Ranges : Begin(a, entry, range)
  BY DEF BeginAlone
<1>2. /\ page' = [page EXCEPT ![a] = NoPage] /\ list' = [list EXCEPT ![a] = NoListing]
      /\ UNCHANGED <<date, invoiced, listed, kept>>
  BY DEF BeginAlone
<1>3. MetaInv' /\ TrafficInv' /\ SentGrows /\ \A b \in Requests \ {a} : ask'[b] = ask[b]
  BY <1>1, BeginOthers DEF PagesInv, Entries
<1>4. ListingInv' /\ \A b \in Requests \ {a} : list'[b] = list[b]
  BY <1>2, SameProcesses, NoListingInv DEF PagesInv
<1>5. PICK p : p = NoPage
  OBVIOUS
<1>6. PageOk(p) /\ Linked(p, ask'[a], list'[a])
  BY <1>5, NoPageOk, IdleLinked DEF PagesInv, MetaInv
<1>7. PageInv'
  BY <1>2, <1>3, <1>4, <1>5, <1>6, OnePage
<1> QED BY <1>3, <1>4, <1>7 DEF PagesInv

\* A page that begins with what Meta says.
LEMMA TemplatesBegin ==
    ASSUME PagesInv, NEW a \in Requests, NEW e \in Entries, NEW entry \in {"view", "skill", "conversions"},
           NEW range \in Spans, Begin(a, e, range), list' = [list EXCEPT ![a] = NoListing],
           NEW p, p = [NoPage EXCEPT !.step = "templates", !.entry = entry, !.range = range],
           page' = [page EXCEPT ![a] = p], UNCHANGED <<date, invoiced, listed, kept>>
    PROVE  PagesInv'
<1>0. range \in Ranges
  BY PagesAssumption
<1>1. /\ MetaInv' /\ TrafficInv' /\ SentGrows /\ \A b \in Requests \ {a} : ask'[b] = ask[b]
      /\ ask'[a].step \in {"fetch", "done", "failed"}
      /\ ask'[a].step = "failed" \/ ask'[a].range = range
  BY <1>0, BeginOthers DEF PagesInv
<1>2. ListingInv' /\ \A b \in Requests \ {a} : list'[b] = list[b]
  BY SameProcesses, NoListingInv DEF PagesInv
<1>3. PICK none \in BOOLEAN : none = FALSE
  OBVIOUS
<1>4. p = NewPage("templates", entry, range, none)
  <2>1. p = [step |-> "templates", entry |-> entry, range |-> range, templates |-> 0, zeroed |-> none,
             current |-> {}, past |-> {}]
    BY <1>3 DEF NoPage
  <2>2. PICK step, q : step = "templates" /\ q = NewPage(step, entry, range, none)
    OBVIOUS
  <2>3. q = [step |-> step, entry |-> entry, range |-> range, templates |-> 0, zeroed |-> none,
             current |-> {}, past |-> {}]
    BY ONLY <2>2 DEF NewPage, NoPage
  <2> QED BY <2>1, <2>2, <2>3
<1>5. PageOk(p) /\ p.step = "templates" /\ p.range = range
  <2>1. /\ "templates" \in {"idle", "templates", "current", "past", "done", "failed"}
        /\ entry \in {"view", "skill", "utm", "conversions"} /\ TrafficInv
    BY DEF PagesInv, MetaInv
  <2> QED BY ONLY <1>0, <1>4, <2>1, NewPageOk, none \in BOOLEAN
<1>6. Linked(p, ask'[a], list'[a])
  BY <1>1, <1>5 DEF Linked
<1>7. PageInv'
  BY <1>1, <1>2, <1>5, <1>6, OnePage
<1> QED BY <1>1, <1>2, <1>7 DEF PagesInv
LEMMA BeginTemplatesInv ==
    ASSUME PagesInv, NEW a \in Requests, BeginTemplates(a)
    PROVE  PagesInv'
<1>1. PICK entry \in {"view", "skill"}, range \in Spans :
        /\ Begin(a, "multi", range)
        /\ page' = [page EXCEPT ![a] = [NoPage EXCEPT !.step = "templates", !.entry = entry, !.range = range]]
  BY DEF BeginTemplates
<1>2. list' = [list EXCEPT ![a] = NoListing] /\ UNCHANGED <<date, invoiced, listed, kept>>
  BY DEF BeginTemplates
<1>4. PICK p : p = [NoPage EXCEPT !.step = "templates", !.entry = entry, !.range = range]
  OBVIOUS
<1>5. "multi" \in Entries /\ entry \in {"view", "skill", "conversions"}
  BY DEF Entries
<1>6. page' = [page EXCEPT ![a] = p]
  BY <1>1, <1>4
<1> QED BY <1>1, <1>2, <1>4, <1>5, <1>6, TemplatesBegin

LEMMA BeginConversionsInv ==
    ASSUME PagesInv, NEW a \in Requests, BeginConversions(a)
    PROVE  PagesInv'
<1>1. PICK range \in Spans :
        /\ Begin(a, "client", range)
        /\ page' = [page EXCEPT ![a] = [NoPage EXCEPT !.step = "templates", !.entry = "conversions", !.range = range]]
  BY DEF BeginConversions
<1>2. list' = [list EXCEPT ![a] = NoListing] /\ UNCHANGED <<date, invoiced, listed, kept>>
  BY DEF BeginConversions
<1>3. PICK entry : entry = "conversions"
  OBVIOUS
<1>4. PICK p : p = [NoPage EXCEPT !.step = "templates", !.entry = entry, !.range = range]
  OBVIOUS
<1>5. "client" \in Entries /\ entry \in {"view", "skill", "conversions"}
  BY <1>3 DEF Entries
<1>6. page' = [page EXCEPT ![a] = p]
  BY <1>1, <1>3, <1>4
<1> QED BY <1>1, <1>2, <1>4, <1>5, <1>6, TemplatesBegin

\* A page whose orders are listed next: those of its range, or of the period before.
LEMMA ListsNext ==
    ASSUME PagesInv, NEW a \in Requests, MetaInv', TrafficInv', SentGrows,
           \A b \in Requests \ {a} : ask'[b] = ask[b],
           NEW p, PageOk(p), p.step \in {"current", "past"}, p.range \in Spans,
           NEW range, range = IF p.step = "current" THEN p.range ELSE Past(p.range),
           BeginListing(a, range), page' = [page EXCEPT ![a] = p], UNCHANGED <<date, invoiced, listed, kept>>
    PROVE  PagesInv'
<1>1. p.range \in Ranges
  BY DEF PageOk, PageRecords
<1>2. range \in [start: Int, end: Int]
  BY <1>1, PageRanges
<1>3. ListingInv' /\ ListsFor(list'[a], range) /\ \A b \in Requests \ {a} : list'[b] = list[b]
  BY <1>2, SameProcesses, BeginListingRange DEF PagesInv
<1>4. Linked(p, ask'[a], list'[a])
  BY <1>3 DEF Linked
<1>5. PageInv'
  BY <1>3, <1>4, OnePage
<1> QED BY <1>3, <1>5 DEF PagesInv

LEMMA BeginOrdersInv ==
    ASSUME PagesInv, NEW a \in Requests, BeginOrders(a)
    PROVE  PagesInv'
<1>1. PICK entry \in {"view", "skill", "utm"}, range \in Spans :
        \/ /\ entry = "skill" /\ list' = [list EXCEPT ![a] = NoListing]
           /\ page' = [page EXCEPT ![a] = [[NoPage EXCEPT !.entry = entry, !.range = range, !.zeroed = TRUE]
                                           EXCEPT !.step = "failed"]]
        \/ /\ entry # "skill" /\ BeginListing(a, range)
           /\ page' = [page EXCEPT ![a] = [[NoPage EXCEPT !.entry = entry, !.range = range, !.zeroed = TRUE]
                                           EXCEPT !.step = "current"]]
  BY DEF BeginOrders
<1>2. /\ ask' = [ask EXCEPT ![a] = NoAsk]
      /\ UNCHANGED <<today, migrated, cloned, sent, cache, date, invoiced, listed, kept>>
  BY DEF BeginOrders
<1>3. MetaInv' /\ \A b \in Requests \ {a} : ask'[b] = ask[b]
  BY <1>2, NoAskInv DEF PagesInv
<1>4. TrafficInv' /\ SentGrows /\ TrafficInv
  BY <1>2, <1>3, SentStays DEF PagesInv, MetaInv
<1>5. PICK z \in BOOLEAN : z = TRUE
  OBVIOUS
<1>6. ASSUME NEW step PROVE [[NoPage EXCEPT !.entry = entry, !.range = range, !.zeroed = TRUE] EXCEPT !.step = step]
                             = NewPage(step, entry, range, z)
  BY <1>5 DEF NewPage, NoPage
<1>7. ASSUME NEW step \in {"failed", "current"}, NEW p, p = NewPage(step, entry, range, z)
      PROVE  PageOk(p) /\ p.step = step /\ p.range = range
  <2>2. p = NewPage(step, entry, range, z)
    BY <1>7
  <2>1. /\ step \in {"idle", "templates", "current", "past", "done", "failed"} /\ range \in Ranges
        /\ entry \in {"view", "skill", "utm", "conversions"}
    BY PagesAssumption
  <2> QED BY ONLY <1>4, <2>1, <2>2, NewPageOk, z \in BOOLEAN
<1>8. CASE /\ entry = "skill" /\ list' = [list EXCEPT ![a] = NoListing]
           /\ page' = [page EXCEPT ![a] = [[NoPage EXCEPT !.entry = entry, !.range = range, !.zeroed = TRUE]
                                           EXCEPT !.step = "failed"]]
  <2>1. PICK p : p = NewPage("failed", entry, range, z)
    OBVIOUS
  <2>2. page' = [page EXCEPT ![a] = p]
    BY <1>6, <1>8, <2>1
  <2>3. PageOk(p) /\ p.step = "failed"
    BY <1>7, <2>1
  <2>4. ListingInv' /\ \A b \in Requests \ {a} : list'[b] = list[b]
    BY <1>2, <1>8, SameProcesses, NoListingInv DEF PagesInv
  <2>5. Linked(p, ask'[a], list'[a])
    BY <2>3, IdleLinked
  <2>6. PageInv'
    BY <1>2, <1>3, <1>4, <2>2, <2>3, <2>4, <2>5, OnePage
  <2> QED BY <1>3, <2>4, <2>6 DEF PagesInv
<1>9. CASE /\ entry # "skill" /\ BeginListing(a, range)
           /\ page' = [page EXCEPT ![a] = [[NoPage EXCEPT !.entry = entry, !.range = range, !.zeroed = TRUE]
                                           EXCEPT !.step = "current"]]
  <2>1. PICK p : p = NewPage("current", entry, range, z)
    OBVIOUS
  <2>2. page' = [page EXCEPT ![a] = p]
    BY <1>6, <1>9, <2>1
  <2>3. PageOk(p) /\ p.step = "current" /\ p.range = range
    BY <1>7, <2>1
  <2> QED BY <1>2, <1>3, <1>4, <1>9, <2>2, <2>3, ListsNext
<1> QED BY <1>1, <1>8, <1>9

\* What the templates have sent is the traffic of the page's range.
LEMMA AnswerOfPage ==
    ASSUME PagesInv, NEW a \in Requests, page[a].step = "templates", ask[a].step = "done"
    PROVE  /\ ask[a].answer.total \in Nat
           /\ ask[a].answer.total <= Truth("multi", "new", page[a].range)
<1>1. PICK r, range : r = ask[a] /\ range = page[a].range
  OBVIOUS
<1>2. AskOk(r) /\ r.step = "done" /\ r.range = range /\ TrafficInv /\ range \in Ranges
  BY <1>1 DEF PagesInv, MetaInv, PageInv, Linked, PageOk, PageRecords
<1>3. r \in AskRecords /\ r.answer.total <= Asks(r) /\ Reply(r.answer, r.range)
  BY <1>2 DEF AskOk, Answered
<1>4. r.answer.total \in Nat /\ r.waba \in Wabas
  BY <1>3, ReplyNumbers, RequestFields
<1>5. PICK s, t : s = Asks(r) /\ t = Truth("multi", "new", range)
  OBVIOUS
<1>6. s <= t /\ s \in Nat
  BY <1>2, <1>4, <1>5, TruthMost, TruthParts DEF Asks
<1>7. t \in Nat
  <2>1. "new" \in Wabas
    BY DEF Wabas
  <2> QED BY <1>2, <1>5, <2>1, TruthParts
<1>8. r.answer.total <= t
  BY <1>3, <1>4, <1>5, <1>6, <1>7
<1> QED BY <1>1, <1>4, <1>5, <1>8
LEMMA PageFields ==
    ASSUME NEW p, PageOk(p)
    PROVE  /\ p \in PageRecords /\ p.range \in Ranges /\ p.templates \in Nat
           /\ p.templates <= Truth("multi", "new", p.range)
           /\ p.current \subseteq InRange(p.range) /\ p.past \subseteq InRange(Past(p.range))
BY DEF PageOk, PageRecords

LEMMA TemplatesDoneInv ==
    ASSUME PagesInv, NEW a \in Requests, TemplatesDone(a)
    PROVE  PagesInv'
<1>1. /\ page[a].step = "templates" /\ ask[a].step = "done" /\ ask' = [ask EXCEPT ![a] = NoAsk]
      /\ page' = [page EXCEPT ![a].step = "current", ![a].templates = ask[a].answer.total]
      /\ BeginListing(a, page[a].range)
      /\ UNCHANGED <<today, migrated, cloned, sent, cache, date, invoiced, listed, kept>>
  BY DEF TemplatesDone
<1>2. PICK o, t : o = page[a] /\ t = ask[a].answer.total
  OBVIOUS
<1>3. PageOk(o) /\ t \in Nat /\ t <= Truth("multi", "new", o.range)
  BY <1>1, <1>2, AnswerOfPage DEF PagesInv, PageInv
<1>4. PICK p : p = [o EXCEPT !.step = "current", !.templates = t]
  OBVIOUS
<1>5. page' = [page EXCEPT ![a] = p]
  BY <1>1, <1>2, <1>4 DEF PagesInv, PageInv
<1>6. PageOk(p) /\ p.step = "current" /\ p.range = o.range
  <2>1. o \in PageRecords
    BY <1>3, PageFields
  <2>2. /\ p \in PageRecords /\ p.step = "current" /\ p.range = o.range /\ p.templates = t
        /\ p.current = o.current /\ p.past = o.past
    BY <1>3, <1>4, <2>1 DEF PageRecords
  <2> QED BY <1>3, <2>2 DEF PageOk
<1>7. MetaInv' /\ \A b \in Requests \ {a} : ask'[b] = ask[b]
  BY <1>1, NoAskInv DEF PagesInv
<1>8. TrafficInv' /\ SentGrows
  BY <1>1, <1>7, SentStays DEF PagesInv, MetaInv
<1>9. BeginListing(a, p.range) /\ p.range \in Spans
  BY <1>1, <1>2, <1>6 DEF PagesInv, PageInv, Linked
<1> QED BY <1>1, <1>5, <1>6, <1>7, <1>8, <1>9, ListsNext

LEMMA TemplatesFailInv ==
    ASSUME PagesInv, NEW a \in Requests, TemplatesFail(a)
    PROVE  PagesInv'
<1>1. /\ page[a].step = "templates" /\ ask' = [ask EXCEPT ![a] = NoAsk]
      /\ UNCHANGED <<today, migrated, cloned, sent, cache, date, invoiced, listed, kept>>
      /\ \/ page' = [page EXCEPT ![a].step = "failed"] /\ UNCHANGED list
         \/ /\ page' = [page EXCEPT ![a].step = "current", ![a].zeroed = TRUE]
            /\ BeginListing(a, page[a].range)
  BY DEF TemplatesFail
<1>2. PICK o : o = page[a]
  OBVIOUS
<1>3. PageOk(o) /\ o \in PageRecords
  BY <1>2, PageFields DEF PagesInv, PageInv
<1>4. MetaInv' /\ \A b \in Requests \ {a} : ask'[b] = ask[b]
  BY <1>1, NoAskInv DEF PagesInv
<1>5. TrafficInv' /\ SentGrows
  BY <1>1, <1>4, SentStays DEF PagesInv, MetaInv
<1>6. CASE page' = [page EXCEPT ![a].step = "failed"] /\ UNCHANGED list
  <2>1. PICK p : p = [o EXCEPT !.step = "failed"]
    OBVIOUS
  <2>2. page' = [page EXCEPT ![a] = p]
    BY <1>2, <1>6, <2>1 DEF PagesInv, PageInv
  <2>3. /\ p \in PageRecords /\ p.step = "failed" /\ p.range = o.range /\ p.templates = o.templates
        /\ p.current = o.current /\ p.past = o.past
    BY <1>3, <2>1 DEF PageRecords
  <2>4. PageOk(p) /\ Linked(p, ask'[a], list'[a])
    BY <1>3, <2>3, IdleLinked DEF PageOk
  <2>5. PageInv'
    BY <1>1, <1>4, <1>5, <1>6, <2>2, <2>4, OnePage
  <2>6. ListingInv'
    BY <1>1, <1>6, ListingKept DEF PagesInv
  <2> QED BY <1>4, <2>5, <2>6 DEF PagesInv
<1>7. CASE /\ page' = [page EXCEPT ![a].step = "current", ![a].zeroed = TRUE]
           /\ BeginListing(a, page[a].range)
  <2>0. PICK z \in BOOLEAN : z = TRUE
    OBVIOUS
  <2>1. PICK p : p = [o EXCEPT !.step = "current", !.zeroed = z]
    OBVIOUS
  <2>2. page' = [page EXCEPT ![a] = p]
    BY <1>2, <1>7, <2>0, <2>1 DEF PagesInv, PageInv
  <2>3. /\ p \in PageRecords /\ p.step = "current" /\ p.range = o.range /\ p.templates = o.templates
        /\ p.current = o.current /\ p.past = o.past
    BY <1>3, <2>1 DEF PageRecords
  <2>4. PageOk(p)
    BY <1>3, <2>3 DEF PageOk
  <2>5. BeginListing(a, p.range) /\ p.range \in Spans
    BY <1>1, <1>2, <1>7, <2>3 DEF PagesInv, PageInv, Linked
  <2> QED BY <1>1, <1>4, <1>5, <2>2, <2>3, <2>4, <2>5, ListsNext
<1> QED BY <1>1, <1>6, <1>7

\* The orders a listing has seen are those of its range.
LEMMA SeenInRange ==
    ASSUME PagesInv, NEW a \in Requests
    PROVE  list[a].seen \subseteq InRange(list[a].range) /\ list[a].seen \subseteq Orders
BY SameProcesses DEF PagesInv, ListingInv, ListingOk, Counted, InRange

LEMMA MetaIsStill ==
    ASSUME PagesInv, UNCHANGED vars
    PROVE  MetaInv' /\ TrafficInv' /\ SentGrows /\ \A b \in Requests : ask'[b] = ask[b]
<1>1. MetaInv' /\ UNCHANGED <<sent, ask>>
  BY MetaStays DEF PagesInv, vars
<1> QED BY <1>1, SentStays DEF PagesInv, MetaInv

LEMMA CurrentDoneInv ==
    ASSUME PagesInv, NEW a \in Requests, CurrentDone(a)
    PROVE  PagesInv'
<1>1. /\ page[a].step = "current" /\ list[a].step = "done" /\ BeginListing(a, Past(page[a].range))
      /\ page' = [page EXCEPT ![a].step = "past", ![a].current = list[a].seen]
      /\ UNCHANGED <<vars, date, invoiced, listed, kept>>
  BY DEF CurrentDone
<1>2. PICK o, s : o = page[a] /\ s = list[a].seen
  OBVIOUS
<1>3. PageOk(o) /\ o \in PageRecords
  BY <1>2, PageFields DEF PagesInv, PageInv
<1>4. s \subseteq InRange(o.range) /\ s \subseteq Orders
  BY <1>1, <1>2, SeenInRange DEF PagesInv, PageInv, Linked, ListsFor
<1>5. PICK p : p = [o EXCEPT !.step = "past", !.current = s]
  OBVIOUS
<1>6. page' = [page EXCEPT ![a] = p]
  BY <1>1, <1>2, <1>5 DEF PagesInv, PageInv
<1>7. /\ p \in PageRecords /\ p.step = "past" /\ p.range = o.range /\ p.templates = o.templates
      /\ p.current = s /\ p.past = o.past
  BY <1>3, <1>4, <1>5 DEF PageRecords
<1>8. PageOk(p)
  BY <1>3, <1>4, <1>7 DEF PageOk
<1>9. PICK range : range = Past(o.range)
  OBVIOUS
<1>10. BeginListing(a, range) /\ range = IF p.step = "current" THEN p.range ELSE Past(p.range)
  BY <1>1, <1>2, <1>7, <1>9
<1>12. p.range \in Spans
  BY <1>1, <1>2, <1>7 DEF PagesInv, PageInv, Linked
<1>11. MetaInv' /\ TrafficInv' /\ SentGrows /\ \A b \in Requests : ask'[b] = ask[b]
  BY <1>1, MetaIsStill
<1> QED BY <1>1, <1>6, <1>7, <1>8, <1>10, <1>11, <1>12, ListsNext

\* A step of a page that needs nothing more leaves requests and listings alone.
LEMMA PageEnds ==
    ASSUME PagesInv, NEW a \in Requests, NEW p, PageOk(p), p.step \in {"done", "failed"},
           page' = [page EXCEPT ![a] = p], UNCHANGED <<vars, ordersVars>>,
           DOMAIN kept' \subseteq Spans,
           \A k \in DOMAIN kept' : PageOk(kept'[k]) /\ kept'[k].step = "done" /\ kept'[k].range = k
    PROVE  PagesInv'
<1>1. MetaInv' /\ TrafficInv' /\ SentGrows /\ \A b \in Requests : ask'[b] = ask[b]
  BY MetaIsStill
<1>2. ListingInv' /\ list' = list /\ date' = date
  BY ListingKept DEF PagesInv, ordersVars
<1>3. /\ page' = [b \in Requests |-> page'[b]] /\ page'[a] = p
      /\ \A b \in Requests \ {a} : page'[b] = page[b]
  BY DEF PagesInv, PageInv
<1>4. \A b \in Requests : PageOk(page'[b]) /\ Linked(page'[b], ask'[b], list'[b])
  <2>1. Linked(p, ask'[a], list'[a])
    BY IdleLinked
  <2> QED BY <1>1, <1>2, <1>3, <2>1 DEF PagesInv, PageInv
<1>5. PageInv'
  BY <1>1, <1>2, <1>3, <1>4, PageChanges DEF PagesInv, MetaInv
<1> QED BY <1>1, <1>2, <1>5 DEF PagesInv

LEMMA ConversionsDoneInv ==
    ASSUME PagesInv, NEW a \in Requests, ConversionsDone(a)
    PROVE  PagesInv'
<1>1. /\ page[a].step = "current" /\ list[a].step = "done"
      /\ page' = [page EXCEPT ![a].step = "done", ![a].current = list[a].seen]
      /\ UNCHANGED <<vars, ordersVars, kept>>
  BY DEF ConversionsDone
<1>2. PICK o, s : o = page[a] /\ s = list[a].seen
  OBVIOUS
<1>3. PageOk(o) /\ o \in PageRecords
  BY <1>2, PageFields DEF PagesInv, PageInv
<1>4. s \subseteq InRange(o.range) /\ s \subseteq Orders
  BY <1>1, <1>2, SeenInRange DEF PagesInv, PageInv, Linked, ListsFor
<1>5. PICK p : p = [o EXCEPT !.step = "done", !.current = s]
  OBVIOUS
<1>6. page' = [page EXCEPT ![a] = p]
  BY <1>1, <1>2, <1>5 DEF PagesInv, PageInv
<1>7. /\ p \in PageRecords /\ p.step = "done" /\ p.range = o.range /\ p.templates = o.templates
      /\ p.current = s /\ p.past = o.past
  BY <1>3, <1>4, <1>5 DEF PageRecords
<1>8. PageOk(p)
  BY <1>3, <1>4, <1>7 DEF PageOk
<1> QED BY <1>1, <1>6, <1>7, <1>8, PageEnds DEF PagesInv, PageInv

LEMMA PastDoneInv ==
    ASSUME PagesInv, NEW a \in Requests, PastDone(a)
    PROVE  PagesInv'
<1>1. PICK p : /\ p = [page[a] EXCEPT !.step = "done", !.past = list[a].seen]
               /\ page' = [page EXCEPT ![a] = p]
               /\ kept' = IF p.entry # "skill" THEN kept
                          ELSE [r \in DOMAIN kept \cup {p.range} |-> IF r = p.range THEN p ELSE kept[r]]
  BY DEF PastDone
<1>2. page[a].step = "past" /\ list[a].step = "done" /\ UNCHANGED <<vars, ordersVars>>
  BY DEF PastDone
<1>3. PICK o, s : o = page[a] /\ s = list[a].seen
  OBVIOUS
<1>4. PageOk(o) /\ o \in PageRecords
  BY <1>3, PageFields DEF PagesInv, PageInv
<1>5. s \subseteq InRange(Past(o.range)) /\ s \subseteq Orders
  BY <1>2, <1>3, SeenInRange DEF PagesInv, PageInv, Linked, ListsFor
<1>6. /\ p \in PageRecords /\ p.step = "done" /\ p.range = o.range /\ p.templates = o.templates
      /\ p.current = o.current /\ p.past = s /\ p.entry = o.entry
  BY <1>1, <1>3, <1>4, <1>5 DEF PageRecords
<1>7. PageOk(p)
  BY <1>4, <1>5, <1>6 DEF PageOk
<1>8. p.range \in Spans
  BY <1>2, <1>3, <1>6 DEF PagesInv, PageInv, Linked
<1>9. /\ DOMAIN kept' \subseteq Spans
      /\ \A k \in DOMAIN kept' : PageOk(kept'[k]) /\ kept'[k].step = "done" /\ kept'[k].range = k
  BY <1>1, <1>6, <1>7, <1>8 DEF PagesInv, PageInv
<1> QED BY <1>1, <1>2, <1>6, <1>7, <1>9, PageEnds
LEMMA OrdersFailInv ==
    ASSUME PagesInv, NEW a \in Requests, OrdersFail(a)
    PROVE  PagesInv'
<1>1. page' = [page EXCEPT ![a].step = "failed"] /\ UNCHANGED <<vars, ordersVars, kept>>
  BY DEF OrdersFail
<1>2. PICK o : o = page[a]
  OBVIOUS
<1>3. PageOk(o) /\ o \in PageRecords
  BY <1>2, PageFields DEF PagesInv, PageInv
<1>4. PICK p : p = [o EXCEPT !.step = "failed"]
  OBVIOUS
<1>5. page' = [page EXCEPT ![a] = p]
  BY <1>1, <1>2, <1>4 DEF PagesInv, PageInv
<1>6. /\ p \in PageRecords /\ p.step = "failed" /\ p.range = o.range /\ p.templates = o.templates
      /\ p.current = o.current /\ p.past = o.past
  BY <1>3, <1>4 DEF PageRecords
<1>7. PageOk(p)
  BY <1>3, <1>6 DEF PageOk
<1> QED BY <1>1, <1>5, <1>6, <1>7, PageEnds DEF PagesInv, PageInv

LEMMA PageStepInv ==
    ASSUME PagesInv, NEW a \in Requests, PageStep(a)
    PROVE  PagesInv'
BY TemplatesDoneInv, TemplatesFailInv, CurrentDoneInv, ConversionsDoneInv, PastDoneInv, OrdersFailInv
   DEF PageStep

LEMMA ForgetPageInv ==
    ASSUME PagesInv, NEW range \in DOMAIN kept, ForgetPage(range)
    PROVE  PagesInv'
<1>1. /\ kept' = [k \in DOMAIN kept \ {range} |-> kept[k]] /\ UNCHANGED <<vars, ordersVars, page>>
  BY DEF ForgetPage, Restrict
<1>2. MetaInv' /\ TrafficInv' /\ SentGrows /\ \A b \in Requests : ask'[b] = ask[b]
  BY <1>1, MetaIsStill
<1>3. ListingInv' /\ list' = list /\ date' = date
  BY <1>1, ListingKept DEF PagesInv, ordersVars
<1>4. /\ page' = [b \in Requests |-> page'[b]]
      /\ \A b \in Requests : PageOk(page'[b]) /\ Linked(page'[b], ask'[b], list'[b])
  BY <1>1, <1>2, <1>3 DEF PagesInv, PageInv
<1>5. /\ DOMAIN kept' \subseteq Spans
      /\ \A k \in DOMAIN kept' : PageOk(kept'[k]) /\ kept'[k].step = "done" /\ kept'[k].range = k
  BY <1>1 DEF PagesInv, PageInv
<1>6. PageInv'
  BY <1>2, <1>3, <1>4, <1>5, PageChanges DEF PagesInv, MetaInv
<1> QED BY <1>2, <1>3, <1>6 DEF PagesInv

LEMMA ShopInv ==
    ASSUME PagesInv, NEW o \in Orders, Invoice(o), UNCHANGED <<vars, pageVars>>
    PROVE  PagesInv'
<1>1. MetaInv' /\ TrafficInv' /\ SentGrows /\ \A b \in Requests : ask'[b] = ask[b]
  BY MetaIsStill
<1>2. ListingInv' /\ date' = date
  BY InvoiceInv DEF PagesInv, Invoice
<1>3. ASSUME NEW b \in Requests PROVE list'[b].step = list[b].step /\ list'[b].range = list[b].range
  <2>1. list[b] \in Listings /\ b \in Web
    BY SameProcesses DEF PagesInv, ListingInv
  <2>2. list'[b] = IF list[b].step = "pages" /\ o \in InRange(list[b].range)
                   THEN [list[b] EXCEPT !.late = @ + 1] ELSE list[b]
    BY <2>1 DEF Invoice
  <2> QED BY <2>1, <2>2 DEF Listings
<1>4. \A b \in Requests : Linked(page[b], ask'[b], list'[b])
  BY <1>1, <1>3 DEF PagesInv, PageInv, Linked, ListsFor
<1>5. UNCHANGED <<page, kept>>
  BY DEF pageVars
<1>6. PageInv'
  BY <1>1, <1>2, <1>4, <1>5, SamePages
<1> QED BY <1>1, <1>2, <1>6 DEF PagesInv

LEMMA ListingGoneInv ==
    ASSUME PagesInv, NEW range \in DOMAIN listed, ForgetListing(range), UNCHANGED <<vars, pageVars>>
    PROVE  PagesInv'
<1>1. MetaInv' /\ TrafficInv' /\ SentGrows /\ \A b \in Requests : ask'[b] = ask[b]
  BY MetaIsStill
<1>2. ListingInv' /\ date' = date /\ list' = list /\ UNCHANGED <<page, kept>>
  BY ForgetListingInv DEF PagesInv, ForgetListing, pageVars
<1>3. \A b \in Requests : Linked(page[b], ask'[b], list'[b])
  BY <1>1, <1>2 DEF PagesInv, PageInv
<1>4. PageInv'
  BY <1>1, <1>2, <1>3, SamePages
<1> QED BY <1>1, <1>2, <1>4 DEF PagesInv

LEMMA AskInv ==
    ASSUME PagesInv, NEW a \in Requests, AskStep(a), UNCHANGED <<ordersVars, pageVars>>
    PROVE  PagesInv'
<1>1. /\ MetaInv' /\ ask[a].step = "fetch" /\ ask'[a].step \in {"fetch", "done", "failed"} /\ Goes(a)
      /\ \A b \in Requests \ {a} : ask'[b] = ask[b]
  BY AskStepInv DEF PagesInv
<1>2. TrafficInv' /\ SentGrows
  BY <1>1, SentStays DEF PagesInv, MetaInv, AskStep, LookupFails, Fetch, FetchFails, Answer
<1>3. ListingInv' /\ date' = date /\ list' = list /\ UNCHANGED <<page, kept>>
  BY ListingKept DEF PagesInv, ordersVars, pageVars
<1>4. ASSUME NEW b \in Requests PROVE Linked(page[b], ask'[b], list'[b])
  <2>1. Linked(page[b], ask[b], list[b])
    BY DEF PagesInv, PageInv
  <2>2. CASE b = a
    BY <1>1, <1>3, <2>1, <2>2 DEF Linked, Goes
  <2>3. CASE b # a
    BY <1>1, <1>3, <2>1, <2>3
  <2> QED BY <2>2, <2>3
<1>5. PageInv'
  BY <1>2, <1>3, <1>4, SamePages
<1> QED BY <1>1, <1>3, <1>5 DEF PagesInv

LEMMA ListsInv ==
    ASSUME PagesInv, NEW a \in Requests, ListingStep(a), UNCHANGED <<vars, pageVars>>
    PROVE  PagesInv'
<1>1. MetaInv' /\ TrafficInv' /\ SentGrows /\ \A b \in Requests : ask'[b] = ask[b]
  BY MetaIsStill
<1>2. /\ ListingInv' /\ ListsFor(list'[a], list[a].range) /\ date' = date
      /\ \A b \in Requests \ {a} : list'[b] = list[b]
  BY SameProcesses, ListingStepInv, ListingRange DEF PagesInv
<1>3. UNCHANGED <<page, kept>>
  BY DEF pageVars
<1>4. list[a].step \in {"first", "pages"}
  BY DEF ListingStep, FirstPage, ReadPage, ListingFails, FinishListing
<1>5. ASSUME NEW b \in Requests PROVE Linked(page[b], ask'[b], list'[b])
  <2>1. Linked(page[b], ask[b], list[b])
    BY DEF PagesInv, PageInv
  <2>2. CASE b = a
    BY <1>1, <1>2, <1>4, <2>1, <2>2 DEF Linked, ListsFor
  <2>3. CASE b # a
    BY <1>1, <1>2, <2>1, <2>3
  <2> QED BY <2>2, <2>3
<1>6. PageInv'
  BY <1>1, <1>2, <1>3, <1>5, SamePages
<1> QED BY <1>1, <1>2, <1>6 DEF PagesInv

LEMMA TimeInv ==
    ASSUME PagesInv, MetaMoves
    PROVE  PagesInv'
<1>1. MetaInv' /\ UNCHANGED <<ask, ordersVars, pageVars>> /\ SentGrows /\ TrafficInv'
  BY MetaMovesInv DEF PagesInv
<1>2. ListingInv' /\ list' = list /\ date' = date /\ UNCHANGED <<page, kept>>
  BY <1>1, ListingKept DEF PagesInv, ordersVars, pageVars
<1>3. \A b \in Requests : Linked(page[b], ask'[b], list'[b])
  BY <1>1, <1>2 DEF PagesInv, PageInv
<1>4. PageInv'
  BY <1>1, <1>2, <1>3, SamePages
<1> QED BY <1>1, <1>2, <1>4 DEF PagesInv

LEMMA PagesNext == ASSUME PagesInv, [NextPages]_allVars PROVE PagesInv'
<1>1. CASE UNCHANGED allVars
  <2>1. UNCHANGED <<vars, ordersVars, page, kept>>
    BY <1>1 DEF allVars, pageVars
  <2>2. MetaInv' /\ TrafficInv' /\ SentGrows /\ \A b \in Requests : ask'[b] = ask[b]
    BY <2>1, MetaIsStill
  <2>3. ListingInv' /\ list' = list /\ date' = date
    BY <2>1, ListingKept DEF PagesInv, ordersVars
  <2>4. \A b \in Requests : Linked(page[b], ask'[b], list'[b])
    BY <2>2, <2>3 DEF PagesInv, PageInv
  <2>5. PageInv'
    BY <2>1, <2>2, <2>3, <2>4, SamePages
  <2> QED BY <2>2, <2>3, <2>5 DEF PagesInv
<1>2. CASE MetaMoves
  BY <1>2, TimeInv
<1>3. CASE PagesMove
  BY <1>3, ShopInv, ListingGoneInv, ForgetPageInv, AskInv, ListsInv, BeginAloneInv, FindPageInv,
     BeginTemplatesInv, BeginConversionsInv, BeginOrdersInv, PageStepInv DEF PagesMove
<1> QED BY <1>1, <1>2, <1>3 DEF NextPages

LEMMA PagesInit == InitPages => PagesInv
<1> SUFFICES ASSUME InitPages PROVE PagesInv
  OBVIOUS
<1>1. TrafficInv
  BY DEF InitPages, TrafficInv
<1>2. CacheInv
  <2>1. DOMAIN cache = {}
    BY DEF InitPages
  <2> QED BY <2>1 DEF CacheInv
<1>3. \A a \in Requests : AskOk(ask[a])
  <2>1. \A step \in {"idle", "failed"} : AskOk([NoAsk EXCEPT !.step = step])
    BY NoAskOk
  <2>2. NoAsk = [NoAsk EXCEPT !.step = "idle"]
    BY NoAskIsIdle
  <2>3. AskOk(NoAsk)
    BY <2>1, <2>2
  <2> QED BY <2>3 DEF InitPages
<1>4. MetaInv
  BY <1>1, <1>2, <1>3 DEF MetaInv, InitPages
<1>5. ListingInv
  <2>1. ListingOk(NoListing)
    BY NoListingOk
  <2>2. NoListing \in Listings
    BY <2>1 DEF ListingOk
  <2>3. DOMAIN listed = {}
    BY DEF InitPages
  <2>4. \A a \in Web : list[a] = NoListing
    BY DEF InitPages
  <2>5. list \in [Web -> Listings]
    BY <2>2 DEF InitPages
  <2> QED BY <2>1, <2>3, <2>4, <2>5 DEF ListingInv, InitPages
<1>6. PageInv
  <2>1. \A a \in Requests : page[a] = NoPage
    BY DEF InitPages
  <2>2. PageOk(NoPage) /\ \A r, l : Linked(NoPage, r, l)
    BY <1>1, NoPageOk, IdleLinked
  <2>3. ASSUME NEW k \in DOMAIN kept PROVE PageOk(kept[k]) /\ kept[k].step = "done" /\ kept[k].range = k
    <3>1. PICK p : p = kept[k]
      OBVIOUS
    <3>2. MadeBefore(p, k) /\ k \in Spans /\ k \in Ranges
      BY <3>1, PagesAssumption DEF InitPages
    <3>3. PICK t, z, c, o : t = p.templates /\ z = p.zeroed /\ c = p.current /\ o = p.past
      OBVIOUS
    <3>4. /\ t \in 0..Truth("multi", "new", k) /\ z \in BOOLEAN /\ c \subseteq InRange(k) /\ o \subseteq InRange(Past(k))
      BY <3>2, <3>3 DEF MadeBefore
    <3>5. t \in Nat /\ t <= Truth("multi", "new", k)
      <4>1. "new" \in Wabas
        BY DEF Wabas
      <4>2. Truth("multi", "new", k) \in Nat
        BY <1>1, <3>2, <4>1, TruthParts
      <4> QED BY <3>4, <4>2
    <3>6. p = [NoPage EXCEPT !.step = "done", !.entry = "skill", !.range = k,
                             !.templates = t, !.zeroed = z, !.current = c, !.past = o]
      BY <3>2, <3>3 DEF MadeBefore
    <3>7. p = [step |-> "done", entry |-> "skill", range |-> k, templates |-> t, zeroed |-> z,
               current |-> c, past |-> o]
      BY ONLY <3>6 DEF NoPage
    <3>8. c \subseteq Orders /\ o \subseteq Orders
      BY <3>4 DEF InRange
    <3>9. p \in PageRecords
      BY ONLY <3>2, <3>4, <3>5, <3>7, <3>8 DEF PageRecords
    <3>10. p.step = "done" /\ p.range = k /\ p.templates = t /\ p.current = c /\ p.past = o
      BY ONLY <3>7
    <3>11. PageOk(p)
      BY <3>4, <3>5, <3>9, <3>10 DEF PageOk
    <3> QED BY <3>1, <3>10, <3>11
  <2> QED BY <2>1, <2>2, <2>3 DEF PageInv, InitPages
<1> QED BY <1>4, <1>5, <1>6 DEF PagesInv

THEOREM PagesInvariant == PagesSpec => []PagesInv
BY PagesInit, PagesNext, PTL DEF PagesSpec
-----------------------------------------------------------------------------
(* What the runs check, for any number of processes, orders and days.      *)

\* An answer, made now or found in redis, counts each order it has seen once, and
\* only orders of the range asked for (OrdersService, from VtexOrdersRestClient.list).
THEOREM OrdersCountedOnce == PagesSpec => []CountedOnce
<1>1. PagesInv => CountedOnce
  <2> SUFFICES ASSUME PagesInv PROVE CountedOnce
    OBVIOUS
  <2>1. ASSUME NEW r \in Made PROVE r.sell = Cardinality(r.seen) /\ r.total = MapThenSumSet(LAMBDA o : o, r.seen)
    <3>1. PICK a \in Web : r = list[a]
      BY DEF Made
    <3>2. Counted(r)
      BY <3>1 DEF PagesInv, ListingInv, ListingOk
    <3> QED BY <3>2 DEF Counted, SumIds
  <2>2. ASSUME NEW k \in DOMAIN listed PROVE listed[k].seen \subseteq InRange(k)
    BY DEF PagesInv, ListingInv, ListingOk, Counted
  <2> QED BY <2>1, <2>2 DEF CountedOnce
<1> QED BY <1>1, PagesInvariant, PTL

\* A page, made now or kept in redis, is about one range, although the listing of
\* its orders narrows the filters from which the listing of the past period is made.
THEOREM PagesAreOfOneRange == PagesSpec => []PageIsOfOneRange
<1>1. PagesInv => PageIsOfOneRange
  <2> SUFFICES ASSUME PagesInv PROVE PageIsOfOneRange
    OBVIOUS
  <2>1. \A a \in Requests : PageOk(page[a])
    BY DEF PagesInv, PageInv
  <2>2. \A k \in DOMAIN kept : PageOk(kept[k])
    BY DEF PagesInv, PageInv
  <2> QED BY <2>1, <2>2 DEF PageIsOfOneRange, PageOk
<1> QED BY <1>1, PagesInvariant, PTL

\* The points of an answer add up to its total, unless redis had a part without them.
THEOREM PointsAddUpAlways == PagesSpec => []PointsAddUp
<1>1. PagesInv => PointsAddUp
  <2> SUFFICES ASSUME PagesInv, NEW a \in Requests, ask[a].step = "done"
               PROVE  /\ DOMAIN ask[a].answer.points \subseteq DaysOf(ask[a].range)
                      /\ Total(ask[a].answer.points) = ask[a].answer.total \/ ask[a].answer.bare
    BY DEF PointsAddUp
  <2>1. Answered(ask[a])
    BY DEF PagesInv, MetaInv, AskOk
  <2> QED BY <2>1 DEF Answered, Reply
<1> QED BY <1>1, PagesInvariant, PTL

\* The totals answered are the traffic of both WABAs of a number in the range, each
\* message once, whichever parts came from redis, and whatever was skipped or sent
\* in the meantime (get_messages_analytics and merge_messages_analytics).
THEOREM TotalsAreTrafficAlways == PagesSpec => []TotalsAreTraffic
<1>1. PagesInv => TotalsAreTraffic
  <2> SUFFICES ASSUME PagesInv, NEW a \in Requests, ask[a].step = "done"
               PROVE  /\ ask[a].answer.total <= Truth(ask[a].entry, ask[a].waba, ask[a].range)
                      /\ \/ ask[a].floor <= ask[a].answer.total
                         \/ ask[a].entry = "multi" /\ (ask[a].skipped \/ ask[a].answer.bare)
    BY DEF TotalsAreTraffic
  <2>1. Answered(ask[a])
    BY DEF PagesInv, MetaInv, AskOk
  <2> QED BY <2>1 DEF Answered, Asks
<1> QED BY <1>1, PagesInvariant, PTL
LEMMA MissedOk ==
    ASSUME date \in [Orders -> Int], NEW r, ListingOk(r), r.step = "done",
           NEW missed, missed = Min({Cardinality(r.had), MaxPages * PageSize}) - Cardinality(r.seen \cap r.had)
    PROVE  /\ missed <= r.again + r.late
           /\ r.late = 0 /\ Spread(r.had) => missed <= Cardinality(AtCuts(r))
<1>1. r \in Listings /\ Ended(r) /\ Once(r)
  BY DEF ListingOk
<1>2. r.seen \subseteq Orders /\ r.had \subseteq Orders /\ r.again \in Nat /\ r.late \in Nat
  BY <1>1 DEF Listings
<1>3. PICK m \in Nat, n \in Nat : m = Cardinality(r.had) /\ n = MaxPages * PageSize
  BY <1>2, OrdersAreFew, OrdersAssumption
<1>4. PICK both, other : both = r.seen \cap r.had /\ other = r.seen \ r.had
  OBVIOUS
<1>5. /\ Cardinality(both) \in Nat /\ Cardinality(other) \in Nat
      /\ Cardinality(r.seen) = Cardinality(both) + Cardinality(other)
  <2>1. both \subseteq r.seen /\ other = r.seen \ both
    BY <1>4
  <2>2. IsFiniteSet(r.seen)
    BY <1>2, OrdersAreFew
  <2> QED BY <2>1, <2>2, CardMinus
<1>6. missed = (IF m <= n THEN m ELSE n) - Cardinality(both)
  <2>1. Min({m, n}) = IF m <= n THEN m ELSE n
    BY LesserOfTwo
  <2> QED BY <1>3, <1>4, <2>1
<1>7. m <= Reads(r) \/ n <= Reads(r)
  BY <1>1, <1>3 DEF Ended
<1>8. Reads(r) = Cardinality(both) + Cardinality(other) + r.again
  BY <1>5 DEF Reads
<1>9. Cardinality(other) <= r.late
  BY <1>1, <1>4 DEF Ended
<1>10. missed <= r.again + r.late /\ missed \in Int
  BY <1>2, <1>5, <1>6, <1>7, <1>8, <1>9
<1>11. ASSUME r.late = 0, Spread(r.had) PROVE missed <= Cardinality(AtCuts(r))
  <2>1. r.again <= Cardinality(AtCuts(r)) /\ Cardinality(AtCuts(r)) \in Nat
    BY <1>1, <1>11, CutsNumbers DEF Once
  <2> QED BY <1>2, <1>10, <1>11, <2>1
<1> QED BY <1>10, <1>11

\* An answer about orders misses no more of those there were than it has read twice
\* and were invoiced meanwhile, and if none was and no window is filled by orders of
\* one date, no more than those of the dates at which a window ended: orders are read
\* again only there, each once.
THEOREM FewAreMissed == PagesSpec => []MissedBounded
<1>1. PagesInv => MissedBounded
  <2> SUFFICES ASSUME PagesInv, NEW r \in Made,
                      NEW missed, missed = Min({Cardinality(r.had), MaxPages * PageSize}) - Cardinality(r.seen \cap r.had)
               PROVE  /\ missed <= r.again + r.late
                      /\ r.late = 0 /\ Spread(r.had) =>
                           missed <= Cardinality({o \in r.had : date[o] \in r.cuts})
    BY DEF MissedBounded
  <2>1. PICK a \in Web : r = list[a] /\ r.step = "done"
    BY DEF Made
  <2>2. ListingOk(r) /\ date \in [Orders -> Int]
    BY <2>1, LayoutType DEF PagesInv, ListingInv
  <2>3. AtCuts(r) = {o \in r.had : date[o] \in r.cuts}
    BY DEF AtCuts
  <2> QED BY <2>1, <2>2, <2>3, MissedOk
<1> QED BY <1>1, PagesInvariant, PTL
=============================================================================
