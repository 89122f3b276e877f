------------------------ MODULE MCTemplatesAndOrders ------------------------
(***************************************************************************)
(* The instance of TemplatesAndOrders that TLC checks.  A behaviour starts *)
(* with nothing sent and a shop whose orders are all of long ago, and is   *)
(* about the templates; or on the last day, with its messages sent and     *)
(* some orders of those days not invoiced yet, and is about the orders.    *)
(***************************************************************************)
EXTENDS TemplatesAndOrders, Sequences

AllOrders == 1..7
LongAgo == [o \in AllOrders |-> -9]

\* Six orders in the three days, seven, and five with four in the period before.
SomeLayouts == {LongAgo, <<0, 1, 1, 2, 2, 3, 3>>, <<1, 1, 2, 2, 2, 3, 3>>, <<-1, 0, 1, 1, 2, 2, 3>>}

SomeSpans == {[start |-> 1, end |-> 3], [start |-> 2, end |-> 2]}

InitTemplates ==
    /\ Init /\ list = [a \in Web |-> NoListing] /\ listed = <<>>
    /\ date = LongAgo /\ invoiced = Orders
    /\ page = [a \in Requests |-> NoPage] /\ kept = <<>>
    /\ open = [alone |-> TRUE, pages |-> 1]

\* The messages are sent; redis may have the page of the abandoned cart.
InitOrders ==
    /\ today = MaxDay /\ migrated = 1 /\ cloned = FALSE
    /\ sent = [w \in Wabas |-> [d \in Days |-> IF w = "new" THEN MaxSent ELSE 0]]
    /\ cache = <<>> /\ ask = [a \in Requests |-> NoAsk]
    /\ list = [a \in Web |-> NoListing] /\ listed = <<>>
    /\ date \in Layouts \ {LongAgo}
    /\ \E late \in SUBSET Orders : Cardinality(late) <= MaxLate /\ invoiced = Orders \ late
    /\ page = [a \in Requests |-> NoPage] /\ open = [alone |-> FALSE, pages |-> 1]
    /\ kept \in {<<>>, [r \in {[start |-> 1, end |-> 3]} |->
                          [NoPage EXCEPT !.step = "done", !.entry = "skill", !.range = r,
                                         !.templates = 3, !.current = Listable(r),
                                         !.past = Listable(Past(r))]]}

\* Of steps that commute one order is enough: Meta and the clock move before a page
\* goes on to its orders, which do not depend on them.
MCNext ==
    \/ (\A a \in Requests : page[a].step \in {"idle", "templates"}) /\ MetaMoves
    \/ PagesMove

MCSpec == (InitTemplates \/ InitOrders) /\ [][MCNext]_allVars
=============================================================================
