--------------------------- MODULE MCHumanSupport ---------------------------
(* An instance of HumanSupport: two sectors, a queue in each, and two tags  *)
(* of the first.                                                            *)
EXTENDS HumanSupport

TwoSectors == {"north", "south"}
TwoQueues == {"sales", "support"}
TwoTags == {"bill", "visit"}
SectorOfName == [x \in TwoQueues \cup TwoTags |-> IF x = "support" THEN "south" ELSE "north"]
AgentSectors == [a \in Agents |-> IF a = 1 THEN "north" ELSE "south"]

Missing == -9
AroundUtc == {-1, 1}

Choice(sectors, queues, tags, start, end) ==
    [sectors |-> sectors, queues |-> queues, tags |-> tags, start |-> start, end |-> end]

Anything == Choice({}, {}, {}, Missing, Missing)
WholeDays == Choice({"__all__"}, {}, {}, 0, 1)
HalfDated == Choice({"north", "south"}, {"__all__"}, {}, 1, Missing)
BothTags == Choice({}, {}, TwoTags, Missing, Missing)
AnyTag == Choice({}, {}, {"__all__"}, Missing, Missing)
EveryTag == Choice({}, {"sales"}, {"__all__"}, Missing, 0)

AskedOfChats ==
    ({"attendance", "analysis"} \X {Anything, WholeDays, BothTags})
    \cup ({"attendance"} \X {AnyTag})
    \cup ({"ongoing", "finished"} \X {Anything, HalfDated})
    \cup ({"time_metrics", "csat_ratings", "csat_score"} \X {Anything, HalfDated})
    \cup ({"awaiting", "agents", "agents_v2", "status"} \X {Anything})
    \cup ({"finished_v2"} \X {EveryTag})
    \cup ({"status_v2", "analysis_status", "analysis_status_v2"} \X {WholeDays})
OneOfEach == {"south", "sales", "bill"}
=============================================================================
