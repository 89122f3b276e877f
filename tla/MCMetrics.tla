------------------------------ MODULE MCMetrics ------------------------------
(* Instance of ConversationMetrics for TLC.                                  *)
EXTENDS ConversationMetrics

Classified(p, c, t, s) ==
    [of |-> "conversation", contact |-> p, class |-> c, topic |-> t, subtopic |-> s]
Rated(a, k, l, n) ==
    [of |-> "rating", agent |-> a, key |-> k, label |-> l, amount |-> n]

SomeTopics == {"orders", "refunds"}
SomeSubtopics == {"late"}
TopicOfSubtopic == [s \in SomeSubtopics |-> "orders"]
NoTopic == "none"

SomeConversations ==
    {Classified("ana", "unresolved", "orders", "late"),
     Classified("ana", "resolved", "orders", NoTopic),
     Classified("rui", "human", "refunds", NoTopic)}

SomeRatings ==
    {Rated("bot", "weni_csat", "5", 0), Rated("bot", "weni_csat", "zz", 0),
     Rated("aide", "weni_csat", "1", 0),
     Rated("bot", "weni_nps", "10", 0), Rated("bot", "weni_nps", "7", 0),
     Rated("aide", "weni_nps", "11", 0),
     Rated("bot", "agent_invocation", "sell", 0), Rated("aide", "agent_invocation", "sell", 0),
     Rated("bot", "tool_result", "found", 0), Rated("aide", "tool_result", "lost", 0),
     Rated("bot", "search_terms", "shoes", 1), Rated("bot", "search_terms", "none", 0),
     Rated("bot", "added_to_cart", "shoes", 3), Rated("aide", "search_terms", "hats", 2)}
==============================================================================
