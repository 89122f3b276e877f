\* A request at a time, two facts recorded, one editor, one fault.
SPECIFICATION LiveSpec
CONSTANTS
    Clients = {c1}
    Editors = {e1}
    Topics <- SomeTopics
    Subtopics <- SomeSubtopics
    TopicOf <- TopicOfSubtopic
    None <- NoTopic
    Conversations <- SomeConversations
    Types = {"ai"}
    Ratings <- SomeRatings
    MaxRecorded = 2
    MaxFaults = 1
INVARIANTS TopicsAddUp PartsAgree AnswersAreOwn
PROPERTIES TopicsAreNamed
