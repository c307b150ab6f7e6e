SPECIFICATION JobsSpec
CONSTANTS
    Sides = {"rows"}
    ItemCount = 3
    StartLimit = 2
    KillLimit = 1
    JobsRun <- MCClassify
    TopicPairs <- MCTopicPairs
    Asked <- MCAsked
    Pairs <- MCPairs
    Generators <- MCGenerators
    PerCall = 2
    FailureLimit = 1
    Drafts <- MCDrafts
    Webs = {"8765"}
    Threads = {"t1", "t2"}
    ReviewLimit = 3
    ReviewStarts = 2
    ReviewKills = 1
CHECK_DEADLOCK FALSE
INVARIANT CrashIsResumable
