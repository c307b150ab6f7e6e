SPECIFICATION CorpusSpec
CONSTANTS
    Sources <- MCSources
    Wanted = {}
    Tiers <- MCTiers
    MaxSources = 2
    Urls <- MCUrls
    Homepage = "home"
    Named <- MCNamed
    SameSite <- MCSameSite
    Links <- MCLinks
    Serves <- MCServes
    MaxDepth = 2
    MaxPdfDepth = 3
    MaxPages = 4
    MaxSourceFetches = 6
    CrawlRuns = 3
    CrawlKills = 1
    Registry <- MCRegistry
    TierMax = 5
    SyncEvery = 2
    SourceLimit = 0
    DocLimit = 2
    BatchRuns = 3
    BatchKills = 1
    Teachings <- MCTeachings
    Near <- MCNear
    RecordLimit = 1
    Curriculum <- MCCurriculum
    FirstContracts <- MCFirst
    Gold <- MCGold
    Seeds <- MCSeeds
    HardNegativeLimit = 1
    DialogueLimit = 1
    MinBucket <- MCMinBucket
    HeldOutOf = 4
    BuildLimit = 3
    BuildKills = 1
    RawFiles <- MCRawFiles
    SliceTargets <- MCSliceTargets
    ReplaySize = 2
    RefusalCap <- MCRefusalCap
    SliceHeldOutOf = 3
    RagRows <- MCRagRows
    DialogueRecords <- MCDialogueRecords
    ReplayRows <- MCReplayRows
    RagRepeat = 2
    ReplayCount = 1
    BigBucket = 3
    MixHeldOutOf = 4
    GuardItems <- MCGuardItems
    LowCoverage <- MCLowCoverage
    GuardSize = 6
CHECK_DEADLOCK FALSE
INVARIANTS CrawlsAreSound  MixesAreSound
PROPERTY SetsAreSound
