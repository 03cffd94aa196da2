SPECIFICATION SubsystemsSpec
CONSTANTS
    NsThreads = {t1, t2}
    NsNames = {"n"}
    NsSpellings = {"n", "N", "blank"}
    NsCanon <- MCCanon
    NsAuthorities = {"gov", "ann"}
    NsGovernor = "gov"
    NsDefault = "ann"
    NsMaxLog = 3
    WlOps = {"a", "b", "c"}
    WlScopes = {"s1", "s2"}
    WlDecls <- MCDecls
    WlNone = WlNone
    WlMaxCalls = 1
    CtThreads = {t1, t2}
    CtIds = {"c1"}
    CtHeights = {2}
    CtMaxReceipts = 6
    AmProcs = {p1, p2}
    AmLaws = {"l0", "l1"}
    AmLegs = {"g0", "g1"}
    AmLaw0 = "l0"
    AmLaw1 = "l1"
    AmLeg0 = "g0"
    AmRecords <- MCRecords
    AmMaxLen = 3
    TrThreads = {t1, t2}
    TrNonces = {"n1"}
    TrMaxCalls = 2
    TrMaxKernels = 3
    TrMaxChain = 2
    CshValidators = {"v1", "v2", "v3", "v4"}
    CshFaulty = {"v4"}
    CshStrangers = {"x"}
    CshHashes = {"h1", "h2"}
    CshEpochs = {0}
    CshMaxMcirs = 2
    PvAuthorities = {"a", "b"}
    PvCaps = {"c"}
    PvRegistrable <- MCEdges
    PvMaxTime = 1
    PvMaxWrites = 1
    PvMaxChanges = 3
    ScCands <- MCCands
    ScSeed <- MCSeed
    ScCapacity = 4
    ScBatches <- MCBatches
    ScMaxLog = 3
    ScMaxQueue = 1
    RlArchives <- MCArchives
    RlRequired = {"t"}
    RlMembers <- MCMembers
    RlKind <- MCKind
    RlTool <- MCTool
    RlEnvs = {"e"}
    RlScratches = {"s1"}
    RlPriors <- MCPriors
    RlWorktrees <- MCWorktrees
    RlDeclared = {"u"}
    RlNone = RlNone
    RlMaxRuns = 2
    FrCertified = {"x", "h"}
    FrFailures = {{}, {"conformance"}}
    FrContents = {"z", "h", "x", "y"}
    FrUgk <- MCUgk
    FrHolds <- MCHolds
    FrContaminated = {"z"}
    FrSurfaces <- MCSurfaces
    FrAttestations <- MCAttestations
    FrCorpora <- MCCorpora
    FrNone = FrNone
    FrMaxRuns = 2
    RdMaxJobs = 2
    DpProcs = {p1, p2}
    DpKeys = {"k1", "k2"}
    DpFixture = "dev"
    DpMaxStarts = 4
INVARIANTS
    SubsystemsTypeOK
    NsDelegatesOfHolder
    WlRevokedNeverSeeds
    AmPassedThroughout
    TrNonceOnce
    TrAnswerCovers
    CshAgreement
    PvAttenuated
    ScDependentOrderKept
    ScPrioritySettled
    RlPassEarned
    FrPassEarned
    RdPassIsOwn
    DpQuorumIsOwn
PROPERTIES
    NsOnlyHolderActs
    NsRevocationPermanent
    CtSettledNotReentered
    PvWitnessOfRoot
    PvVerdictMonotone
CHECK_DEADLOCK FALSE
