SPECIFICATION PlansSpec
CONSTANTS
    Blobs <- ThreeBlobs
    Artifacts <- TwoArtifacts
    References <- ArtifactReferencesOf
    BlobBytes <- TwoBytesEach
    MaxDamaged = 1
    Packages <- ThreePackages
    Signers = {"k1", "k2"}
    RecoveryKeys <- OneRecoveryKey
    MaxVersions = 2
    Releases <- FourReleases
    MaxUnreadable = 1
    Installable <- ThreeInstallable
    Capabilities = {"http", "storage"}
    MaxInstalled = 2
    MaxHistory = 4
    MaxCandidates = 6
    MaxDepth = 2
    MaxNodes = 5
    MaxEdges = 6
    Catalog <- MCCatalog
    Stacks <- MCStacks
    MaxTotal = 2
    MaxSurge = 2
    Balanced = {"clock"}
    MaxBroken = 1
    Processes = {p1, p2}
    Workloads <- MCWorkloads
    Attempts = 1
    MaxEvents = 2
    MaxWrites = 3
    MaxFaults = 1
    MaxDamage = 1
INVARIANTS
    RootsSurvive
    PublishedStays
    SelectionSurvives
    LibrarySurvives
    LaunchesAreAllowed
    
    PlansStayVerifiable
    SavedStays
    
\* A process that is refused the lock and a library that is complete stop.
CHECK_DEADLOCK FALSE
