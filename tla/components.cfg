SPECIFICATION ComponentsSpec
CONSTANTS
    Handlers = {h1, h2}
    MaxTokens = 2
    MaxPauses = 2
    Reasons = {"target unreachable"}
    Calls = {e1, e2}
    Personas = {alice}
    Anonymous = anonymous
    MaxRetries = 2
    Faults = {"redis", "store"}
    Sessions = {s1, s2}
    MaxReproductions = 2
    Callers = {c1, c2}
    Limit = 5
    MaxUsage = 2
    Processes = {p1, p2}
    Exchanges <- MCExchanges
    Times = {t1, t2}
    MaxRecords = 3
    Logins = {w1, w2}
    Recipes <- MCRecipes
    Sites <- MCSites
    StartHost <- MCStartHost
    Jars <- MCJars
    ShortTexts = {"hi"}
    PartOf <- MCPartOf
    Throttling = TRUE
    RootDomain = "www.acme.test"
    HostOrder <- MCHostOrder
    MAX_CANDIDATE_HOSTS = 2
INVARIANTS
    TypeOK
    ScannableIsProven
    VerifiedMatchesToken
    PausePointKnown
    NoStageSkipped
    EngineTypeOK
    SentWithinPolicy
    EvidenceMatchesOutcome
    BackpressureHeard
    GateHasThreeGaps
    SpendBounded
    DearTierBounded
    AnswersAreCharged
    ReceiptsLoad
    OracleInRowTellsApart
    RowTellsLastLogin
    ReconHonest
\* Logins, recon phases and scans that have ended stop for good.
CHECK_DEADLOCK FALSE
