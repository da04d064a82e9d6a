SPECIFICATION FairSpec
CONSTANTS
    Root <- Home
    Urls <- MCUrls
    Hrefs <- MCHrefs
    FormLists <- MCForms
    Xhrs <- MCXhrs
    IdSegments = {"1", "2", "3"}
    MaxPages = 3
    Personas = {alice}
    Anonymous = anonymous
    RuleSets <- MCRuleSets
    Hosts <- MCHosts
INVARIANTS
    TypeOK
    OnlyScopedPagesOpened
    RequestsBounded
    DiffIsExact
    OneAssetPerHost
PROPERTIES
    CrawlsEnd
\* The mapping phase ends the work of this milestone.
CHECK_DEADLOCK FALSE
