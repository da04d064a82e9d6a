SPECIFICATION Spec
CONSTANTS
    Root <- Home
    Urls <- MCUrls
    Hrefs <- MCHrefs
    FormLists <- MCForms
    Xhrs <- MCXhrs
    IdSegments = {"1", "2", "3"}
    MaxPages = 2
    Personas = {alice}
    Anonymous = anonymous
    RuleSets <- HostRuleSets
    Hosts <- MCHosts
INVARIANTS
    ExcludeRulesHold
\* The mapping phase ends the work of this milestone.
CHECK_DEADLOCK FALSE
