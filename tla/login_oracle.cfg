SPECIFICATION LoginSpec
CONSTANTS
    Logins = {w1}
    Recipes <- MCRecipes
    Sites <- IndentedSites
    StartHost <- MCStartHost
    Jars <- MCJars
    ShortTexts = {"hi"}
    PartOf <- MCPartOf
    Throttling = FALSE
INVARIANTS
    OracleTellsApart
\* Every login ends.
CHECK_DEADLOCK FALSE
