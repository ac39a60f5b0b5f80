SPECIFICATION FairSpec
CONSTANTS
    c1 = c1
    c2 = c2
    s1 = s1
    s2 = s2
    stranger = stranger
    NoSuggestion = NoSuggestion
    NoMapping = NoMapping
    Saves <- MC_Two
    Suggestions <- MC_Suggestions
    Strangers <- MC_Strangers
    Batches <- MC_Mixed
    MaxRows = 2
INVARIANTS SavedIsLinked AllOrNothing ResendIsSafe
PROPERTIES SavesEnd CommitIsVisible
