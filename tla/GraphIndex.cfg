\* Two files, one client of either stream, a refresh by a request.
SPECIFICATION FairSpec
CONSTANTS
    None = None
    NumFiles = 2
    Clients = {c}
    Requests = {r}
    QueueCap = 1
    MaxEdits = 1
    MaxNodeEvents = 1
    MaxFaults = 1
INVARIANTS NoEditForgotten QuietMeansCurrent
PROPERTIES IndexNeverBack GraphNeverBack IndexFollows
