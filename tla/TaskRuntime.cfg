CONSTANTS
    None = None
    Requests = {r1}
    Clients = {c1, c2}
    MaxVersion = 7
    MaxCrashes = 2
SPECIFICATION FairSpec
INVARIANT SearchHasWorker
PROPERTIES StartedWithContext MovesWhatItSaw SearchEnds
