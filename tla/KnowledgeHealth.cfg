\* Two threads, two topics and a source, an edit and three requests; one topic may fail
\* to be read.
SPECIFICATION Spec
CONSTANTS
    None = None
    Threads = {h1, h2}
    t1 = t1
    t2 = t2
    src = src
    c1 = c1
    c2 = c2
    Topics = {t1, t2}
    Sources = {src}
    Texts <- MCTexts
    Unreadable = {t1}
    Reviews = {r1}
    Verdicts = {"resolved", "open"}
    MaxEdits = 1
    MaxRequests = 3
    MaxVersion = 3
SYMMETRY Symmetry
CHECK_DEADLOCK FALSE
INVARIANTS NoDecisionLost EveryGapSignalled FoundUnlessLateOrUnread
