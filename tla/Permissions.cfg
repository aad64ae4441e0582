CONSTANTS
    p1 = p1
    p2 = p2
    p3 = p3
    r1 = r1
    r2 = r2
    Permissions = {p1, p2, p3}
    Runs = {r1, r2}
    RunOf <- RunOfPermission
SPECIFICATION FairBroker
INVARIANTS NoUnapprovedCommand VerdictsRecorded
PROPERTY RequestsEnd
CHECK_DEADLOCK FALSE
