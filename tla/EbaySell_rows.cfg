\* A publish and a sync of one copy while a lot is accepted or rejected and the
\* operator sets dispositions.
CONSTANTS
    Holdings = {h1}
    Orders = {}
    None = None
    MaxListings = 1
    MaxLines = 1
    Publishers = {p1}
    MaxRetries = 0
    Ingesters = {}
    Crashes = TRUE
    Drafters = {}
    Lots = {l1}
    LotRequests = {r1}
    MinMembers = 1
    Syncers = {s1}
    Recommended = {"SINGLE", "HOLD"}
SPECIFICATION Spec
CHECK_DEADLOCK FALSE
INVARIANTS ListedRowsAreReal ListedPathWasIssued
VIEW LiveState
