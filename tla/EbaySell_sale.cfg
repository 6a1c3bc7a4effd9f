\* A draft, a publish and an ingest of one copy, listed up to twice; calls may die.
CONSTANTS
    Holdings = {h1}
    Orders = {o1}
    None = None
    MaxListings = 2
    MaxLines = 1
    Publishers = {p1}
    MaxRetries = 0
    Ingesters = {i1}
    Crashes = TRUE
    Drafters = {d1}
    Lots = {}
    LotRequests = {}
    MinMembers = 1
    Syncers = {}
    Recommended = {}
SPECIFICATION Spec
CHECK_DEADLOCK FALSE
INVARIANTS TypeOK ListedRowsAreReal SalesArePaid
VIEW LiveState
