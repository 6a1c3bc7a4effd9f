\* Two drafts of two copies, and two lot requests, which may die.
CONSTANTS
    Holdings = {h1, h2}
    Orders = {}
    None = None
    MaxListings = 1
    MaxLines = 0
    Drafters = {d1, d2}
    Lots = {l1, l2}
    LotRequests = {r1, r2}
    MinMembers = 2
SPECIFICATION Spec
SYMMETRY DraftSymmetry
INVARIANTS TypeOK AnsweredRejectionFrees
PROPERTY DraftKeepsIds
VIEW LiveState
