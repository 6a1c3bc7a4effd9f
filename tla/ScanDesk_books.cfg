\* One import of two images, or two imports of one, and the operator's requests.
CONSTANTS
    Images = {i1, i2}
    Batches = {b1, b2}
    Requests = {r1}
    Cards = {c1}
    Typed = Typed
    None = None
    MaxAssets = 4
    Crashes = TRUE
    Vaulted = {}
    MaxUnits = 2
    ReadsFail = FALSE
    MaxAsked = 2
SPECIFICATION Spec
SYMMETRY DeskSymmetry
INVARIANTS TypeOK BooksAgree ClosedHidesNothing SameImageOnceByItself
PROPERTY ConfirmedForGood
\* Every import may be over and every request made.
CHECK_DEADLOCK FALSE
