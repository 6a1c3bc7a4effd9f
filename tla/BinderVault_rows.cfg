\* Two requests at once on two pages of one pocket, one page more to be made.
CONSTANTS
    p1 = p1
    p2 = p2
    p3 = p3
    b1 = b1
    b2 = b2
    c1 = c1
    c2 = c2
    u1 = u1
    r1 = r1
    r2 = r2
    NoCard = NoCard
    NoBinder = NoBinder
    Pages = {p1, p2, p3}
    BinderOf <- MCBinderOf
    SizeOf <- MCSizeOf
    Cards = {c1, c2, u1}
    Uploads = {u1}
    Requests = {r1, r2}
    FirstPages = {p1, p2}
    FirstPocket <- MCFirstPocket
    Elsewhere = {c2}
    MaxEdits = 3
SPECIFICATION Spec
INVARIANTS TypeOK RowsWereMarked UnhinderedMirrors
SYMMETRY Symmetric
\* Requests are bounded.
CHECK_DEADLOCK FALSE
