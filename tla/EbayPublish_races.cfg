\* Two requests publish one holding while the seller may end its listing.
CONSTANTS
    Holdings = {h1}
    Orders = {}
    None = None
    MaxListings = 2
    MaxLines = 0
    Publishers = {p1, p2}
    MaxRetries = 1
SPECIFICATION Spec
SYMMETRY PublishSymmetry
INVARIANTS TypeOK IdsAreReal UnhinderedPublishes
PROPERTY NoSecondListing
