\* Two ingests of two copies, sold as one order or as two, dying anywhere.
CONSTANTS
    Holdings = {h1, h2}
    Orders = {o1, o2}
    None = None
    MaxListings = 1
    MaxLines = 2
    Ingesters = {i1, i2}
    Crashes = TRUE
SPECIFICATION Spec
SYMMETRY IngestSymmetry
INVARIANTS TypeOK SoldIsPaid OneObservationPerLine
PROPERTY KeepsLedger
