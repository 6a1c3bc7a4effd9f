\* One order may hold two copies.
CONSTANTS
    Holdings = {h1, h2}
    Orders = {o1}
    None = None
    MaxListings = 1
    MaxLines = 2
    Ingesters = {i1, i2}
    Crashes = FALSE
SPECIFICATION FairSpec
PROPERTY EveryLineRecorded
