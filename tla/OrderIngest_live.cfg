\* Orders of one line each, and no call dies.
CONSTANTS
    Holdings = {h1, h2}
    Orders = {o1, o2}
    None = None
    MaxListings = 1
    MaxLines = 1
    Ingesters = {i1, i2}
    Crashes = FALSE
SPECIFICATION FairSpec
PROPERTIES EveryLineRecorded RecordedSaleCompletes
