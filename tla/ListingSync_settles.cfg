\* Two syncs of one row at once, while its listing ends, sells and comes back; eBay
\* answers sooner or later.
CONSTANTS
    Holdings = {h1}
    Orders = {o1}
    None = None
    MaxListings = 3
    MaxLines = 1
    Syncers = {s1, s2}
    Crashes = TRUE
SPECIFICATION SyncFairSpec
INVARIANT SyncTypeOK
PROPERTIES OnlyNewListingsRevive RowSettles
