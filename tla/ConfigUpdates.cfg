\* Two API clients, the watcher, a reload request and an operator.
SPECIFICATION FairSpec
CONSTANTS
    Watcher = watcher
    Admins = {a1}
    Clients = {c1, c2}
    Names = {"shop"}
    Upstreams = {"u1"}
    Initial <- OneSite
    Edits <- SameSite
    MaxSites = 2
    MaxEdits = 1
    MaxRequests = 3
INVARIANTS FileStaysLoadable 
PROPERTY CallsReturn
