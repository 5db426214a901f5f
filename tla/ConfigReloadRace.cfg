\* A reload request races with the watcher.
SPECIFICATION FairSpec
CONSTANTS
    Watcher = watcher
    Admins = {a1}
    Clients = {}
    Names = {"shop", "blog"}
    Upstreams = {"u1", "u2"}
    Initial <- OneSite
    Edits <- OperatorEdits
    MaxSites = 2
    MaxEdits = 1
    MaxRequests = 1
PROPERTY ConvergesToFile
