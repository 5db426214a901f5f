\* The operator and a client of the site handlers change the file, the watcher
\* follows.
SPECIFICATION FairSpec
CONSTANTS
    Watcher = watcher
    Admins = {}
    Clients = {c1}
    Names = {"shop", "blog"}
    Upstreams = {"u1", "u2"}
    Initial <- OneSite
    Edits <- OperatorEdits
    MaxSites = 2
    MaxEdits = 2
    MaxRequests = 2
PROPERTY ConvergesToFile
