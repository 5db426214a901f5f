\* Three requests and two reloaders that add sites, one of them unusable.
SPECIFICATION FairSpec
CONSTANTS
    Conns = {r1, r2}
    Reloaders = {w, a}
    Domains = {"shop.org", "blog.org"}
    Names = {"shop", "blog"}
    Upstreams = {"u1", "u2", "bad"}
    Parsable = {"u1", "u2"}
    None = None
    Configs <- Growing
    Initial <- Start
    Verdicts = {"allow", "block", "challenge", "rate_limit"}
    Dev = FALSE
    MaxRequests = 3
    MaxReloads = 2
INVARIANTS Accounted OnlyPassedForwarded ServedAtOnce ProxiesSound
PROPERTY RequestsAnswered
