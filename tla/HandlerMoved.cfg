\* A reload changes the upstream of a site.
SPECIFICATION Spec
CONSTANTS
    Conns = {r1, r2}
    Reloaders = {w}
    Domains = {"shop.org", "blog.org"}
    Names = {"shop", "blog"}
    Upstreams = {"u1", "u2", "bad"}
    Parsable = {"u1", "u2"}
    None = None
    Configs <- Moving
    Initial <- Start
    Verdicts = {"allow", "block", "challenge", "rate_limit"}
    Dev = FALSE
    MaxRequests = 3
    MaxReloads = 1
INVARIANT ForwardedAsConfigured
