----------------------------- MODULE WafHandler -----------------------------
(***************************************************************************)
(* wafHandler of cmd/proxy/main.go: what happens to a request between the  *)
(* listener and the upstream, while the configuration is reloaded.         *)
(*                                                                         *)
(* A request reads the live configuration, selects a site, is inspected    *)
(* unless the site's WAF is off, is counted, and is forwarded through the  *)
(* reverse proxy kept for the site's NAME.  A reload first makes the new   *)
(* configuration live and then, in the OnChange callback, builds proxies   *)
(* for names it has not seen.  Both hold h.mu for that: the mutex is taken *)
(* in one step, and what it guards is done and the mutex released in the   *)
(* next.                                                                   *)
(*                                                                         *)
(* The verdict of the engine is an input (module Engine), the sequence of  *)
(* configurations that Reload makes live too (module ConfigManager).       *)
(***************************************************************************)
EXTENDS Integers, Sequences, FiniteSets

CONSTANTS Conns,        \* connections; each carries one request at a time
          Reloaders,    \* goroutines that call Reload
          Domains,      \* host names of requests
          Names,        \* site names
          Upstreams,    \* upstream addresses of sites
          Parsable,     \* the upstreams url.Parse accepts
          None,         \* no proxy, no site, no upstream
          Configs,      \* configurations a Reload may bring
          Initial,      \* the configuration at start
          Verdicts,     \* what InspectRequest may return
          Dev,          \* wafHandler.dev
          MaxRequests,  \* bound on the requests that arrive
          MaxReloads    \* bound on the reloads

Site == [name : Names, domains : SUBSET Domains, upstream : Upstreams,
         waf : BOOLEAN]

ASSUME HandlerAssumption ==
    /\ Configs \subseteq Seq(Site) /\ Initial \in Seq(Site)
    /\ Parsable \subseteq Upstreams
    /\ None \notin Upstreams /\ None \notin Site
    /\ None \notin Configs /\ None # Initial
    /\ Dev \in BOOLEAN
    /\ Verdicts \subseteq {"allow", "block", "challenge", "monitor",
                           "rate_limit", "error"}
    /\ IsFiniteSet(Conns)
    /\ Conns \cap Reloaders = {} /\ None \notin Conns \cup Reloaders
    /\ MaxRequests \in Nat /\ MaxReloads \in Nat

VARIABLES
    config,     \* the live configuration
    proxies,    \* h.proxies: the upstream of the proxy of each name
    callback,   \* the configuration each reloader passes to OnChange, or None
    mu,         \* holder of h.mu, or None
    reloads,    \* how many reloads there have been
    pc,         \* where the request of each connection is
    site,       \* the site it has selected
    verdict,    \* the verdict it got
    target,     \* the upstream it was sent to
    total,      \* totalRequests
    active,     \* activeConns
    counts,     \* blockedRequests, allowedRequests, challengedReqs, ...
    uncounted,  \* history: requests that leave no trace in counts
    known       \* history: what the configurations said: <<name, upstream>>

reqVars == <<pc, site, verdict, target>>
statVars == <<total, active, counts, uncounted>>
vars == <<config, proxies, callback, mu, reloads, reqVars, statVars, known>>

Counters == {"blocked", "allowed", "challenged", "monitored", "rate_limited"}

Said(c) == {<<c[i].name, c[i].upstream>> : i \in DOMAIN c}

-----------------------------------------------------------------------------
(* Proxies                                                                 *)

\* The entries of c that buildProxy can build a proxy of name n for.
Buildable(c, n) == {i \in DOMAIN c : c[i].name = n /\ c[i].upstream \in Parsable}

\* The constructor builds a proxy for every site; the last of a name stays.
BuiltAll(c) ==
    [n \in Names |->
        IF Buildable(c, n) = {} THEN None
        ELSE LET last == CHOOSE i \in Buildable(c, n) :
                            \A j \in Buildable(c, n) : j <= i
             IN  c[last].upstream]

\* Mutant: the callback only looks at the first site.
BuiltNewFirstOnly(px, c) ==
    [n \in Names |->
        IF px[n] # None \/ n # c[1].name \/ c[1].upstream \notin Parsable
        THEN px[n] ELSE c[1].upstream]

\* The callback builds a proxy for every name that has none; the first stays.
BuiltNew(px, c) ==
    [n \in Names |->
        IF px[n] # None \/ Buildable(c, n) = {} THEN px[n]
        ELSE LET first == CHOOSE i \in Buildable(c, n) :
                             \A j \in Buildable(c, n) : i <= j
             IN  c[first].upstream]

Init ==
    /\ config = Initial
    /\ proxies = BuiltAll(Initial)
    /\ callback = [p \in Reloaders |-> None]
    /\ mu = None
    /\ reloads = 0
    /\ pc = [r \in Conns |-> "idle"]
    /\ site = [r \in Conns |-> None]
    /\ verdict = [r \in Conns |-> "none"]
    /\ target = [r \in Conns |-> None]
    /\ total = 0 /\ active = 0
    /\ counts = [k \in Counters |-> 0]
    /\ uncounted = 0
    /\ known = Said(Initial)

-----------------------------------------------------------------------------
(* Reload                                                                  *)

\* The new configuration is live; the callbacks have yet to run.
Reload(p, c) ==
    /\ callback[p] = None /\ reloads < MaxReloads
    /\ config' = c
    /\ callback' = [callback EXCEPT ![p] = c]
    /\ reloads' = reloads + 1
    /\ known' = known \cup Said(c)
    /\ UNCHANGED <<proxies, mu, reqVars, statVars>>

\* h.mu.Lock of a callback or of forwardRequest.
Lock(m) ==
    /\ mu = None
    /\ m \in Reloaders => callback[m] # None
    /\ m \in Conns => pc[m] = "forward"
    /\ mu' = m
    /\ UNCHANGED <<config, proxies, callback, reloads, reqVars, statVars, known>>

\* The OnChange callback of newWAFHandler; its Unlock is deferred.
OnChange(p) ==
    /\ callback[p] # None /\ mu = p
    /\ mu' = None
    /\ proxies' = BuiltNew(proxies, callback[p])
    /\ callback' = [callback EXCEPT ![p] = None]
    /\ UNCHANGED <<config, reloads, reqVars, statVars, known>>

-----------------------------------------------------------------------------
(* ServeHTTP                                                               *)

Go(r, where) == pc' = [pc EXCEPT ![r] = where]
Count(k) == counts' = [counts EXCEPT ![k] = @ + 1]
NoCount == uncounted' = uncounted + 1 /\ UNCHANGED counts

Arrive(r) ==
    /\ pc[r] = "idle" /\ total < MaxRequests
    /\ total' = total + 1
    /\ active' = active + 1
    /\ Go(r, "route")
    /\ UNCHANGED <<config, proxies, callback, mu, reloads, site, verdict, target,
                   counts, uncounted, known>>

\* FindSiteByDomain, and the first site for an unknown host.
Selected(c, d) ==
    LET hits == {i \in DOMAIN c : d \in c[i].domains}
    IN  IF c = <<>> THEN None
        ELSE IF hits = {} THEN c[1]
        ELSE c[CHOOSE i \in hits : \A j \in hits : i <= j]

\* Get, the site, and the test of its WAFEnabled.
Route(r, d) ==
    /\ pc[r] = "route"
    /\ LET s == Selected(config, d)
       IN  /\ site' = [site EXCEPT ![r] = s]
           /\ IF s = None THEN Count("blocked") /\ Go(r, "return") /\ UNCHANGED uncounted
              ELSE IF s.waf THEN Go(r, "inspect") /\ UNCHANGED <<counts, uncounted>>
              ELSE NoCount /\ Go(r, "forward")
    /\ UNCHANGED <<config, proxies, callback, mu, reloads, verdict, target, total,
                   active, known>>

\* The counter of each verdict; an engine error has none.
CounterOf == [allow |-> "allowed", block |-> "blocked", monitor |-> "monitored",
              challenge |-> "challenged", rate_limit |-> "rate_limited"]

\* Mutant: a challenged request is let through as well.
ForwardsChallenged(v) ==
    v \in {"allow", "monitor", "challenge"} \/ (v = "error" /\ Dev)

\* The verdicts after which the request is forwarded.
Forwards(v) == v \in {"allow", "monitor"} \/ (v = "error" /\ Dev)

\* Mutant: the rate_limit branch forgets its counter.
InspectLimitUncounted(r, v) ==
    /\ pc[r] = "inspect"
    /\ verdict' = [verdict EXCEPT ![r] = v]
    /\ IF v = "error" THEN NoCount
       ELSE IF v = "rate_limit" THEN UNCHANGED <<counts, uncounted>>
       ELSE Count(CounterOf[v]) /\ UNCHANGED uncounted
    /\ Go(r, IF Forwards(v) THEN "forward" ELSE "return")
    /\ UNCHANGED <<config, proxies, callback, mu, reloads, site, target, total,
                   active, known>>

\* InspectRequest and the switch on its decision.
Inspect(r, v) ==
    /\ pc[r] = "inspect"
    /\ verdict' = [verdict EXCEPT ![r] = v]
    /\ IF v = "error" THEN NoCount ELSE Count(CounterOf[v]) /\ UNCHANGED uncounted
    /\ Go(r, IF Forwards(v) THEN "forward" ELSE "return")
    /\ UNCHANGED <<config, proxies, callback, mu, reloads, site, target, total,
                   active, known>>

\* InspectRequest panics: the deferred decrement runs, net/http recovers.
InspectPanics(r) ==
    /\ pc[r] = "inspect"
    /\ NoCount
    /\ Go(r, "return")
    /\ UNCHANGED <<config, proxies, callback, mu, reloads, site, verdict, target,
                   total, active, known>>

\* Mutant: a name without a proxy is answered with 502.
forwardRequestNoBuild(r) ==
    /\ pc[r] = "forward" /\ mu = r
    /\ mu' = None
    /\ target' = [target EXCEPT ![r] = proxies[site[r].name]]
    /\ Go(r, IF target'[r] = None THEN "return" ELSE "proxy")
    /\ UNCHANGED <<config, proxies, callback, reloads, site, verdict, statVars,
                   known>>

\* Mutant: the error path returns without its Unlock.
forwardRequestKeepsLock(r) ==
    /\ pc[r] = "forward" /\ mu = r
    /\ LET n == site[r].name
           built == IF proxies[n] = None /\ site[r].upstream \in Parsable
                    THEN site[r].upstream ELSE proxies[n]
       IN  /\ proxies' = [proxies EXCEPT ![n] = built]
           /\ target' = [target EXCEPT ![r] = built]
           /\ mu' = IF built = None THEN mu ELSE None
           /\ Go(r, IF built = None THEN "return" ELSE "proxy")
    /\ UNCHANGED <<config, callback, reloads, site, verdict, statVars, known>>

\* Mutant: a proxy is built from the first live site, not from the request's.
forwardRequestWrongSite(r) ==
    /\ pc[r] = "forward" /\ mu = r
    /\ mu' = None
    /\ LET n == site[r].name
           built == IF proxies[n] = None /\ site[r].upstream \in Parsable
                    THEN config[1].upstream ELSE proxies[n]
       IN  /\ proxies' = [proxies EXCEPT ![n] = built]
           /\ target' = [target EXCEPT ![r] = built]
           /\ Go(r, IF built = None THEN "return" ELSE "proxy")
    /\ UNCHANGED <<config, callback, reloads, site, verdict, statVars, known>>

\* forwardRequest, with h.mu: the proxy of the site's name, built on the fly
\* when there is none; 502 when it cannot be built.  Both paths unlock.
forwardRequest(r) ==
    /\ pc[r] = "forward" /\ mu = r
    /\ mu' = None
    /\ LET n == site[r].name
           built == IF proxies[n] = None /\ site[r].upstream \in Parsable
                    THEN site[r].upstream ELSE proxies[n]
       IN  /\ proxies' = [proxies EXCEPT ![n] = built]
           /\ target' = [target EXCEPT ![r] = built]
           /\ Go(r, IF built = None THEN "return" ELSE "proxy")
    /\ UNCHANGED <<config, callback, reloads, site, verdict, statVars, known>>

\* The local variables of a call of ServeHTTP end with it.
Forget(r) ==
    /\ site' = [site EXCEPT ![r] = None]
    /\ verdict' = [verdict EXCEPT ![r] = "none"]
    /\ target' = [target EXCEPT ![r] = None]

\* Mutant: the decrement is not deferred but follows proxy.ServeHTTP.
LeaveNotDeferred(r) ==
    /\ active' = IF pc[r] = "proxy" THEN active - 1 ELSE active
    /\ Go(r, "idle")
    /\ Forget(r)
    /\ UNCHANGED <<config, proxies, callback, mu, reloads, total, counts, uncounted,
                   known>>

\* ServeHTTP returns and the deferred decrement runs.
Leave(r) ==
    /\ active' = active - 1
    /\ Go(r, "idle")
    /\ Forget(r)
    /\ UNCHANGED <<config, proxies, callback, mu, reloads, total, counts, uncounted,
                   known>>

\* The handler's own answer is written.
Return(r) == pc[r] = "return" /\ Leave(r)

\* proxy.ServeHTTP returns: the upstream has answered, failed or broken off.
UpstreamDone(r) == pc[r] = "proxy" /\ Leave(r)

Handle(r) ==
    \/ \E d \in Domains : Route(r, d)
    \/ \E v \in Verdicts : Inspect(r, v)
    \/ InspectPanics(r)
    \/ forwardRequest(r)
    \/ Return(r)

-----------------------------------------------------------------------------
\* All bounds are used up and everybody is idle.
AtRest ==
    /\ total = MaxRequests /\ reloads = MaxReloads
    /\ \A r \in Conns : pc[r] = "idle"
    /\ \A p \in Reloaders : callback[p] = None
    /\ UNCHANGED vars

Next ==
    \/ \E p \in Reloaders : (\E c \in Configs : Reload(p, c)) \/ OnChange(p)
    \/ \E r \in Conns : Arrive(r) \/ Handle(r) \/ UpstreamDone(r)
    \/ \E m \in Conns \cup Reloaders : Lock(m)
    \/ AtRest

Spec == Init /\ [][Next]_vars

\* Goroutines run, and a mutex is handed to everyone who waits for it.  Nothing
\* makes UpstreamDone fair: the proxy's Transport bounds the dialling, the TLS
\* handshake and the wait for the header of the response, not its body.
FairSpec ==
    /\ Spec
    /\ \A r \in Conns : WF_vars(Handle(r))
    /\ \A p \in Reloaders : WF_vars(OnChange(p))
    /\ \A m \in Conns \cup Reloaders : SF_vars(Lock(m))

-----------------------------------------------------------------------------
(* Properties                                                              *)

PCs == {"idle", "route", "inspect", "forward", "proxy", "return"}

\* Every variable has its type; in particular a request that is to be
\* inspected or forwarded has a site.
TypeOK ==
    /\ config \in Configs \cup {Initial}
    /\ proxies \in [Names -> Parsable \cup {None}]
    /\ callback \in [Reloaders -> Configs \cup {None}]
    /\ mu \in Conns \cup Reloaders \cup {None}
    /\ reloads \in 0 .. MaxReloads
    /\ pc \in [Conns -> PCs]
    /\ site \in [Conns -> Site \cup {None}]
    /\ \A r \in Conns : pc[r] \in {"inspect", "forward", "proxy"} => site[r] \in Site
    /\ verdict \in [Conns -> Verdicts \cup {"none"}]
    /\ target \in [Conns -> Parsable \cup {None}]
    /\ total \in 0 .. MaxRequests /\ active \in Int /\ uncounted \in Nat
    /\ counts \in [Counters -> Nat]
    /\ known \subseteq Names \X Upstreams

InFlight == {r \in Conns : pc[r] # "idle"}
Counted == counts["blocked"] + counts["allowed"] + counts["challenged"]
             + counts["monitored"] + counts["rate_limited"]

Undecided == {r \in Conns : pc[r] \in {"route", "inspect"}}

\* activeConns is the number of requests in flight, on every way out of
\* ServeHTTP, the panicking one included.
ActiveIsInFlight == active = Cardinality(InFlight)

\* Every request that arrived is in exactly one of the counters, or is still
\* undecided, or took one of the three ways that count nothing (WAF off,
\* engine error, panic).
EveryRequestCounted ==
    total = Counted + uncounted + Cardinality(Undecided)

\* The statistics add up, whichever way each request leaves ServeHTTP.
Accounted == ActiveIsInFlight /\ EveryRequestCounted

\* A request reaches an upstream only if the engine let it pass, the WAF is
\* off for its site, or the engine failed in dev mode.
OnlyPassedForwarded ==
    \A r \in Conns : target[r] # None =>
        \/ ~site[r].waf
        \/ verdict[r] \in {"allow", "monitor"}
        \/ verdict[r] = "error" /\ Dev

\* A proxy leads to an upstream that some configuration named for this site.
ProxiesKnown == \A n \in Names : proxies[n] # None => <<n, proxies[n]>> \in known

\* A forwarded request only fails to find a proxy when its site's upstream
\* cannot be parsed: a site is served from the moment its configuration is
\* live, before the callback has run.
ServedAtOnce ==
    \A r \in Conns :
        (pc[r] = "return" /\ target[r] = None /\ site[r] \in Site)
        => \/ site[r].upstream \notin Parsable
           \/ site[r].waf /\ ~Forwards(verdict[r])

\* When no callback is pending, every usable site of the live configuration
\* has a proxy, however the reloads were interleaved.
AllSitesHaveProxies ==
    (\A p \in Reloaders : callback[p] = None) =>
        \A i \in DOMAIN config :
            config[i].upstream \in Parsable => proxies[config[i].name] # None

\* The proxies are the configured ones: each comes from a configuration that was live
\* under its name, and none is missing once the callbacks have run.
ProxiesSound == ProxiesKnown /\ AllSitesHaveProxies

\* A request goes to the upstream its site's configuration names.
ForwardedAsConfigured ==
    \A r \in Conns : pc[r] = "proxy" => target[r] = site[r].upstream

\* Every request is answered or gets to its upstream: no way out of
\* forwardRequest or of the callback keeps h.mu, also when a proxy cannot be
\* built and while an upstream stalls in its response.
RequestsAnswered == \A r \in Conns : pc[r] # "idle" ~> pc[r] \in {"idle", "proxy"}
=============================================================================
