--------------------------- MODULE DDoSProtection ---------------------------
(***************************************************************************)
(* internal/engine/ddos.go: request counts per address, endpoint, session  *)
(* and over all, and the timers of slow requests.  The four counters are   *)
(* checked in one critical section of d.mu, each timer in one of its own.  *)
(*                                                                         *)
(* A request says whether it is a POST, has a Content-Length, an Expect    *)
(* header, a body that is announced as large and arrives slowly, and       *)
(* whether its query looks like cache busting.  A counter is the set of    *)
(* requests it has counted, [at, nth, keys]: the time, a number that tells *)
(* requests of one instant apart, and the counters the request asks; the   *)
(* order of its array is the order of their times.                         *)
(***************************************************************************)
EXTENDS Integers, FiniteSets

CONSTANTS FloodKeys,      \* the counters: "global", addresses, endpoints, sessions
          Rate,           \* counter -> its limit per window
          WebRequests,    \* requests: [ip, path, session ("" if none), post, length, expect, slow, busting]
          Guards,         \* goroutines in Inspect
          Window, LorisLimit, SlowPostLimit, TimerTTL, CounterTTL,
          MaxFloodTime, MaxFlood, NoTimer

ASSUME FloodAssumption ==
    /\ Rate \in [FloodKeys -> Nat] /\ "global" \in FloodKeys
    /\ \A n \in {Window, LorisLimit, SlowPostLimit, TimerTTL, CounterTTL, MaxFloodTime, MaxFlood} : n \in Nat
    /\ Window <= CounterTTL   \* a second, ten minutes
    /\ \A r \in WebRequests : {r.ip, r.path} \subseteq FloodKeys /\ r.session \in FloodKeys \cup {""}

FloodIPs == {r.ip : r \in WebRequests}

VARIABLES
    stamps,      \* counter -> the requests it has counted
    lorisTimers, postTimers, \* address -> time, or NoTimer
    guarding,    \* goroutine -> [stage, req]
    floodTime,
    arrivals,    \* history: the requests that came
    admitted     \* history: those that the counters let through

floodVars == <<stamps, lorisTimers, postTimers, guarding, floodTime, arrivals, admitted>>

IdleGuard == [stage |-> "idle"]

\* NewDDoSProtection
FloodInit ==
    /\ stamps = [k \in FloodKeys |-> {}]
    /\ lorisTimers = [ip \in FloodIPs |-> NoTimer]
    /\ postTimers = [ip \in FloodIPs |-> NoTimer]
    /\ guarding = [g \in Guards |-> IdleGuard]
    /\ floodTime = 0 /\ arrivals = {} /\ admitted = {}

\* Mutant: nothing leaves the window.
ValidAll(s) == s

Valid(s) == {e \in s : e.at > floodTime - Window}

\* The counters in the order in which they are asked
Asked(r) ==
    IF r.session = "" THEN <<"global", r.ip, r.path>> ELSE <<"global", r.ip, r.path, r.session>>

\* Mutant: one request more than the limit.
FullOver(k) == Cardinality(Valid(stamps[k])) > Rate[k]

Full(k) == Cardinality(Valid(stamps[k])) >= Rate[k]

KeysOf(ks) == {ks[i] : i \in DOMAIN ks}

\* The counters asked before one refuses, and that one
Looked(ks) == {ks[i] : i \in {i \in DOMAIN ks : \A j \in 1 .. i - 1 : ~Full(ks[j])}}

\* checkRate: a counter over its limit keeps what is valid, one under it
\* counts the request, also when a later counter refuses it.
checkRate(k, ks, event) ==
    IF k \notin Looked(ks) THEN stamps[k]
    ELSE IF Full(k) THEN Valid(stamps[k]) ELSE Valid(stamps[k]) \cup {event}

detectHTTPFlood(g, r) ==
    LET ks == Asked(r)
        event == [at |-> floodTime, nth |-> Cardinality(arrivals), keys |-> KeysOf(ks)]
    IN
    /\ guarding[g] = IdleGuard /\ Cardinality(arrivals) < MaxFlood
    /\ stamps' = [k \in FloodKeys |-> checkRate(k, ks, event)]
    /\ arrivals' = arrivals \cup {event}
    /\ IF \A k \in KeysOf(ks) : ~Full(k)
       THEN /\ admitted' = admitted \cup {event}
            /\ guarding' = [guarding EXCEPT ![g] = [stage |-> "loris", req |-> r]]
       ELSE UNCHANGED <<admitted, guarding>>
    /\ UNCHANGED <<lorisTimers, postTimers, floodTime>>

Advance(g, stage) == guarding' = [guarding EXCEPT ![g].stage = stage]
Block(g) == guarding' = [guarding EXCEPT ![g] = IdleGuard]

\* Expect restarts the timer; a POST without a length starts it, or is
\* blocked when it is older than the limit.  Nothing stops it.
detectSlowloris(g) ==
    LET r == guarding[g].req t == lorisTimers[r.ip]
        Start == lorisTimers' = [lorisTimers EXCEPT ![r.ip] = floodTime] /\ Advance(g, "post") IN
    /\ guarding[g].stage = "loris"
    /\ \/ r.expect /\ Start
       \/ ~r.expect /\ r.post /\ ~r.length /\ t = NoTimer /\ Start
       \/ /\ ~r.expect /\ (t # NoTimer \/ ~r.post \/ r.length)
          /\ IF r.post /\ ~r.length /\ floodTime - t > LorisLimit THEN Block(g) ELSE Advance(g, "post")
          /\ UNCHANGED lorisTimers
    /\ UNCHANGED <<stamps, postTimers, floodTime, arrivals, admitted>>

detectCacheBusting(r) == r.busting   \* many parameters, half of them random

\* A large POST starts the timer, or is blocked when it is old and the body
\* of this request is small for that age; then detectCacheBusting, which
\* only reports.
detectSlowPOST(g) ==
    LET r == guarding[g].req t == postTimers[r.ip] watched == r.post /\ r.length /\ r.slow IN
    /\ guarding[g].stage = "post"
    /\ postTimers' = IF watched /\ t = NoTimer THEN [postTimers EXCEPT ![r.ip] = floodTime] ELSE postTimers
    /\ IF watched /\ t # NoTimer /\ floodTime - t > SlowPostLimit
       THEN Block(g) ELSE Advance(g, IF detectCacheBusting(r) THEN "monitored" ELSE "through")
    /\ UNCHANGED <<stamps, lorisTimers, floodTime, arrivals, admitted>>

Leave(g) ==
    /\ guarding[g].stage \in {"monitored", "through"}
    /\ Block(g)
    /\ UNCHANGED <<stamps, lorisTimers, postTimers, floodTime, arrivals, admitted>>

\* cleanup, at any time: the idle counters of addresses, and old timers
floodCleanup ==
    LET Idle(s) == \A e \in s : floodTime - e.at > CounterTTL   \* the last one, or there is none
        Old(t) == t # NoTimer /\ floodTime - t > TimerTTL IN
    /\ stamps' = [k \in FloodKeys |-> IF k \in FloodIPs /\ Idle(stamps[k]) THEN {} ELSE stamps[k]]
    /\ lorisTimers' = [ip \in FloodIPs |-> IF Old(lorisTimers[ip]) THEN NoTimer ELSE lorisTimers[ip]]
    /\ postTimers' = [ip \in FloodIPs |-> IF Old(postTimers[ip]) THEN NoTimer ELSE postTimers[ip]]
    /\ UNCHANGED <<guarding, floodTime, arrivals, admitted>>

FloodTick ==
    /\ floodTime < MaxFloodTime
    /\ floodTime' = floodTime + 1
    /\ UNCHANGED <<stamps, lorisTimers, postTimers, guarding, arrivals, admitted>>

FloodNext ==
    \/ \E g \in Guards : detectSlowloris(g) \/ detectSlowPOST(g) \/ Leave(g)
    \/ \E g \in Guards, r \in WebRequests : detectHTTPFlood(g, r)
    \/ floodCleanup
    \/ FloodTick

FloodSpec == FloodInit /\ [][FloodNext]_floodVars

-----------------------------------------------------------------------------
InWindow(log, k, t) == {e \in log : k \in e.keys /\ e.at <= t /\ e.at > t - Window}

\* In no window does any counter, of an address, an endpoint, a session or
\* over all, let more requests through than its limit, whatever cleanup drops.
WithinEveryRate ==
    \A k \in FloodKeys, t \in 0 .. floodTime : Cardinality(InWindow(admitted, k, t)) <= Rate[k]

\* A request is refused by the counters only if as many requests as one of
\* its limits came in the window before it, admitted or not.
RefusalIsEarned ==
    [][\A e \in arrivals' \ arrivals :
          e \notin admitted' => \E k \in e.keys : Cardinality(InWindow(arrivals, k, floodTime)) >= Rate[k]]_floodVars

\* A flood is held to every rate, and nobody else is refused.
FloodLimited == []WithinEveryRate /\ RefusalIsEarned
=============================================================================
