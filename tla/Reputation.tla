----------------------------- MODULE Reputation -----------------------------
(***************************************************************************)
(* internal/reputation/reputation.go: the score of an address and its      *)
(* cache.  Inspect reads the cache under one read lock, computes the score *)
(* from the lists under another, and stores it under the write lock; the   *)
(* lists, which only grow, may change in between.                          *)
(*                                                                         *)
(* A list is the set of addresses its ranges cover.  The ASN and country   *)
(* lists, the feeds and the updaters are never read.                       *)
(***************************************************************************)
EXTENDS Integers, FiniteSets

CONSTANTS Hosts, Datacenter,   \* addresses; those in datacenterRanges
          Unparsable,          \* strings that are no address
          Scorers,             \* goroutines in Inspect
          CacheTTL, MaxRepTime, MaxListings, NoScore

ASSUME ReputationAssumption ==
    /\ CacheTTL \in Nat \ {0, 1} /\ MaxRepTime \in Nat /\ MaxListings \in Nat
    /\ Datacenter \subseteq Hosts /\ Unparsable \subseteq Hosts

ListNames == {"allow", "block", "tor", "vpn", "proxy"}

VARIABLES
    lists,      \* list -> its addresses
    listed,     \* history: list -> (address -> since when)
    scoreCache, \* e.cache: address -> [score, seen], or NoScore
    scoring,    \* scorer -> its call
    repTime,
    told        \* history: the score returned by the last step, or NoScore

repVars == <<lists, listed, scoreCache, scoring, repTime, told>>

IdleScorer == [pc |-> "idle", host |-> NoScore, seen |-> 0, score |-> 0]

\* NewEngine
RepInit ==
    /\ lists = [l \in ListNames |-> {}]
    /\ listed = [l \in ListNames |-> [h \in Hosts |-> 0]]
    /\ scoreCache = [h \in Hosts |-> NoScore]
    /\ scoring = [s \in Scorers |-> IdleScorer]
    /\ repTime = 0 /\ told = NoScore

Points(covered, n) == IF covered THEN n ELSE 0

\* isAllowlisted, isBlocklisted, isInRanges and the look-up in torNodes
isInRanges(h, l) == h \in lists[l]
isDatacenterIP(h) == h \in Datacenter

\* The allow list wins over the block list, and both over the sum
ScoreOf(h) ==
    IF isInRanges(h, "allow") THEN 0
    ELSE IF isInRanges(h, "block") THEN 100
    ELSE Points(isInRanges(h, "tor"), 60) + Points(isInRanges(h, "vpn"), 40)
         + Points(isInRanges(h, "proxy"), 50) + Points(isDatacenterIP(h), 20)

Told(h, score) == [host |-> h, score |-> score]

\* Mutant: a score is used until Cleanup drops it.
CachedUntilCleanup(h) == scoreCache[h] # NoScore /\ repTime - scoreCache[h].seen <= 2 * CacheTTL

\* Inspect: a cached score younger than the TTL; else LastSeen is taken now
Cached(h) == scoreCache[h] # NoScore /\ repTime - scoreCache[h].seen < CacheTTL

LookUp(s, h) ==
    LET hit == Cached(h) IN
    /\ scoring[s].pc = "idle"
    /\ \/ /\ hit
          /\ told' = Told(h, scoreCache[h].score)
          /\ UNCHANGED scoring
       \/ /\ ~hit /\ h \in Unparsable
          /\ told' = Told(h, 0)
          /\ UNCHANGED scoring
       \/ /\ ~hit /\ h \notin Unparsable
          /\ scoring' = [scoring EXCEPT ![s] = [pc |-> "score", host |-> h, seen |-> repTime, score |-> 0]]
          /\ told' = NoScore
    /\ UNCHANGED <<lists, listed, scoreCache, repTime>>

\* Inspect, the lists under e.mu.RLock
Compute(s) ==
    /\ scoring[s].pc = "score"
    /\ scoring' = [scoring EXCEPT ![s].pc = "store", ![s].score = ScoreOf(scoring[s].host)]
    /\ told' = NoScore
    /\ UNCHANGED <<lists, listed, scoreCache, repTime>>

setCache(s) ==
    LET c == scoring[s] IN
    /\ c.pc = "store"
    /\ scoreCache' = [scoreCache EXCEPT ![c.host] = [score |-> c.score, seen |-> c.seen]]
    /\ scoring' = [scoring EXCEPT ![s] = IdleScorer]
    /\ told' = Told(c.host, c.score)
    /\ UNCHANGED <<lists, listed, repTime>>

\* AddAllowlist, AddBlocklist, LoadTorNodes, LoadVPNRanges, LoadProxyRanges
\* of one more address.  None of them touches the cache.
AddToList(l, h) ==
    /\ h \notin lists[l]
    /\ Cardinality({m \in ListNames : lists[m] # {}}) < MaxListings
    /\ lists' = [lists EXCEPT ![l] = @ \cup {h}]
    /\ listed' = [listed EXCEPT ![l][h] = repTime]
    /\ told' = NoScore
    /\ UNCHANGED <<scoreCache, scoring, repTime>>

\* Cleanup, at any time: what is older than twice the TTL
repCleanup ==
    LET old == {h \in Hosts : scoreCache[h] # NoScore /\ repTime - scoreCache[h].seen > 2 * CacheTTL} IN
    /\ old # {}
    /\ scoreCache' = [h \in Hosts |-> IF h \in old THEN NoScore ELSE scoreCache[h]]
    /\ told' = NoScore
    /\ UNCHANGED <<lists, listed, scoring, repTime>>

\* A call ends in the tick it began in or in the next: before the TTL has passed.
RepTick ==
    /\ repTime < MaxRepTime
    /\ \A s \in Scorers : scoring[s].pc # "idle" => repTime = scoring[s].seen
    /\ repTime' = repTime + 1
    /\ told' = NoScore
    /\ UNCHANGED <<lists, listed, scoreCache, scoring>>

RepNext ==
    \/ \E s \in Scorers : Compute(s) \/ setCache(s)
    \/ \E s \in Scorers, h \in Hosts : LookUp(s, h)
    \/ \E l \in ListNames, h \in Hosts \ Unparsable : AddToList(l, h)
    \/ repCleanup
    \/ RepTick

RepSpec == RepInit /\ [][RepNext]_repVars

-----------------------------------------------------------------------------
Known(l, h) == h \in lists[l] /\ repTime - listed[l][h] >= CacheTTL

\* Cached or not, and whichever of two calls stores last, a score that is
\* returned reflects every list entry as old as the cache's TTL: an address
\* allowed that long scores 0, one blocked that long (and not allowed) 100,
\* and any other at least the points of the tor, vpn and proxy entries that
\* long known and those of the datacenter ranges.
ScoreKnowsOldEntries ==
    told # NoScore /\ told.host \notin Unparsable => LET h == told.host IN
        /\ Known("allow", h) => told.score = 0
        /\ Known("block", h) /\ h \notin lists["allow"] => told.score = 100
        /\ h \notin lists["allow"] /\ h \notin lists["block"] =>
               told.score >= Points(Known("tor", h), 60) + Points(Known("vpn", h), 40)
                             + Points(Known("proxy", h), 50) + Points(isDatacenterIP(h), 20)
=============================================================================
