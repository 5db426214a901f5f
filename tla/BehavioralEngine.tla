-------------------------- MODULE BehavioralEngine --------------------------
(***************************************************************************)
(* internal/engine/behavioral.go: a sliding window of request times per    *)
(* address, a reputation, and the addresses known as bad.  Inspect fetches *)
(* the window under e.mu, adds to it under the window's own lock, and      *)
(* reads the reputation under e.mu again.                                  *)
(*                                                                         *)
(* A window is the set of its requests, [at, nth]: the time, and a number  *)
(* that tells requests of one instant apart; the order of the array is     *)
(* never used.  The array has room for Room times (ten times maxRequests)  *)
(* and never grows: one more request in the window is a panic, "panic".    *)
(* A path is the score checkPathEntropy gives it, at most 50.              *)
(***************************************************************************)
EXTENDS Integers, Sequences, FiniteSets

CONSTANTS Sources, Inspections,   \* addresses; goroutines
          PathScores, Deltas,     \* scores of paths; arguments of IncrementReputation
          DevMode, Velocity, UseReputation, PathEntropy, BehThreshold,
          MaxRequests, Room, BehWindow, MaxWindows, Evicted, \* 10 * maxRequests; 10000; 1001
          BlockTimes, MaxBehTime, MaxBehRequests, NotBlocked

ASSUME BehAssumption ==
    /\ {DevMode, Velocity, UseReputation, PathEntropy} \subseteq BOOLEAN
    /\ \A n \in {BehThreshold, MaxRequests, Room, BehWindow, MaxWindows, Evicted, MaxBehTime, MaxBehRequests} : n \in Nat
    /\ PathScores \subseteq 0 .. 50 /\ BlockTimes \subseteq Nat /\ Deltas \subseteq Int
    /\ NotBlocked \notin Nat

VARIABLES
    ipRequests,   \* address -> its window, 0 if there is none
    windows,      \* window -> its requests
    reputation,   \* e.ipReputation
    badIPs,
    blockedIPs,   \* address -> until, or NotBlocked
    inspection,   \* goroutine -> its call
    behTime, behCount,
    seen,         \* history: address -> the requests it counted
    evicted,      \* history: the addresses whose window cleanup has dropped
    reported      \* history: the addresses reported, or over 100, since they were last cleared

behVars == <<ipRequests, windows, reputation, badIPs, blockedIPs, inspection, behTime, behCount, seen,
             evicted, reported>>

IdleInspection == [pc |-> "idle"]

\* NewBehavioralEngine
BehInit ==
    /\ ipRequests = [ip \in Sources |-> 0] /\ windows = <<>>
    /\ reputation = [ip \in Sources |-> 0]
    /\ badIPs = {} /\ blockedIPs = [ip \in Sources |-> NotBlocked]
    /\ inspection = [i \in Inspections |-> IdleInspection]
    /\ behTime = 0 /\ behCount = 0
    /\ seen = [ip \in Sources |-> {}] /\ evicted = {} /\ reported = {}

Visit(ip, path, w, pc) == [pc |-> pc, ip |-> ip, path |-> path, window |-> w, score |-> 0]
Finished(verdict) == [pc |-> "done", verdict |-> verdict]

newSlidingWindow == {}

\* Mutant: a window is made without looking for one.
getWindowAnew(i, ip, path) ==
    /\ inspection[i] = IdleInspection /\ behCount < MaxBehRequests
    /\ behCount' = behCount + 1
    /\ windows' = Append(windows, {}) /\ ipRequests' = [ipRequests EXCEPT ![ip] = Len(windows) + 1]
    /\ inspection' = [inspection EXCEPT ![i] = Visit(ip, path, ipRequests'[ip], "add")]
    /\ UNCHANGED <<reputation, badIPs, blockedIPs, behTime, seen, evicted, reported>>

\* Inspect, getWindow
getWindow(i, ip, path) ==
    LET n == Len(windows) + 1 IN
    /\ inspection[i] = IdleInspection /\ behCount < MaxBehRequests
    /\ behCount' = behCount + 1
    /\ IF Velocity /\ ipRequests[ip] = 0
       THEN windows' = Append(windows, newSlidingWindow) /\ ipRequests' = [ipRequests EXCEPT ![ip] = n]
       ELSE UNCHANGED <<ipRequests, windows>>
    /\ inspection' = [inspection EXCEPT ![i] =
           Visit(ip, path, ipRequests'[ip], IF Velocity THEN "add" ELSE "reputation")]
    /\ UNCHANGED <<reputation, badIPs, blockedIPs, behTime, seen, evicted, reported>>

InTime(requests) == {r \in requests : r.at > behTime - BehWindow}

\* The limits of Inspect on the size of the window
checkVelocity(c, n) ==
    IF n > MaxRequests /\ DevMode THEN Finished("BEH_001")
    ELSE IF n > 2 * MaxRequests THEN Finished("BEH_002")
    ELSE [c EXCEPT !.pc = "reputation", !.score = IF n > MaxRequests THEN 35 ELSE 0]

\* slidingWindow.add, and the limits.  A panic is recovered by the caller
\* of Inspect and counts as an error of this inspector.
addToWindow(i) ==
    LET c == inspection[i]
        kept == InTime(windows[c.window])
        n == Cardinality(kept) + 1
        now == [at |-> behTime, nth |-> Cardinality(seen[c.ip])]
    IN
    /\ c.pc = "add"
    /\ IF n > Room
       THEN /\ inspection' = [inspection EXCEPT ![i] = Finished("panic")]
            /\ UNCHANGED <<windows, seen>>
       ELSE /\ windows' = [windows EXCEPT ![c.window] = kept \cup {now}]
            /\ seen' = [seen EXCEPT ![c.ip] = @ \cup {now}]
            /\ inspection' = [inspection EXCEPT ![i] = checkVelocity(c, n)]
    /\ UNCHANGED <<ipRequests, reputation, badIPs, blockedIPs, behTime, behCount, evicted, reported>>

\* The reputation, checkPathEntropy and the sum
behVerdict(c) ==
    LET rep == IF UseReputation THEN reputation[c.ip] ELSE 0
        score == c.score + (IF rep > 10 THEN 20 ELSE 0) + (IF PathEntropy THEN c.path ELSE 0)
    IN CASE UseReputation /\ c.ip \in badIPs -> "BEH_010"
         [] rep > 50 -> "BEH_011"
         [] PathEntropy /\ c.path > 20 -> "BEH_020"
         [] score >= BehThreshold -> "BEH_099"
         [] OTHER -> "none"

\* The rest of Inspect, under e.mu
judge(i) ==
    /\ inspection[i].pc = "reputation"
    /\ inspection' = [inspection EXCEPT ![i] = Finished(behVerdict(inspection[i]))]
    /\ UNCHANGED <<ipRequests, windows, reputation, badIPs, blockedIPs, behTime, behCount, seen, evicted, reported>>

EndInspection(i) ==
    /\ inspection[i].pc = "done"
    /\ inspection' = [inspection EXCEPT ![i] = IdleInspection]
    /\ UNCHANGED <<ipRequests, windows, reputation, badIPs, blockedIPs, behTime, behCount, seen, evicted, reported>>

ReportBadIP(ip) ==
    /\ badIPs' = badIPs \cup {ip} /\ reported' = reported \cup {ip}
    /\ UNCHANGED <<ipRequests, windows, reputation, blockedIPs, inspection, behTime, behCount, seen, evicted>>

IncrementReputation(ip, delta) ==
    /\ behCount < MaxBehRequests
    /\ behCount' = behCount + 1
    /\ reputation' = [reputation EXCEPT ![ip] = @ + delta]
    /\ badIPs' = IF reputation'[ip] > 100 THEN badIPs \cup {ip} ELSE badIPs
    /\ reported' = IF reputation'[ip] > 100 THEN reported \cup {ip} ELSE reported
    /\ UNCHANGED <<ipRequests, windows, blockedIPs, inspection, behTime, seen, evicted>>

\* Mutant: the block is noted, the address is not.
BlockIPOnly(ip, duration) ==
    /\ blockedIPs' = [blockedIPs EXCEPT ![ip] = behTime + duration]
    /\ UNCHANGED <<ipRequests, windows, reputation, badIPs, inspection, behTime, behCount, seen, evicted, reported>>

BlockIP(ip, duration) ==
    /\ blockedIPs' = [blockedIPs EXCEPT ![ip] = behTime + duration]
    /\ badIPs' = badIPs \cup {ip}
    /\ UNCHANGED <<ipRequests, windows, reputation, inspection, behTime, behCount, seen, evicted, reported>>

\* A turn of cleanupLoop, at any time: what BlockIP's time has run out for is
\* forgotten with its reputation; of too many windows, some are dropped.
behCleanup ==
    LET Over == {ip \in Sources : blockedIPs[ip] # NotBlocked /\ behTime > blockedIPs[ip]}
        Used == {ip \in Sources : ipRequests[ip] # 0}
        Drop(D) == /\ ipRequests' = [ip \in Sources |-> IF ip \in D THEN 0 ELSE ipRequests[ip]]
                   /\ evicted' = evicted \cup D
    IN
    /\ blockedIPs' = [ip \in Sources |-> IF ip \in Over THEN NotBlocked ELSE blockedIPs[ip]]
    /\ badIPs' = badIPs \ Over
    /\ reported' = reported \ Over
    /\ reputation' = [ip \in Sources |-> IF ip \in Over THEN 0 ELSE reputation[ip]]
    /\ IF Cardinality(Used) > MaxWindows
       THEN \E D \in SUBSET Used :
                /\ Cardinality(D) = IF Cardinality(Used) < Evicted THEN Cardinality(Used) ELSE Evicted
                /\ Drop(D)
       ELSE Drop({})
    /\ UNCHANGED <<windows, inspection, behTime, behCount, seen>>

BehTick ==
    /\ behTime < MaxBehTime
    /\ behTime' = behTime + 1
    /\ UNCHANGED <<ipRequests, windows, reputation, badIPs, blockedIPs, inspection, behCount, seen, evicted, reported>>

BehNext ==
    \/ \E i \in Inspections : addToWindow(i) \/ judge(i) \/ EndInspection(i)
    \/ \E i \in Inspections, ip \in Sources, p \in PathScores : getWindow(i, ip, p)
    \/ \E ip \in Sources : ReportBadIP(ip)
    \/ \E ip \in Sources, d \in Deltas : IncrementReputation(ip, d)
    \/ \E ip \in Sources, d \in BlockTimes : BlockIP(ip, d)
    \/ behCleanup
    \/ BehTick

BehSpec == BehInit /\ [][BehNext]_behVars

-----------------------------------------------------------------------------
\* A window holds the requests of its address that are still in time and all
\* of them, however the adding of several interleaves, unless
\* cleanup dropped it; those that found its array full are not counted.
WindowIsExact ==
    \A ip \in Sources \ evicted :
        ipRequests[ip] # 0 =>
            InTime(windows[ipRequests[ip]]) = InTime(seen[ip])

\* An address is bad as long as a block of it runs, and otherwise only if it
\* was reported or its reputation went over 100 since it was last forgotten.
BadIsGrounded ==
    /\ \A ip \in Sources : blockedIPs[ip] # NotBlocked => ip \in badIPs
    /\ \A ip \in badIPs : blockedIPs[ip] # NotBlocked \/ ip \in reported
    /\ reported \subseteq badIPs

\* What the engine remembers of an address is what the address did.
BehaviourSound == WindowIsExact /\ BadIsGrounded
=============================================================================
