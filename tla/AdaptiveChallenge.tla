-------------------------- MODULE AdaptiveChallenge --------------------------
(***************************************************************************)
(* internal/engine/adaptive.go: the challenge level of an address and the  *)
(* tokens of the challenges it was given.  Inspect gets a pointer to the   *)
(* state of the address under ac.mu and then reads and writes it without   *)
(* the lock, while other requests of the address do the same and           *)
(* cleanupLoop may take the state out of the map.  Each such access is an  *)
(* action of its own.                                                      *)
(*                                                                         *)
(* Scores are the lower bounds of the levels 0 (none), 1 (JS), 2 (CAPTCHA), *)
(* 3 (tarpit) and 4 (block), so a score is named by its level.             *)
(***************************************************************************)
EXTENDS Integers, FiniteSets

CONSTANTS ChallengedIPs, Visits, ThreatLevels, \* addresses; goroutines; levels requests come with
          ChallengeTTL, CleanupPeriod, MaxTokens, MaxStates, MaxChallengeTime

ASSUME ChallengeAssumption ==
    /\ ThreatLevels \subseteq 0 .. 4
    /\ \A n \in {ChallengeTTL, CleanupPeriod, MaxTokens, MaxStates, MaxChallengeTime} : n \in Nat

VARIABLES
    ipScores,   \* address -> its state, 0 if there is none
    states,     \* state -> [score, level, seen]
    challenges, \* the tokens outstanding, token -> expiresAt
    visit,      \* goroutine -> its request
    challengeTime, lastSweep,
    solved,     \* history: token -> how many requests it has let through
    worst       \* history: state -> the highest score a request gave it

adaptVars == <<ipScores, states, challenges, visit, challengeTime, lastSweep, solved, worst>>

IdleVisit == [pc |-> "idle"]
Issued == DOMAIN solved

\* NewAdaptiveChallenge
AdaptInit ==
    /\ ipScores = [ip \in ChallengedIPs |-> 0]
    /\ states = <<>> /\ worst = <<>>
    /\ challenges = <<>> /\ solved = <<>>
    /\ visit = [v \in Visits |-> IdleVisit]
    /\ challengeTime = 0 /\ lastSweep = 0

Without(f, x) == [y \in DOMAIN f \ {x} |-> f[y]]

\* Mutant: the token stays outstanding.
SolveChallengeAgain(v, token) ==
    /\ visit[v] = IdleVisit
    /\ token \in DOMAIN challenges
    /\ solved' = [solved EXCEPT ![token] = @ + 1]
    /\ UNCHANGED <<ipScores, states, challenges, visit, challengeTime, lastSweep, worst>>

\* Inspect with a token that is outstanding: the request passes, whatever
\* its address and the token's age
SolveChallenge(v, token) ==
    /\ visit[v] = IdleVisit
    /\ token \in DOMAIN challenges
    /\ challenges' = Without(challenges, token)
    /\ solved' = [solved EXCEPT ![token] = @ + 1]
    /\ UNCHANGED <<ipScores, states, visit, challengeTime, lastSweep, worst>>

\* Inspect without one, getOrCreateState; a new state has no lastSeen
getOrCreateState(v, ip, threat) ==
    LET n == Cardinality(DOMAIN states) + 1
        s == IF ipScores[ip] = 0 THEN n ELSE ipScores[ip] IN
    /\ visit[v] = IdleVisit /\ s <= MaxStates
    /\ visit' = [visit EXCEPT ![v] = [pc |-> "check", ip |-> ip, threat |-> threat, state |-> s, level |-> 0]]
    /\ ipScores' = [ipScores EXCEPT ![ip] = s]
    /\ IF s = n
       THEN /\ states' = [x \in 1 .. n |-> IF x = n THEN [score |-> 0, level |-> 0, seen |-> -1] ELSE states[x]]
            /\ worst' = [x \in 1 .. n |-> IF x = n THEN 0 ELSE worst[x]]
       ELSE UNCHANGED <<states, worst>>
    /\ UNCHANGED <<challenges, challengeTime, lastSweep, solved>>

At(v, pc) == visit[v].pc = pc
Go(v, pc) == visit' = [visit EXCEPT ![v].pc = pc]
Act(v) == visit' = [visit EXCEPT ![v].pc = "act", ![v].level = 0]   \* level is not used again

\* A state at the block level is not touched any more.
checkBlocked(v) ==
    /\ At(v, "check")
    /\ IF states[visit[v].state].level >= 4
       THEN visit' = [visit EXCEPT ![v] = IdleVisit]
       ELSE Go(v, IF visit[v].threat = 0 THEN "read" ELSE "score")
    /\ UNCHANGED <<ipScores, states, challenges, challengeTime, lastSweep, solved, worst>>

\* existingScore: of a request without a score, what the state has
readScore(v) ==
    /\ At(v, "read")
    /\ visit' = [visit EXCEPT ![v].pc = "score", ![v].threat = states[visit[v].state].score]
    /\ UNCHANGED <<ipScores, states, challenges, challengeTime, lastSweep, solved, worst>>

writeScore(v) ==
    LET s == visit[v].state t == visit[v].threat IN
    /\ At(v, "score")
    /\ states' = [states EXCEPT ![s].score = t, ![s].seen = challengeTime]
    /\ worst' = [worst EXCEPT ![s] = IF t > @ THEN t ELSE @]
    /\ visit' = [visit EXCEPT ![v].pc = "level", ![v].threat = 0]   \* nor is the score
    /\ UNCHANGED <<ipScores, challenges, challengeTime, lastSweep, solved>>

\* determineLevel reads state.score again
determineLevel(v) ==
    /\ At(v, "level")
    /\ visit' = [visit EXCEPT ![v].pc = "compare", ![v].level = states[visit[v].state].score]
    /\ UNCHANGED <<ipScores, states, challenges, challengeTime, lastSweep, solved, worst>>

\* if level > state.level { state.level = level }: two accesses
compareLevel(v) ==
    /\ At(v, "compare")
    /\ IF visit[v].level > states[visit[v].state].level THEN Go(v, "raise") ELSE Act(v)
    /\ UNCHANGED <<ipScores, states, challenges, challengeTime, lastSweep, solved, worst>>

\* Mutant: one level more than what was determined.
raiseLevelMore(v) ==
    /\ At(v, "raise")
    /\ states' = [states EXCEPT ![visit[v].state].level = visit[v].level + 1]
    /\ Act(v)
    /\ UNCHANGED <<ipScores, challenges, challengeTime, lastSweep, solved, worst>>

raiseLevel(v) ==
    /\ At(v, "raise")
    /\ states' = [states EXCEPT ![visit[v].state].level = visit[v].level]
    /\ Act(v)
    /\ UNCHANGED <<ipScores, challenges, challengeTime, lastSweep, solved, worst>>

\* a random token: one that was never issued
NewToken == Cardinality(Issued) + 1

\* The switch on state.level: levels 1 and 2 issue a token, the others end
issueChallenge(v) ==
    LET token == NewToken IN
    /\ At(v, "act")
    /\ IF states[visit[v].state].level \in {1, 2}
       THEN /\ token <= MaxTokens
            /\ challenges' = [t \in DOMAIN challenges \cup {token} |->
                   IF t = token THEN challengeTime + ChallengeTTL ELSE challenges[t]]
            /\ solved' = [t \in Issued \cup {token} |-> IF t = token THEN 0 ELSE solved[t]]
       ELSE UNCHANGED <<challenges, solved>>
    /\ visit' = [visit EXCEPT ![v] = IdleVisit]
    /\ UNCHANGED <<ipScores, states, challengeTime, lastSweep, worst>>

\* RecordEvent: one critical section
RecordEvent(ip, score) ==
    LET n == Cardinality(DOMAIN states) + 1 s == ipScores[ip] IN
    /\ IF s = 0
       THEN /\ n <= MaxStates
            /\ ipScores' = [ipScores EXCEPT ![ip] = n]
            /\ states' = [x \in 1 .. n |->
                   IF x = n THEN [score |-> score, level |-> 0, seen |-> challengeTime] ELSE states[x]]
            /\ worst' = [x \in 1 .. n |-> IF x = n THEN score ELSE worst[x]]
       ELSE /\ states' = [states EXCEPT ![s].score = score, ![s].seen = challengeTime]
            /\ worst' = [worst EXCEPT ![s] = IF score > @ THEN score ELSE @]
            /\ UNCHANGED ipScores
    /\ UNCHANGED <<challenges, visit, challengeTime, lastSweep, solved>>

\* One turn of cleanupLoop.  A state never written to counts as old.
adaptCleanup ==
    LET Old(s) == states[s].seen = -1 \/ challengeTime > states[s].seen + 2 * ChallengeTTL IN
    /\ challenges' = [t \in {u \in DOMAIN challenges : challengeTime <= challenges[u]} |-> challenges[t]]
    /\ ipScores' = [ip \in ChallengedIPs |->
           IF ipScores[ip] # 0 /\ Old(ipScores[ip]) THEN 0 ELSE ipScores[ip]]
    /\ lastSweep' = challengeTime
    /\ UNCHANGED <<states, visit, challengeTime, solved, worst>>

\* The ticker runs cleanupLoop once in a period.
ChallengeTick ==
    /\ challengeTime < MaxChallengeTime /\ challengeTime < lastSweep + CleanupPeriod
    /\ challengeTime' = challengeTime + 1
    /\ UNCHANGED <<ipScores, states, challenges, visit, lastSweep, solved, worst>>

AdaptNext ==
    \/ \E v \in Visits : \/ checkBlocked(v) \/ readScore(v) \/ writeScore(v) \/ determineLevel(v)
                         \/ compareLevel(v) \/ raiseLevel(v) \/ issueChallenge(v)
    \/ \E v \in Visits, t \in DOMAIN challenges : SolveChallenge(v, t)
    \/ \E v \in Visits, ip \in ChallengedIPs, t \in ThreatLevels : getOrCreateState(v, ip, t)
    \/ \E ip \in ChallengedIPs, t \in ThreatLevels : RecordEvent(ip, t)
    \/ adaptCleanup
    \/ ChallengeTick

AdaptSpec == AdaptInit /\ [][AdaptNext]_adaptVars

-----------------------------------------------------------------------------
\* A token lets one request through, never two, and none later than the
\* cleanup period after it expired: that is all that enforces its expiry.
TokenSpentOnce ==
    /\ \A t \in Issued : solved[t] <= 1
    /\ \A t \in DOMAIN challenges : challengeTime <= challenges[t] + CleanupPeriod

\* Whatever two requests of an address do to its state at once, its level
\* is never above the worst score it was given.
LevelIsEarned == \A s \in DOMAIN states : states[s].level <= worst[s]

\* Challenges can neither be redeemed twice nor be due without cause.
ChallengesSound == TokenSpentOnce /\ LevelIsEarned
=============================================================================
