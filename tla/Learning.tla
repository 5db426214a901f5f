------------------------------- MODULE Learning -------------------------------
(***************************************************************************)
(* internal/engine/shadow.go, the LearningEngine that Inspect feeds in     *)
(* learning mode, and internal/engine/confidence.go.  Every operation is   *)
(* one critical section.  Of a baseline, the counts and the time of last   *)
(* use; rates, methods and status codes are only reported.                 *)
(***************************************************************************)
EXTENDS Integers, FiniteSets

CONSTANTS Paths, RuleNames,
          MinRecords,      \* 100: more records than this before a path is listed
          WhitelistTTL,    \* 7 days, in ticks
          BaselineTTL,     \* 72 hours, in ticks
          MaxRecords, MaxLearnTime, MaxFeedback, \* bounds
          Cent,            \* a confidence of 0.01, in the units baseConfidence is counted in
          Absent

ASSUME LearningAssumption ==
    /\ {MinRecords, WhitelistTTL, BaselineTTL, MaxRecords, MaxLearnTime, MaxFeedback} \subseteq Nat
    /\ Cent \in Nat \ {0}
    /\ \A n \in 1 .. MaxFeedback : (20 * Cent) % n = 0   \* every penalty is a whole number
    /\ Absent \notin Nat \cup [total : Nat, allowed : Nat, seen : Nat]

VARIABLES
    baselines,   \* le.baselines: path -> [total, allowed, seen], or Absent
    whitelist,   \* le.whitelist: path -> expiresAt, or Absent
    learnTime,   \* time.Now
    records,     \* history: the decisions recorded for a path since it was last
                 \*   idle for longer than BaselineTTL when cleanup ran
    stability    \* cs.stability: rule -> [bad, false, base]

learnVars == <<baselines, whitelist, learnTime, records, stability>>

\* baseConfidence is a float; for as many reports as there are, some unit makes 0.01 and
\* every penalty a whole number of it
Hundredths(n) == n * Cent

LearnInit ==
    /\ baselines = [p \in Paths |-> Absent]
    /\ whitelist = [p \in Paths |-> Absent]
    /\ learnTime = 0
    /\ records = [p \in Paths |-> [allowed |-> 0, other |-> 0]]
    /\ stability = [r \in RuleNames |-> [bad |-> 0, false |-> 0, base |-> Hundredths(85)]]

\* Mutant: MinRecords are enough.
EnoughAtMin(b) == b.total >= MinRecords /\ b.allowed > (b.total * 90) \div 100

\* Record: the counts first, then the test, which a refused request can pass too
Enough(b) == b.total > MinRecords /\ b.allowed > (b.total * 90) \div 100

\* Mutant: a path that is listed is listed again.
autoWhitelistAgain(p, b) ==
    IF Enough(b) THEN [whitelist EXCEPT ![p] = learnTime + WhitelistTTL] ELSE whitelist

\* autoWhitelist leaves an entry that is there, expired or not
autoWhitelist(p, b) ==
    IF Enough(b) /\ whitelist[p] = Absent
    THEN [whitelist EXCEPT ![p] = learnTime + WhitelistTTL] ELSE whitelist

Record(p, allowed) ==
    LET old == IF baselines[p] = Absent THEN [total |-> 0, allowed |-> 0, seen |-> 0]
               ELSE baselines[p]
        new == [total |-> old.total + 1, seen |-> learnTime,
                allowed |-> old.allowed + (IF allowed THEN 1 ELSE 0)]
    IN  /\ records[p].allowed + records[p].other < MaxRecords
        /\ baselines' = [baselines EXCEPT ![p] = new]
        /\ whitelist' = autoWhitelist(p, new)
        /\ records' = IF allowed THEN [records EXCEPT ![p].allowed = @ + 1]
                                 ELSE [records EXCEPT ![p].other = @ + 1]
        /\ UNCHANGED <<learnTime, stability>>

\* cleanupLoop; an entry that is listed outlives its baseline
LearnCleanup ==
    LET idle(p) == baselines[p] # Absent /\ learnTime > baselines[p].seen + BaselineTTL
    IN  /\ whitelist' = [p \in Paths |->
               IF whitelist[p] # Absent /\ learnTime > whitelist[p] THEN Absent ELSE whitelist[p]]
        /\ baselines' = [p \in Paths |-> IF idle(p) THEN Absent ELSE baselines[p]]
        /\ records' = [p \in Paths |->
               IF idle(p) THEN [allowed |-> 0, other |-> 0] ELSE records[p]]
        /\ UNCHANGED <<learnTime, stability>>

LearnTick ==
    /\ learnTime < MaxLearnTime
    /\ learnTime' = learnTime + 1
    /\ UNCHANGED <<baselines, whitelist, records, stability>>

IsWhitelisted(p) == whitelist[p] # Absent /\ learnTime <= whitelist[p]

Feedback(r) == stability[r].bad + stability[r].false
Least(a, b) == IF a < b THEN a ELSE b
Most(a, b) == IF a > b THEN a ELSE b

RecordTruePositive(r) ==
    /\ Feedback(r) < MaxFeedback
    /\ stability' = [stability EXCEPT ![r].bad = @ + 1,
                        ![r].base = Least(Hundredths(99), @ + Hundredths(1))]
    /\ UNCHANGED <<baselines, whitelist, learnTime, records>>

\* Mutant: no lower bound.
RecordFalsePositiveUnbounded(r) ==
    /\ Feedback(r) < MaxFeedback
    /\ stability' = [stability EXCEPT ![r].false = @ + 1,
           ![r].base = @ - (Hundredths(20) * (stability[r].false + 1)) \div (Feedback(r) + 1)]
    /\ UNCHANGED <<baselines, whitelist, learnTime, records>>

\* the penalty grows with the share of false positives, this one included
RecordFalsePositive(r) ==
    /\ Feedback(r) < MaxFeedback
    /\ stability' = [stability EXCEPT ![r].false = @ + 1,
           ![r].base = Most(Hundredths(50),
               @ - (Hundredths(20) * (stability[r].false + 1)) \div (Feedback(r) + 1))]
    /\ UNCHANGED <<baselines, whitelist, learnTime, records>>

\* GetConfidence, as a numerator over Hundredths(100) and the number of decisions
GetConfidence(r) == IF Feedback(r) = 0 THEN stability[r].base ELSE stability[r].base * stability[r].bad
Decisions(r) == Most(1, Feedback(r))

LearnNext ==
    \/ \E p \in Paths, allowed \in BOOLEAN : Record(p, allowed)
    \/ LearnCleanup \/ LearnTick

ConfidenceNext == \E r \in RuleNames : RecordTruePositive(r) \/ RecordFalsePositive(r)

LearnSpec == LearnInit /\ [][LearnNext \/ ConfidenceNext]_learnVars

-----------------------------------------------------------------------------
(* Properties *)

\* A path is put on the whitelist only on fresh evidence: of the requests recorded
\* since it was last forgotten there are more than MinRecords, and, without the
\* rounding of the code's integer division, more than nine in ten were allowed.
WhitelistEarned ==
    [][\A p \in Paths : whitelist[p] = Absent /\ whitelist'[p] # Absent =>
           LET n == records'[p].allowed + records'[p].other
           IN  n > MinRecords /\ 10 * records'[p].allowed > 9 * n]_learnVars

\* No grant lasts longer than WhitelistTTL: while a path is on the whitelist, later
\* traffic does not prolong it, and only a cleanup makes room for a new grant.
GrantNotProlonged ==
    [][\A p \in Paths : whitelist[p] # Absent /\ whitelist'[p] # whitelist[p] =>
           whitelist'[p] = Absent /\ ~IsWhitelisted(p)]_learnVars

\* Of two rules with equally many reports, one that was never wrong is trusted at
\* least as much as one that was, and no base confidence leaves [0.5, 0.99].
RightRulesTrusted ==
    /\ \A r \in RuleNames : stability[r].base \in Hundredths(50) .. Hundredths(99)
    /\ \A r, s \in RuleNames :
           /\ Feedback(r) = Feedback(s) /\ stability[r].false = 0
           => GetConfidence(r) >= GetConfidence(s)

\* Trust is earned: of a path by its traffic and for a bounded time, of a rule by the
\* feedback on it.
LearningSound == WhitelistEarned /\ GrantNotProlonged /\ []RightRulesTrusted
=============================================================================
