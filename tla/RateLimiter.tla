----------------------------- MODULE RateLimiter -----------------------------
(***************************************************************************)
(* internal/ratelimit/ratelimit.go.  Inspect reads the rate and the burst  *)
(* of a key, each on its own, and then runs the check of the configured    *)
(* algorithm; SetRateLimit, SetPriority and the cleanup goroutine run      *)
(* beside it.                                                              *)
(*                                                                         *)
(* A check is one step: the two window checks hold rl.mu throughout, and   *)
(* the two bucket checks lock the bucket before they release rl.mu, which  *)
(* cleanup needs to delete it.  getBurst alone reads without rl.mu, and so *)
(* while SetPriority writes: it may see the old value or the new one.  (It *)
(* may also end the process, where the runtime notices the race: then the  *)
(* behaviour stops.)  Time is counted in ticks, Second of them to a second *)
(* and Milli of them to a millisecond.  Token counts are kept in units of  *)
(* 1/Second, so that the refill of one tick is a whole number; rounding of *)
(* floats is left out.                                                     *)
(* A sliding window is a set of calls, each with its time and its number   *)
(* among the admitted calls of its key: time.Now never goes back, so the   *)
(* first entry of the slice in the code is the one with the least time.    *)
(***************************************************************************)
EXTENDS Integers, FiniteSets, FiniteSetsExt

CONSTANTS Callers,      \* goroutines that call Inspect
          Keys,         \* what is limited: addresses, users, ...
          Algorithms,   \* the algorithms the limiter may be built with
          DefaultRate,  \* rl.defaultRate
          DefaultBurst, \* rl.defaultBurst
          Rates,        \* the rates SetRateLimit is called with
          Second,       \* ticks per second; rl.windowSize is one second
          Milli,        \* ticks per millisecond
          CleanupTick,  \* rl.cleanupTick
          MaxTime,      \* bound on the clock
          MaxCount,     \* bound on the calls in one fixed window
          MaxChanges    \* bound on the changes of the limits

ASSUME LimiterAssumption ==
    /\ Algorithms \subseteq {"fixed_window", "sliding_window", "token_bucket",
                             "leaky_bucket"}
    /\ DefaultRate \in Nat /\ DefaultBurst \in Nat \ {0}
    /\ Rates \subseteq Nat /\ Keys # {}
    /\ \E m \in Rates \cup {DefaultRate, 1} : \A r \in Rates \cup {DefaultRate, 1} : r <= m
    /\ Second \in Nat \ {0} /\ Milli \in Nat \ {0} /\ CleanupTick \in Nat /\ MaxTime \in Nat
    /\ MaxCount \in Nat /\ MaxChanges \in Nat

VARIABLES
    algorithm,  \* rl.algorithm, fixed when the limiter is built
    clock,      \* time.Now
    rate,       \* the per-key limits, with the default where none is set
    premium,    \* rl.priorityQueues: what a read of it may see, which is two
                \*   values while SetPriority writes
    pc,         \* where each Inspect is
    call,       \* its key and the rate and burst it has read
    fixed,      \* rl.fixedWindows: per key and second; count 0 if absent
    sliding,    \* rl.slidingWindows
    tokens,     \* rl.tokenBuckets
    leaky,      \* rl.leakyBuckets; of the queue only its length
    admits,     \* history: the admitted calls of each key
    promise,    \* history: the earliest time the refusals since the last admitted
                \*   call have named; none once a limit has been changed
    changes     \* history: how often a limit has been changed

stateVars == <<fixed, sliding, tokens, leaky>>
vars == <<algorithm, clock, rate, premium, pc, call, stateVars, admits, promise,
          changes>>

Times == 0 .. MaxTime
NoBucket == [level |-> 0, capacity |-> 0, rate |-> 0, last |-> 0]

MaxRate == Max(Rates \cup {DefaultRate, 1})

\* getBurst, of what priorityQueues says
Burst(high) == IF high THEN 2 * DefaultBurst ELSE DefaultBurst

\* rl.mu is not held over from a step: only SetPriority, while it writes, does that.
Unlocked == \A k \in Keys : premium[k] # BOOLEAN

\* A duration cut down to whole milliseconds
Cut(d) == (d \div Milli) * Milli

Init ==
    /\ algorithm \in Algorithms
    /\ clock = 0
    /\ rate = [k \in Keys |-> DefaultRate]
    /\ premium = [k \in Keys |-> {FALSE}]
    /\ pc = [p \in Callers |-> "idle"]
    /\ call = [p \in Callers |-> [key |-> CHOOSE k \in Keys : TRUE,
                                  rate |-> 0, burst |-> 0]]
    /\ fixed = [k \in Keys |-> [w \in Times |-> [ts |-> 0, count |-> 0]]]
    /\ sliding = [k \in Keys |-> {}]
    /\ tokens = [k \in Keys |-> NoBucket]
    /\ leaky = [k \in Keys |-> NoBucket]
    /\ admits = [k \in Keys |-> {}]
    /\ promise = [k \in Keys |-> MaxTime + 1]
    /\ changes = 0

-----------------------------------------------------------------------------
(* Inspect                                                                 *)

getRate(p, k) ==
    /\ pc[p] = "idle" /\ Unlocked
    /\ call' = [call EXCEPT ![p] = [key |-> k, rate |-> rate[k], burst |-> 0]]
    /\ pc' = [pc EXCEPT ![p] = "burst"]
    /\ UNCHANGED <<algorithm, clock, rate, premium, stateVars, admits, promise,
                   changes>>

getBurst(p) ==
    /\ pc[p] = "burst"
    /\ \E high \in premium[call[p].key] : call' = [call EXCEPT ![p].burst = Burst(high)]
    /\ pc' = [pc EXCEPT ![p] = "check"]
    /\ UNCHANGED <<algorithm, clock, rate, premium, stateVars, admits, promise,
                   changes>>

\* A call of key k that is admitted now
Admission(k) == [at |-> clock, nth |-> Cardinality(admits[k])]

\* The Decision of a check: Allowed, and when it is refused, when to come back.
Answer(p, allowed, retryAt) ==
    LET k == call[p].key
    IN  /\ admits' = IF allowed THEN [admits EXCEPT ![k] = @ \cup {Admission(k)}] ELSE admits
        /\ promise' = [promise EXCEPT ![k] =
                          IF allowed \/ changes > 0 THEN MaxTime + 1
                          ELSE Min({retryAt, promise[k]})]
        /\ call' = [call EXCEPT ![p].rate = 0, ![p].burst = 0]
        /\ pc' = [pc EXCEPT ![p] = "idle"]

Limit(p) == call[p].rate + call[p].burst

\* Mutant: one more than the limit fits.
FixedFitsOver(n, limit) == n <= limit + 1

FixedFits(n, limit) == n <= limit

checkFixedWindow(p) ==
    /\ pc[p] = "check" /\ algorithm = "fixed_window" /\ Unlocked
    /\ LET k == call[p].key
           w == clock \div Second
           e == fixed[k][w]
           fresh == e.count = 0 \/ clock - e.ts > Second
       IN  /\ e.count < MaxCount
           /\ fixed' = [fixed EXCEPT ![k][w] =
                           IF fresh THEN [ts |-> clock, count |-> 1]
                           ELSE [e EXCEPT !.count = @ + 1]]
           /\ Answer(p, fresh \/ FixedFits(e.count + 1, Limit(p)), clock + Second)
    /\ UNCHANGED <<algorithm, clock, rate, premium, sliding, tokens, leaky, changes>>

\* Mutant: an entry that is exactly one window old still counts.
ValidInclusive(entries, age) == {e \in entries : e.at + age >= clock}

\* The entries of a window that are not older than age.
Valid(entries, age) == {e \in entries : e.at + age > clock}

Oldest(entries) == Min({e.at : e \in entries})

\* Mutant: one more than the limit fits.
SlidingFullOver(n, limit) == n > limit

SlidingFull(n, limit) == n >= limit

checkSlidingWindow(p) ==
    /\ pc[p] = "check" /\ algorithm = "sliding_window" /\ Unlocked
    /\ LET k == call[p].key
           valid == Valid(sliding[k], Second)
           full == SlidingFull(Cardinality(valid), Limit(p))
       IN  /\ sliding' = [sliding EXCEPT ![k] =
                             IF full THEN valid ELSE valid \cup {Admission(k)}]
           /\ Answer(p, ~full, IF full THEN Oldest(valid) + Second ELSE clock)
    /\ UNCHANGED <<algorithm, clock, rate, premium, fixed, tokens, leaky, changes>>

\* The bucket of a key, made with the given capacity if there is none, and with
\* a rate of at least one; the capacity and the rate of an existing bucket stay.
Bucket(b, capacity, r, level) ==
    IF b # NoBucket THEN b
    ELSE [level |-> level, capacity |-> capacity, rate |-> Max({r, 1}), last |-> clock]

\* Mutant: the refill is not capped.
RefilledUncapped(b) ==
    [b EXCEPT !.level = @ + (clock - b.last) * b.rate, !.last = clock]

\* Tokens since the last refill, up to the capacity.
Refilled(b) ==
    [b EXCEPT !.level = Min({b.capacity, @ + (clock - b.last) * b.rate}),
              !.last = clock]

checkTokenBucket(p) ==
    /\ pc[p] = "check" /\ algorithm = "token_bucket" /\ Unlocked
    /\ LET k == call[p].key
           cap == call[p].burst * Second
           b == Refilled(Bucket(tokens[k], cap, call[p].rate, cap))
           ok == b.level >= Second
       IN  /\ tokens' = [tokens EXCEPT ![k] =
                            IF ok THEN [b EXCEPT !.level = @ - Second] ELSE b]
           \* refillTime, the time of one token, is cut down to milliseconds, so that
           \* ResetAt is up to one too early: the token is there a millisecond later.
           /\ Answer(p, ok, clock + Cut(Second \div b.rate) + Milli)
    /\ UNCHANGED <<algorithm, clock, rate, premium, fixed, sliding, leaky, changes>>

\* leakRate, the time one request takes to leak out.
LeakTime(r) == Max({1, Second \div r})

\* Whole leaks since lastLeak; the fraction is dropped with it.
Leaked(b) ==
    LET n == (clock - b.last) \div LeakTime(b.rate)
    IN  IF n = 0 THEN b
        ELSE [b EXCEPT !.level = IF n >= @ THEN 0 ELSE @ - n, !.last = clock]

\* When it is refused, RetryAfter is leakRate, again cut down to milliseconds.  Its
\* ResetAt, which counts burst leaks from when the oldest call came in, is no time to
\* come back at: Leaked drops fractions, and it may be over before the next leak.
checkLeakyBucket(p) ==
    /\ pc[p] = "check" /\ algorithm = "leaky_bucket" /\ Unlocked
    /\ LET k == call[p].key
           b == Leaked(Bucket(leaky[k], call[p].burst, call[p].rate, 0))
           ok == b.level < b.capacity
       IN  /\ leaky' = [leaky EXCEPT ![k] =
                           IF ok THEN [b EXCEPT !.level = @ + 1] ELSE b]
           /\ Answer(p, ok, clock + Cut(LeakTime(b.rate)) + Milli)
    /\ UNCHANGED <<algorithm, clock, rate, premium, fixed, sliding, tokens, changes>>

-----------------------------------------------------------------------------
(* Limits, cleanup and time                                                *)

SetRateLimit(k, r) ==
    /\ r # rate[k] /\ Unlocked
    /\ rate' = [rate EXCEPT ![k] = r]
    /\ changes < MaxChanges
    /\ changes' = changes + 1
    /\ promise' = [l \in Keys |-> MaxTime + 1]
    /\ UNCHANGED <<algorithm, clock, premium, pc, call, stateVars, admits>>

\* The write to priorityQueues begins, under rl.mu, and ends.
SetPriority(k) ==
    /\ Unlocked
    /\ premium' = [premium EXCEPT ![k] = BOOLEAN]
    /\ changes < MaxChanges
    /\ changes' = changes + 1
    /\ promise' = [l \in Keys |-> MaxTime + 1]
    /\ UNCHANGED <<algorithm, clock, rate, pc, call, stateVars, admits>>

SetPriorityDone(k, high) ==
    /\ premium[k] = BOOLEAN
    /\ premium' = [premium EXCEPT ![k] = {high}]
    /\ UNCHANGED <<algorithm, clock, rate, pc, call, stateVars, admits, promise, changes>>

\* One pass of cleanupLoop, under rl.mu.
cleanup ==
    /\ Unlocked
    /\ fixed' = [k \in Keys |-> [w \in Times |->
                    IF clock - fixed[k][w].ts > 2 * Second
                    THEN [ts |-> 0, count |-> 0] ELSE fixed[k][w]]]
    /\ sliding' = [k \in Keys |-> Valid(sliding[k], 2 * Second)]
    /\ tokens' = [k \in Keys |->
                    IF clock - tokens[k].last > 2 * CleanupTick
                    THEN NoBucket ELSE tokens[k]]
    /\ leaky' = [k \in Keys |->
                    IF clock - leaky[k].last > 2 * CleanupTick /\ leaky[k].level = 0
                    THEN NoBucket ELSE leaky[k]]
    /\ UNCHANGED <<algorithm, clock, rate, premium, pc, call, admits, promise, changes>>

Tick ==
    /\ clock < MaxTime
    /\ clock' = clock + 1
    /\ UNCHANGED <<algorithm, rate, premium, pc, call, stateVars, admits, promise,
                   changes>>

-----------------------------------------------------------------------------
Inspect(p) ==
    \/ \E k \in Keys : getRate(p, k)
    \/ getBurst(p)
    \/ checkFixedWindow(p)
    \/ checkSlidingWindow(p)
    \/ checkTokenBucket(p)
    \/ checkLeakyBucket(p)

Next ==
    \/ \E p \in Callers : Inspect(p)
    \/ \E k \in Keys : \/ \E r \in Rates : SetRateLimit(k, r)
                       \/ SetPriority(k)
                       \/ \E high \in BOOLEAN : SetPriorityDone(k, high)
    \/ cleanup
    \/ Tick

Spec == Init /\ [][Next]_vars

-----------------------------------------------------------------------------
(* Properties                                                              *)

Buckets == [level : Nat, capacity : Nat, rate : Nat, last : Times]

\* Every variable has its type, and no bucket is fuller than its capacity.
TypeOK ==
    /\ algorithm \in Algorithms /\ clock \in Times
    /\ rate \in [Keys -> Rates \cup {DefaultRate}]
    /\ premium \in [Keys -> {{FALSE}, {TRUE}, BOOLEAN}] /\ changes \in 0 .. MaxChanges
    /\ pc \in [Callers -> {"idle", "burst", "check"}]
    /\ call \in [Callers -> [key : Keys, rate : Nat, burst : Nat]]
    /\ fixed \in [Keys -> [Times -> [ts : Times, count : Nat]]]
    /\ sliding \in [Keys -> SUBSET [at : Times, nth : Nat]]
    /\ tokens \in [Keys -> Buckets] /\ leaky \in [Keys -> Buckets]
    /\ \A k \in Keys : /\ tokens[k].level <= tokens[k].capacity
                       /\ leaky[k].level <= leaky[k].capacity
    /\ admits \in [Keys -> SUBSET [at : Times, nth : Nat]]
    /\ promise \in [Keys -> Nat]

\* Calls admitted for k at times from a to b.
Admitted(k, a, b) == Cardinality({e \in admits[k] : a <= e.at /\ e.at <= b})

MaxLimit == MaxRate + 2 * DefaultBurst

\* A bucket of tokens that cleanup may drop would be full again.
CleanupFull == 2 * DefaultBurst * Second <= (2 * CleanupTick + 1) * MaxRate

\* Whether n calls from time a to time b are within the promise of the algorithm: a
\* fixed window admits no more than the limit in a calendar second, a sliding one in
\* any second, a token bucket no more than its burst and what was refilled (as long as
\* cleanup drops none that is not full), a leaky one no more than its capacity and what
\* leaked out.
Within(n, a, b) ==
    LET l == LeakTime(MaxRate)
    IN  /\ algorithm = "fixed_window" /\ a \div Second = b \div Second => n <= MaxLimit
        /\ algorithm = "sliding_window" /\ b - a < Second => n <= MaxLimit
        /\ algorithm = "token_bucket" /\ CleanupFull =>
               n * Second <= 2 * DefaultBurst * Second + (b - a) * MaxRate
        /\ algorithm = "leaky_bucket" => n <= 2 * DefaultBurst + (b - a + l - 1) \div l

\* Every interval of time keeps the promise of the algorithm, whatever the callers, the
\* cleanup and changes of the limits (which it bounds by their largest values) do.
AdmissionBound ==
    \A k \in Keys, a \in Times : \A b \in a .. clock : Within(Admitted(k, a, b), a, b)

\* A refused caller that comes back when its Decision said (at ResetAt, for the token
\* bucket the millisecond after, for the leaky one the millisecond after RetryAfter),
\* with nobody admitted and no limit changed in between, is admitted.
ResetHonoured ==
    [][\A p \in Callers :
          LET k == call[p].key
          IN  (pc[p] = "check" /\ pc'[p] = "idle" /\ promise[k] <= clock)
              => admits'[k] # admits[k]]_vars

\* The limiter keeps its word to both sides: no interval sees more admissions than
\* the limits in force allow, and a caller who waits as long as it was told is admitted.
LimiterHonest == [](TypeOK /\ AdmissionBound) /\ ResetHonoured
==============================================================================
