------------------------ MODULE CredentialProtection ------------------------
(***************************************************************************)
(* internal/engine/credential.go: login attempts per user and requests per *)
(* address.  Inspect runs the detectors in turn, each in a critical        *)
(* section of its own, and stops at the first that decides.                *)
(*                                                                         *)
(* No tracker is ever removed.  detectLeakedCredential is switched off     *)
(* (hibpEnabled is FALSE), and the two checks of the token in the header   *)
(* are a property of the request: token is the rule it trips, or "".       *)
(***************************************************************************)
EXTENDS Integers, FiniteSets

CONSTANTS LoginUsers, LoginIPs, Passwords, LoginTokens, Logins, \* Logins: goroutines
          MaxAttempts, LockoutDuration,
          Backoffs,       \* pairs [above, wait] of detectBruteForce, attempts -> backoff
          MaxCredTime, MaxCredRequests, NoTracker

ASSUME CredAssumption ==
    /\ MaxAttempts \in Nat \ {0} /\ LockoutDuration \in Nat
    /\ MaxCredTime \in Nat /\ MaxCredRequests \in Nat
    /\ \A b \in Backoffs : b.above \in Nat /\ b.wait \in Nat
    /\ \E b \in Backoffs : b.above = 0
    /\ NoTracker \notin Nat \cup [attempts : Nat, locked : BOOLEAN, lockoutAt : Nat]

VARIABLES
    loginAttempts, \* user -> [attempts, locked, lockoutAt], or NoTracker
    passwordSpray, \* password -> [count, usernames], or NoTracker
    bruteForce,    \* address -> [attempts, nextTry], or NoTracker
    login,         \* goroutine -> its request and stage
    credTime, credCount,
    passed,        \* history: user -> attempts let through since the last lock
    lockedAt       \* history: user -> when it was locked last, or NoTracker

credVars == <<loginAttempts, passwordSpray, bruteForce, login, credTime, credCount, passed, lockedAt>>

IdleLogin == [stage |-> "idle"]

\* NewCredentialProtection
CredInit ==
    /\ loginAttempts = [u \in LoginUsers |-> NoTracker]
    /\ passwordSpray = [p \in Passwords |-> NoTracker]
    /\ bruteForce = [ip \in LoginIPs |-> NoTracker]
    /\ login = [l \in Logins |-> IdleLogin]
    /\ credTime = 0 /\ credCount = 0
    /\ passed = [u \in LoginUsers |-> 0]
    /\ lockedAt = [u \in LoginUsers |-> NoTracker]

\* Inspect of a POST with a user name and a password
InspectLogin(l, u, p, ip, token) ==
    /\ login[l] = IdleLogin /\ credCount < MaxCredRequests
    /\ credCount' = credCount + 1
    /\ login' = [login EXCEPT ![l] =
           [stage |-> "stuffing", user |-> u, password |-> p, ip |-> ip, token |-> token]]
    /\ UNCHANGED <<loginAttempts, passwordSpray, bruteForce, credTime, passed, lockedAt>>

\* Inspect of any other request, which the first two detectors pass over
InspectOther(l, ip, token) ==
    /\ login[l] = IdleLogin /\ credCount < MaxCredRequests
    /\ credCount' = credCount + 1
    /\ login' = [login EXCEPT ![l] = [stage |-> "brute", ip |-> ip, token |-> token]]
    /\ UNCHANGED <<loginAttempts, passwordSpray, bruteForce, credTime, passed, lockedAt>>

Proceed(l, stage) == login' = [login EXCEPT ![l].stage = stage]
Refuse(l) == login' = [login EXCEPT ![l] = IdleLogin]

\* Mutant: attempts pass up to the number that locks the account.
OverLimitLate(n) == n > 3 * MaxAttempts
OverLimit(n) == n > MaxAttempts

\* Mutant: the lockout ends a tick early.
InLockoutShort(t) == t.locked /\ credTime - t.lockoutAt < LockoutDuration - 1
InLockout(t) == t.locked /\ credTime - t.lockoutAt < LockoutDuration

\* The attempt is counted before anything is decided, also while locked.
detectCredentialStuffing(l) ==
    LET u == login[l].user
        t == loginAttempts[u]
        n == t.attempts + 1
        Pass == Proceed(l, "spray") /\ passed' = [passed EXCEPT ![u] = @ + 1]
        Deny == Refuse(l) /\ UNCHANGED passed
        Set(r) == loginAttempts' = [loginAttempts EXCEPT ![u] = r]
    IN
    /\ login[l].stage = "stuffing"
    /\ \/ t = NoTracker /\ Set([attempts |-> 1, locked |-> FALSE, lockoutAt |-> 0])
                        /\ Pass /\ UNCHANGED lockedAt
       \/ /\ t # NoTracker
          /\ \/ InLockout(t)
                /\ Set([t EXCEPT !.attempts = n]) /\ Deny /\ UNCHANGED lockedAt
             \/ t.locked /\ ~InLockout(t)
                /\ Set([t EXCEPT !.attempts = 0, !.locked = FALSE]) /\ Pass /\ UNCHANGED lockedAt
             \/ ~t.locked /\ n > 3 * MaxAttempts
                /\ Set([attempts |-> n, locked |-> TRUE, lockoutAt |-> credTime])
                /\ lockedAt' = [lockedAt EXCEPT ![u] = credTime]
                /\ Refuse(l) /\ passed' = [passed EXCEPT ![u] = 0]
             \/ ~t.locked /\ OverLimit(n) /\ n <= 3 * MaxAttempts
                /\ Set([t EXCEPT !.attempts = n]) /\ Deny /\ UNCHANGED lockedAt
             \/ ~t.locked /\ ~OverLimit(n) /\ n <= 3 * MaxAttempts
                /\ Set([t EXCEPT !.attempts = n]) /\ Pass /\ UNCHANGED lockedAt
    /\ UNCHANGED <<passwordSpray, bruteForce, credTime, credCount>>

\* The names are counted but never stored, so neither limit is ever reached.
detectPasswordSpray(l) ==
    LET p == login[l].password t == passwordSpray[p] IN
    /\ login[l].stage = "spray"
    /\ passwordSpray' = [passwordSpray EXCEPT ![p] =
           IF t = NoTracker THEN [count |-> 1, usernames |-> {}] ELSE [t EXCEPT !.count = @ + 1]]
    /\ LET c == passwordSpray'[p].count n == Cardinality(passwordSpray'[p].usernames) IN
       IF t # NoTracker /\ ((n >= 10 /\ c >= 50) \/ (c >= 20 /\ n >= 5))
       THEN Refuse(l) ELSE Proceed(l, "brute")
    /\ UNCHANGED <<loginAttempts, bruteForce, credTime, credCount, passed, lockedAt>>

Backoff(n) == LET b == CHOOSE b \in Backoffs : b.above < n /\
                           \A c \in Backoffs : c.above < n => c.above <= b.above
              IN b.wait

\* Every request of an address counts, a login or not.  The checks of the
\* token follow.
detectBruteForce(l) ==
    LET ip == login[l].ip t == bruteForce[ip] n == t.attempts + 1 IN
    /\ login[l].stage = "brute"
    /\ bruteForce' = [bruteForce EXCEPT ![ip] =
           CASE t = NoTracker -> [attempts |-> 1, nextTry |-> credTime]
             [] t # NoTracker /\ credTime < t.nextTry -> [t EXCEPT !.attempts = n]
             [] OTHER -> [attempts |-> n, nextTry |-> credTime + Backoff(n)]]
    /\ IF t # NoTracker /\ credTime < t.nextTry THEN Refuse(l) ELSE Proceed(l, "token")
    /\ UNCHANGED <<loginAttempts, passwordSpray, credTime, credCount, passed, lockedAt>>

\* validateJWT and detectOAuthAbuse: the request is refused, or it is through
validateToken(l) ==
    /\ login[l].stage = "token"
    /\ IF login[l].token # "" THEN Refuse(l) ELSE Proceed(l, "through")
    /\ UNCHANGED <<loginAttempts, passwordSpray, bruteForce, credTime, credCount, passed, lockedAt>>

Finish(l) ==
    /\ login[l].stage = "through"
    /\ Refuse(l)
    /\ UNCHANGED <<loginAttempts, passwordSpray, bruteForce, credTime, credCount, passed, lockedAt>>

CredTick ==
    /\ credTime < MaxCredTime
    /\ credTime' = credTime + 1
    /\ UNCHANGED <<loginAttempts, passwordSpray, bruteForce, login, credCount, passed, lockedAt>>

CredNext ==
    \/ \E l \in Logins : \/ detectCredentialStuffing(l) \/ detectPasswordSpray(l)
                         \/ detectBruteForce(l) \/ validateToken(l) \/ Finish(l)
    \/ \E l \in Logins, u \in LoginUsers, p \in Passwords, ip \in LoginIPs, t \in LoginTokens :
           InspectLogin(l, u, p, ip, t)
    \/ \E l \in Logins, ip \in LoginIPs, t \in LoginTokens : InspectOther(l, ip, t)
    \/ CredTick

CredSpec == CredInit /\ [][CredNext]_credVars

-----------------------------------------------------------------------------
\* However the attempts on an account interleave, no more than maxAttempts
\* of them get past the count between two lockouts (and the one that ends a
\* lockout): the lock resets the counter, and the waiting attempts count.
PassesBounded == \A u \in LoginUsers : passed[u] <= MaxAttempts + 1

\* An account is not let through while it is locked, and it is locked from
\* the attempt that exceeds three times the limit on for the whole lockout.
LockoutHonoured ==
    [][\A u \in LoginUsers :
         lockedAt[u] # NoTracker /\ credTime - lockedAt[u] < LockoutDuration
            => passed'[u] <= passed[u] /\ loginAttempts'[u].locked]_credVars

\* Guessing is bounded: few attempts on an account get through before its lockout, and
\* none during it.
GuessesBounded == []PassesBounded /\ LockoutHonoured
=============================================================================
