-------------------------- MODULE InspectorProofs --------------------------
(***************************************************************************)
(* The inspectors that keep state between requests, and those that ask a   *)
(* server and keep what it says, each for any number of clients and        *)
(* goroutines, and for any limits.                                         *)
(***************************************************************************)
EXTENDS CredentialProtection, DDoSProtection, WebSocketInspector, AdaptiveChallenge,
        BehavioralEngine, Auth, Reputation, MLClient, FiniteSetTheorems, TLAPS

-----------------------------------------------------------------------------
(***************************************************************************)
(* Login attempts, for any number of accounts, addresses and goroutines.   *)
(***************************************************************************)
Tracker == [attempts : Nat, locked : BOOLEAN, lockoutAt : Nat]
Stages == {"stuffing", "spray", "brute", "token", "through"}
LoginCall == [stage : Stages, user : LoginUsers, password : Passwords, ip : LoginIPs, token : LoginTokens]
OtherCall == [stage : Stages, ip : LoginIPs, token : LoginTokens]

CredTypeOK ==
    /\ loginAttempts \in [LoginUsers -> Tracker \cup {NoTracker}]
    /\ login \in [Logins -> LoginCall \cup OtherCall \cup {IdleLogin}]
    /\ \A l \in Logins : login[l].stage \in {"stuffing", "spray"} => login[l] \in LoginCall
    /\ credTime \in Nat
    /\ passed \in [LoginUsers -> Nat]
    /\ lockedAt \in [LoginUsers -> Nat \cup {NoTracker}]

\* An account without a tracker has let nobody through; a locked one was locked when it
\* says, and has let nobody through since; of one that is not, the attempts bound what
\* was let through, and the last lockout is over.
AccountOK(u) ==
    /\ loginAttempts[u] = NoTracker => passed[u] = 0 /\ lockedAt[u] = NoTracker
    /\ loginAttempts[u] # NoTracker /\ loginAttempts[u].locked =>
           passed[u] = 0 /\ lockedAt[u] = loginAttempts[u].lockoutAt
    /\ loginAttempts[u] # NoTracker /\ ~loginAttempts[u].locked =>
           /\ passed[u] <= MaxAttempts + 1 /\ passed[u] <= loginAttempts[u].attempts + 1
           /\ lockedAt[u] # NoTracker => credTime - lockedAt[u] >= LockoutDuration

CredInv == CredTypeOK /\ \A u \in LoginUsers : AccountOK(u)

\* What the proofs need of the constants: limits are positive, and NoTracker is none.
LEMMA CredConstants ==
    /\ MaxAttempts \in Nat /\ MaxAttempts >= 1 /\ LockoutDuration \in Nat
    /\ NoTracker \notin Nat /\ NoTracker \notin Tracker
BY CredAssumption DEF Tracker

\* Nobody has tried to log in yet.
LEMMA InitCred == CredInit => CredInv
BY CredConstants DEF CredInit, CredInv, CredTypeOK, AccountOK, IdleLogin

\* A step that leaves the accounts alone
LEMMA OtherSteps ==
    ASSUME CredInv, UNCHANGED <<loginAttempts, passed, lockedAt>>,
           NEW l \in Logins, NEW d \in LoginCall \cup OtherCall \cup {IdleLogin},
           d.stage \in {"stuffing", "spray"} => d \in LoginCall,
           login' = [login EXCEPT ![l] = d], UNCHANGED credTime
    PROVE  CredInv'
BY DEF CredInv, CredTypeOK, AccountOK

\* A call that goes on to a later stage
LEMMA Proceeded ==
    ASSUME CredInv, NEW l \in Logins, NEW st \in {"brute", "token", "through"}, login[l].stage \in Stages, Proceed(l, st)
    PROVE  \E d \in LoginCall \cup OtherCall \cup {IdleLogin} :
               /\ d.stage \in {"stuffing", "spray"} => d \in LoginCall
               /\ login' = [login EXCEPT ![l] = d]
<1>1. login[l] \in LoginCall \cup OtherCall
  BY DEF CredInv, CredTypeOK, Stages, IdleLogin
<1>2. CASE login[l] \in LoginCall
  <2>1. PICK c \in LoginCall : c = login[l]
    BY <1>2
  <2> DEFINE d == [c EXCEPT !.stage = st]
  <2>2. d \in LoginCall /\ d.stage = st
    BY DEF LoginCall, Stages
  <2>3. login' = [login EXCEPT ![l] = d]
    BY <2>1 DEF Proceed
  <2> HIDE DEF d
  <2> QED
    BY <2>2, <2>3
<1>3. CASE login[l] \in OtherCall
  <2>1. PICK c \in OtherCall : c = login[l]
    BY <1>3
  <2> DEFINE d == [c EXCEPT !.stage = st]
  <2>2. d \in OtherCall /\ d.stage = st
    BY DEF OtherCall, Stages
  <2>3. login' = [login EXCEPT ![l] = d]
    BY <2>1 DEF Proceed
  <2> HIDE DEF d
  <2> QED
    BY <2>2, <2>3
<1> QED
  BY <1>1, <1>2, <1>3

\* What detectCredentialStuffing makes of one account, by the state it finds
Attempt(u, r, p, at) ==
    /\ loginAttempts' = [loginAttempts EXCEPT ![u] = r]
    /\ passed' = [passed EXCEPT ![u] = p]
    /\ lockedAt' = [lockedAt EXCEPT ![u] = at]
    /\ UNCHANGED credTime

\* What detectCredentialStuffing does to the account of its call: a lockout that holds
\* refuses it, one that is over starts the count anew, and the last attempt locks.
LEMMA AttemptCases ==
    ASSUME CredInv, NEW l \in Logins, detectCredentialStuffing(l)
    PROVE  \E u \in LoginUsers, r \in Tracker :
             /\ login[l].user = u
             /\ \/ loginAttempts[u] = NoTracker /\ r.attempts = 1 /\ ~r.locked
                   /\ Attempt(u, r, passed[u] + 1, lockedAt[u])
                \/ /\ loginAttempts[u] \in Tracker
                   /\ \/ /\ loginAttempts[u].locked /\ credTime - loginAttempts[u].lockoutAt < LockoutDuration
                         /\ r.locked /\ r.lockoutAt = loginAttempts[u].lockoutAt
                         /\ Attempt(u, r, passed[u], lockedAt[u])
                      \/ /\ loginAttempts[u].locked /\ credTime - loginAttempts[u].lockoutAt >= LockoutDuration
                         /\ ~r.locked /\ r.attempts = 0
                         /\ Attempt(u, r, passed[u] + 1, lockedAt[u])
                      \/ /\ ~loginAttempts[u].locked
                         /\ r.locked /\ r.lockoutAt = credTime
                         /\ Attempt(u, r, 0, credTime)
                      \/ /\ ~loginAttempts[u].locked
                         /\ ~r.locked /\ r.attempts = loginAttempts[u].attempts + 1
                         /\ Attempt(u, r, passed[u], lockedAt[u])
                      \/ /\ ~loginAttempts[u].locked
                         /\ ~r.locked /\ r.attempts = loginAttempts[u].attempts + 1 /\ r.attempts <= MaxAttempts
                         /\ Attempt(u, r, passed[u] + 1, lockedAt[u])
<1>1. login[l] \in LoginCall
  BY DEF CredInv, CredTypeOK, detectCredentialStuffing
<1>2. PICK u \in LoginUsers : u = login[l].user
  BY <1>1 DEF LoginCall
<1>3. /\ passed' = [passed EXCEPT ![u] = passed[u]] <=> UNCHANGED passed
      /\ lockedAt' = [lockedAt EXCEPT ![u] = lockedAt[u]] <=> UNCHANGED lockedAt
  BY DEF CredInv, CredTypeOK
<1>t. credTime \in Nat /\ UNCHANGED credTime
  BY DEF CredInv, CredTypeOK, detectCredentialStuffing
<1>4. CASE loginAttempts[u] = NoTracker
  <2> DEFINE r == [attempts |-> 1, locked |-> FALSE, lockoutAt |-> 0]
  <2>1. r \in Tracker /\ r.attempts = 1 /\ ~r.locked
    BY DEF Tracker
  <2>2. Attempt(u, r, passed[u] + 1, lockedAt[u])
    BY <1>2, <1>3, <1>4, <1>t DEF detectCredentialStuffing, Attempt
  <2> HIDE DEF r
  <2> QED
    BY <1>2, <1>4, <2>1, <2>2
<1>5. CASE loginAttempts[u] # NoTracker
  <2>1. PICK t \in Tracker, n \in Nat, now \in Nat : t = loginAttempts[u] /\ n = t.attempts + 1 /\ now = credTime
    BY <1>5, <1>t DEF CredInv, CredTypeOK, Tracker
  <2>t. t.locked \in BOOLEAN /\ t.lockoutAt \in Nat
    BY DEF Tracker
  <2> DEFINE counted == [t EXCEPT !.attempts = n]
             freed == [t EXCEPT !.attempts = 0, !.locked = FALSE]
             shut == [attempts |-> n, locked |-> TRUE, lockoutAt |-> now]
  <2>2. counted \in Tracker /\ counted.attempts = n /\ counted.locked = t.locked /\ counted.lockoutAt = t.lockoutAt
    BY DEF Tracker
  <2>3. freed \in Tracker /\ freed.attempts = 0 /\ freed.locked = FALSE
    BY DEF Tracker
  <2>4. shut \in Tracker /\ shut.locked = TRUE /\ shut.lockoutAt = now
    BY DEF Tracker
  <2>5. \/ InLockout(t) /\ loginAttempts' = [loginAttempts EXCEPT ![u] = counted] /\ UNCHANGED <<passed, lockedAt>>
        \/ /\ t.locked /\ ~InLockout(t) /\ loginAttempts' = [loginAttempts EXCEPT ![u] = freed]
           /\ passed' = [passed EXCEPT ![u] = @ + 1] /\ UNCHANGED lockedAt
        \/ /\ ~t.locked /\ loginAttempts' = [loginAttempts EXCEPT ![u] = shut]
           /\ passed' = [passed EXCEPT ![u] = 0] /\ lockedAt' = [lockedAt EXCEPT ![u] = now]
        \/ ~t.locked /\ loginAttempts' = [loginAttempts EXCEPT ![u] = counted] /\ UNCHANGED <<passed, lockedAt>>
        \/ /\ ~t.locked /\ n <= MaxAttempts /\ loginAttempts' = [loginAttempts EXCEPT ![u] = counted]
           /\ passed' = [passed EXCEPT ![u] = @ + 1] /\ UNCHANGED lockedAt
    BY <1>2, <1>5, <2>1, CredConstants DEF detectCredentialStuffing, OverLimit
  <2> HIDE DEF counted, freed, shut
  <2>6. CASE InLockout(t) /\ loginAttempts' = [loginAttempts EXCEPT ![u] = counted] /\ UNCHANGED <<passed, lockedAt>>
    BY <1>2, <1>3, <1>t, <2>1, <2>2, <2>6 DEF InLockout, Attempt
  <2>7. CASE /\ t.locked /\ ~InLockout(t) /\ loginAttempts' = [loginAttempts EXCEPT ![u] = freed]
             /\ passed' = [passed EXCEPT ![u] = @ + 1] /\ UNCHANGED lockedAt
    <3>1. credTime - t.lockoutAt >= LockoutDuration
      BY <2>7, <2>t, <1>t, CredConstants DEF InLockout
    <3> QED
      BY <1>2, <1>3, <1>t, <2>1, <2>3, <2>7, <3>1 DEF Attempt
  <2>8. CASE /\ ~t.locked /\ loginAttempts' = [loginAttempts EXCEPT ![u] = shut]
             /\ passed' = [passed EXCEPT ![u] = 0] /\ lockedAt' = [lockedAt EXCEPT ![u] = now]
    BY <1>2, <1>3, <1>t, <2>1, <2>4, <2>8 DEF Attempt
  <2>9. CASE ~t.locked /\ loginAttempts' = [loginAttempts EXCEPT ![u] = counted] /\ UNCHANGED <<passed, lockedAt>>
    BY <1>2, <1>3, <1>t, <2>1, <2>2, <2>9 DEF Attempt
  <2>10. CASE /\ ~t.locked /\ n <= MaxAttempts /\ loginAttempts' = [loginAttempts EXCEPT ![u] = counted]
              /\ passed' = [passed EXCEPT ![u] = @ + 1] /\ UNCHANGED lockedAt
    BY <1>2, <1>3, <1>t, <2>1, <2>2, <2>10 DEF Attempt
  <2> QED
    BY <2>5, <2>6, <2>7, <2>8, <2>9, <2>10
<1> QED
  BY <1>4, <1>5

\* An attempt keeps the account's invariant, and passes nobody during a lockout.
LEMMA AttemptStep ==
    ASSUME CredInv, NEW l \in Logins, detectCredentialStuffing(l)
    PROVE  \A u \in LoginUsers :
             /\ loginAttempts'[u] \in Tracker \cup {NoTracker} /\ passed'[u] \in Nat /\ lockedAt'[u] \in Nat \cup {NoTracker}
             /\ AccountOK(u)'
             /\ lockedAt[u] # NoTracker /\ credTime - lockedAt[u] < LockoutDuration =>
                    passed'[u] <= passed[u] /\ loginAttempts'[u].locked
<1> SUFFICES ASSUME NEW v \in LoginUsers
             PROVE  /\ loginAttempts'[v] \in Tracker \cup {NoTracker} /\ passed'[v] \in Nat /\ lockedAt'[v] \in Nat \cup {NoTracker}
                    /\ AccountOK(v)'
                    /\ lockedAt[v] # NoTracker /\ credTime - lockedAt[v] < LockoutDuration =>
                           passed'[v] <= passed[v] /\ loginAttempts'[v].locked
  OBVIOUS
<1> USE CredConstants
<1>0. /\ loginAttempts[v] \in Tracker \cup {NoTracker} /\ passed[v] \in Nat /\ lockedAt[v] \in Nat \cup {NoTracker}
      /\ AccountOK(v) /\ credTime \in Nat /\ credTime' = credTime
      /\ loginAttempts[v] # NoTracker => loginAttempts[v].attempts \in Nat /\ loginAttempts[v].lockoutAt \in Nat
  BY DEF CredInv, CredTypeOK, detectCredentialStuffing, Tracker
<1>1. PICK u \in LoginUsers, r \in Tracker :
        \/ loginAttempts[u] = NoTracker /\ r.attempts = 1 /\ ~r.locked
           /\ Attempt(u, r, passed[u] + 1, lockedAt[u])
        \/ /\ loginAttempts[u] \in Tracker
           /\ \/ /\ loginAttempts[u].locked /\ credTime - loginAttempts[u].lockoutAt < LockoutDuration
                 /\ r.locked /\ r.lockoutAt = loginAttempts[u].lockoutAt
                 /\ Attempt(u, r, passed[u], lockedAt[u])
              \/ /\ loginAttempts[u].locked /\ credTime - loginAttempts[u].lockoutAt >= LockoutDuration
                 /\ ~r.locked /\ r.attempts = 0
                 /\ Attempt(u, r, passed[u] + 1, lockedAt[u])
              \/ /\ ~loginAttempts[u].locked
                 /\ r.locked /\ r.lockoutAt = credTime
                 /\ Attempt(u, r, 0, credTime)
              \/ /\ ~loginAttempts[u].locked
                 /\ ~r.locked /\ r.attempts = loginAttempts[u].attempts + 1
                 /\ Attempt(u, r, passed[u], lockedAt[u])
              \/ /\ ~loginAttempts[u].locked
                 /\ ~r.locked /\ r.attempts = loginAttempts[u].attempts + 1 /\ r.attempts <= MaxAttempts
                 /\ Attempt(u, r, passed[u] + 1, lockedAt[u])
  BY AttemptCases
<1>2. CASE v # u
  <2>1. loginAttempts'[v] = loginAttempts[v] /\ passed'[v] = passed[v] /\ lockedAt'[v] = lockedAt[v]
    BY <1>1, <1>2 DEF Attempt, CredInv, CredTypeOK
  <2> QED
    BY <1>0, <2>1 DEF AccountOK
<1>3. CASE v = u
  <2>0. ASSUME NEW p, NEW at, Attempt(u, r, p, at)
        PROVE  loginAttempts'[v] = r /\ passed'[v] = p /\ lockedAt'[v] = at
    BY <1>3, <2>0 DEF Attempt, CredInv, CredTypeOK
  <2>t. r.attempts \in Nat /\ r.lockoutAt \in Nat /\ r # NoTracker
    BY DEF Tracker
  <2>1. CASE loginAttempts[u] = NoTracker /\ r.attempts = 1 /\ ~r.locked /\ Attempt(u, r, passed[u] + 1, lockedAt[u])
    BY <1>0, <1>3, <2>0, <2>t, <2>1 DEF AccountOK
  <2>2. CASE /\ loginAttempts[u] \in Tracker
             /\ loginAttempts[u].locked /\ credTime - loginAttempts[u].lockoutAt < LockoutDuration
             /\ r.locked /\ r.lockoutAt = loginAttempts[u].lockoutAt
             /\ Attempt(u, r, passed[u], lockedAt[u])
    BY <1>0, <1>3, <2>0, <2>t, <2>2 DEF AccountOK
  <2>3. CASE /\ loginAttempts[u] \in Tracker
             /\ loginAttempts[u].locked /\ credTime - loginAttempts[u].lockoutAt >= LockoutDuration
             /\ ~r.locked /\ r.attempts = 0
             /\ Attempt(u, r, passed[u] + 1, lockedAt[u])
    BY <1>0, <1>3, <2>0, <2>t, <2>3 DEF AccountOK
  <2>4. CASE /\ loginAttempts[u] \in Tracker /\ ~loginAttempts[u].locked
             /\ r.locked /\ r.lockoutAt = credTime
             /\ Attempt(u, r, 0, credTime)
    BY <1>0, <1>3, <2>0, <2>t, <2>4 DEF AccountOK
  <2>5. CASE /\ loginAttempts[u] \in Tracker /\ ~loginAttempts[u].locked
             /\ ~r.locked /\ r.attempts = loginAttempts[u].attempts + 1
             /\ Attempt(u, r, passed[u], lockedAt[u])
    BY <1>0, <1>3, <2>0, <2>t, <2>5 DEF AccountOK
  <2>6. CASE /\ loginAttempts[u] \in Tracker /\ ~loginAttempts[u].locked
             /\ ~r.locked /\ r.attempts = loginAttempts[u].attempts + 1 /\ r.attempts <= MaxAttempts
             /\ Attempt(u, r, passed[u] + 1, lockedAt[u])
    BY <1>0, <1>3, <2>0, <2>t, <2>6, SMTT(30) DEF AccountOK
  <2> QED
    BY <1>1, <2>1, <2>2, <2>3, <2>4, <2>5, <2>6
<1> QED
  BY <1>2, <1>3

\* The steps that leave the accounts alone
Elsewhere ==
    \/ CredTick
    \/ \E l \in Logins : detectPasswordSpray(l) \/ detectBruteForce(l) \/ validateToken(l) \/ Finish(l)
    \/ \E l \in Logins, u \in LoginUsers, p \in Passwords, ip \in LoginIPs, t \in LoginTokens : InspectLogin(l, u, p, ip, t)
    \/ \E l \in Logins, ip \in LoginIPs, t \in LoginTokens : InspectOther(l, ip, t)

\* Nothing but detectCredentialStuffing touches the trackers.
LEMMA ElsewhereSame == Elsewhere => UNCHANGED <<loginAttempts, passed, lockedAt>>
BY DEF Elsewhere, CredTick, detectPasswordSpray, detectBruteForce, validateToken, Finish, InspectLogin, InspectOther

\* The other handlers of a login and the clock keep the invariant.
LEMMA ElsewhereStep == CredInv /\ Elsewhere => CredInv'
<1> SUFFICES ASSUME CredInv, Elsewhere PROVE CredInv'
  OBVIOUS
<1>0. UNCHANGED <<loginAttempts, passed, lockedAt>>
  BY ElsewhereSame
<1>1. ASSUME CredTick PROVE CredInv'
  <2>1. credTime \in Nat /\ credTime' = credTime + 1 /\ UNCHANGED login
    BY <1>1 DEF CredTick, CredInv, CredTypeOK
  <2>2. CredTypeOK'
    BY <1>0, <2>1 DEF CredInv, CredTypeOK
  <2>3. ASSUME NEW u \in LoginUsers PROVE AccountOK(u)'
    <3>1. AccountOK(u) /\ lockedAt[u] \in Nat \cup {NoTracker}
      BY DEF CredInv, CredTypeOK
    <3> QED
      BY <1>0, <2>1, <3>1, CredConstants DEF AccountOK
  <2> QED
    BY <2>2, <2>3 DEF CredInv
<1>r. ASSUME NEW l \in Logins, Refuse(l), UNCHANGED credTime PROVE CredInv'
  <2>1. IdleLogin.stage = "idle"
    BY DEF IdleLogin
  <2> QED
    BY <1>0, <1>r, <2>1, OtherSteps DEF Refuse
<1>p. ASSUME NEW l \in Logins, NEW st \in {"brute", "token", "through"}, login[l].stage \in Stages, Proceed(l, st), UNCHANGED credTime
      PROVE CredInv'
  BY <1>0, <1>p, Proceeded, OtherSteps
<1>2. ASSUME NEW l \in Logins, detectPasswordSpray(l) \/ detectBruteForce(l) \/ validateToken(l) \/ Finish(l)
      PROVE CredInv'
  <2>1. UNCHANGED credTime /\ login[l].stage \in Stages
    BY <1>2 DEF detectPasswordSpray, detectBruteForce, validateToken, Finish, Stages
  <2>2. Refuse(l) \/ \E st \in {"brute", "token", "through"} : Proceed(l, st)
    BY <1>2 DEF detectPasswordSpray, detectBruteForce, validateToken, Finish
  <2> QED
    BY <1>r, <1>p, <2>1, <2>2
<1>3. ASSUME NEW l \in Logins, NEW u \in LoginUsers, NEW p \in Passwords, NEW ip \in LoginIPs, NEW t \in LoginTokens,
             InspectLogin(l, u, p, ip, t)
      PROVE CredInv'
  <2> DEFINE d == [stage |-> "stuffing", user |-> u, password |-> p, ip |-> ip, token |-> t]
  <2>1. d \in LoginCall
    BY DEF LoginCall, Stages
  <2>2. login' = [login EXCEPT ![l] = d] /\ UNCHANGED credTime
    BY <1>3 DEF InspectLogin
  <2> HIDE DEF d
  <2> QED
    BY <1>0, <2>1, <2>2, OtherSteps
<1>4. ASSUME NEW l \in Logins, NEW ip \in LoginIPs, NEW t \in LoginTokens, InspectOther(l, ip, t) PROVE CredInv'
  <2> DEFINE d == [stage |-> "brute", ip |-> ip, token |-> t]
  <2>1. d \in OtherCall /\ d.stage = "brute"
    BY DEF OtherCall, Stages
  <2>2. login' = [login EXCEPT ![l] = d] /\ UNCHANGED credTime
    BY <1>4 DEF InspectOther
  <2> HIDE DEF d
  <2> QED
    BY <1>0, <2>1, <2>2, OtherSteps
<1> QED
  BY <1>1, <1>2, <1>3, <1>4 DEF Elsewhere

\* detectCredentialStuffing keeps the invariant, whatever the tracker of the account holds.
LEMMA StuffingStep ==
    ASSUME CredInv, NEW l \in Logins, detectCredentialStuffing(l)
    PROVE  CredInv'
<1>1. \A u \in LoginUsers :
        /\ loginAttempts'[u] \in Tracker \cup {NoTracker} /\ passed'[u] \in Nat /\ lockedAt'[u] \in Nat \cup {NoTracker}
        /\ AccountOK(u)'
  BY AttemptStep
<1>2. PICK u, r, p, at : Attempt(u, r, p, at)
  BY AttemptCases
<1>3. DOMAIN loginAttempts' = LoginUsers /\ DOMAIN passed' = LoginUsers /\ DOMAIN lockedAt' = LoginUsers
  BY <1>2 DEF Attempt, CredInv, CredTypeOK
<1>4. /\ loginAttempts' \in [LoginUsers -> Tracker \cup {NoTracker}]
      /\ passed' \in [LoginUsers -> Nat]
      /\ lockedAt' \in [LoginUsers -> Nat \cup {NoTracker}]
  <2>1. /\ loginAttempts' = [u1 \in LoginUsers |-> loginAttempts'[u1]]
        /\ passed' = [u1 \in LoginUsers |-> passed'[u1]]
        /\ lockedAt' = [u1 \in LoginUsers |-> lockedAt'[u1]]
    BY <1>2 DEF Attempt, CredInv, CredTypeOK
  <2> QED
    BY <1>1, <2>1
<1>5. PICK c \in LoginCall : c = login[l]
  BY DEF CredInv, CredTypeOK, detectCredentialStuffing
<1> DEFINE d == [c EXCEPT !.stage = "spray"]
<1>6. d \in LoginCall
  BY DEF LoginCall, Stages
<1>7. login' = [login EXCEPT ![l] = d] \/ login' = [login EXCEPT ![l] = IdleLogin]
  BY <1>5 DEF detectCredentialStuffing, Proceed, Refuse
<1> HIDE DEF d
<1>8. /\ login' \in [Logins -> LoginCall \cup OtherCall \cup {IdleLogin}]
      /\ \A m \in Logins : login'[m].stage \in {"stuffing", "spray"} => login'[m] \in LoginCall
  BY <1>6, <1>7 DEF CredInv, CredTypeOK, IdleLogin
<1>9. credTime' \in Nat
  BY DEF detectCredentialStuffing, CredInv, CredTypeOK
<1> QED
  BY <1>1, <1>4, <1>8, <1>9 DEF CredInv, CredTypeOK

\* Every step is an attempt at an account, or touches no tracker.
LEMMA CredSplit == [CredNext]_credVars => UNCHANGED credVars \/ Elsewhere \/ \E l \in Logins : detectCredentialStuffing(l)
BY DEF CredNext, Elsewhere

\* For any number of accounts, goroutines and any limits: however login attempts interleave,
\* at most maxAttempts + 1 of an account pass between two lockouts, and while a lockout
\* lasts the account stays locked and none passes (detectCredentialStuffing).
THEOREM GuessingBounded == CredSpec => GuessesBounded
<1>1. CredInv => PassesBounded
  BY CredConstants DEF CredInv, CredTypeOK, AccountOK, PassesBounded
<1>2. CredInv /\ [CredNext]_credVars => CredInv'
  <2>1. CredInv /\ UNCHANGED credVars => CredInv'
    BY DEF CredInv, CredTypeOK, AccountOK, credVars
  <2> QED
    BY <2>1, CredSplit, ElsewhereStep, StuffingStep
<1>3. CredInv /\ [CredNext]_credVars =>
        [\A u \in LoginUsers :
             lockedAt[u] # NoTracker /\ credTime - lockedAt[u] < LockoutDuration
                => passed'[u] <= passed[u] /\ loginAttempts'[u].locked]_credVars
  <2> SUFFICES ASSUME CredInv, [CredNext]_credVars, ~UNCHANGED credVars, NEW u \in LoginUsers,
                      lockedAt[u] # NoTracker, credTime - lockedAt[u] < LockoutDuration
               PROVE  passed'[u] <= passed[u] /\ loginAttempts'[u].locked
    OBVIOUS
  <2>1. CASE Elsewhere
    <3>1. loginAttempts'[u] = loginAttempts[u] /\ passed'[u] = passed[u] /\ passed[u] \in Nat
      BY <2>1, ElsewhereSame DEF CredInv, CredTypeOK
    <3>2. lockedAt[u] \in Nat /\ credTime \in Nat /\ AccountOK(u) /\ loginAttempts[u] \in Tracker \cup {NoTracker}
      BY DEF CredInv, CredTypeOK
    <3>3. loginAttempts[u].locked
      BY <3>2, CredConstants DEF AccountOK
    <3> QED
      BY <3>1, <3>3
  <2>2. CASE \E l \in Logins : detectCredentialStuffing(l)
    BY <2>2, AttemptStep
  <2> QED
    BY <2>1, <2>2, CredSplit
<1> QED
  BY <1>1, <1>2, <1>3, InitCred, PTL DEF CredSpec, GuessesBounded, LockoutHonoured

-----------------------------------------------------------------------------
(***************************************************************************)
(* The flood counters, for any number of counters and goroutines, and any  *)
(* rates.                                                                  *)
(***************************************************************************)
Arrival == [at : Nat, nth : Nat, keys : SUBSET FloodKeys]

\* The requests that came, in time and each with a number of its own
ArrivalsOK ==
    /\ floodTime \in Nat
    /\ arrivals \subseteq Arrival /\ IsFiniteSet(arrivals) /\ admitted \subseteq arrivals
    /\ \A e \in arrivals : e.at <= floodTime /\ e.nth < Cardinality(arrivals)

\* A counter holds requests that asked it, never more than its rate, and it holds all
\* admitted ones of the current window: what Valid and cleanup drop is too old to matter.
CountersOK ==
    /\ stamps \in [FloodKeys -> SUBSET arrivals]
    /\ \A k \in FloodKeys :
         /\ \A e \in stamps[k] : k \in e.keys
         /\ Cardinality(stamps[k]) <= Rate[k]
         /\ \A e \in admitted : k \in e.keys /\ e.at > floodTime - Window => e \in stamps[k]

FloodInv == ArrivalsOK /\ CountersOK /\ WithinEveryRate

\* What the proofs need of the constants: a counter outlives the window it counts.
LEMMA FloodConstants ==
    /\ Window \in Nat /\ CounterTTL \in Nat /\ Window <= CounterTTL
    /\ \A k \in FloodKeys : Rate[k] \in Nat
BY FloodAssumption

\* Before the first request every counter is empty.
LEMMA InitFlood == FloodInit => FloodInv
<1> SUFFICES ASSUME FloodInit PROVE FloodInv
  OBVIOUS
<1>1. Cardinality({}) = 0 /\ IsFiniteSet({})
  BY FS_EmptySet
<1>2. \A k, t : InWindow(admitted, k, t) = {}
  BY DEF FloodInit, InWindow
<1>3. WithinEveryRate
  BY <1>1, <1>2, FloodConstants DEF WithinEveryRate
<1> QED
  BY <1>1, <1>3, FloodConstants DEF FloodInit, FloodInv, ArrivalsOK, CountersOK

\* Of two sets of requests that came, the smaller has fewer.
LEMMA FewerArrivals ==
    ASSUME ArrivalsOK, NEW S \in SUBSET arrivals, NEW T \in SUBSET S
    PROVE  /\ IsFiniteSet(S) /\ IsFiniteSet(T) /\ Cardinality(S) \in Nat /\ Cardinality(T) \in Nat
           /\ Cardinality(T) <= Cardinality(S)
<1>1. IsFiniteSet(S)
  BY FS_Subset DEF ArrivalsOK
<1>2. IsFiniteSet(T) /\ Cardinality(T) <= Cardinality(S)
  BY <1>1, FS_Subset
<1> QED
  BY <1>1, <1>2, FS_CardinalityType

\* What a request asks
LEMMA AskedKeys ==
    ASSUME NEW r \in WebRequests
    PROVE  /\ KeysOf(Asked(r)) \subseteq FloodKeys
           /\ Looked(Asked(r)) \subseteq KeysOf(Asked(r))
           /\ (\A k \in KeysOf(Asked(r)) : ~Full(k)) => Looked(Asked(r)) = KeysOf(Asked(r))
<1>a. {"global", r.ip, r.path} \subseteq FloodKeys /\ (r.session # "" => r.session \in FloodKeys)
  BY FloodAssumption
<1>b. \/ Asked(r) = <<"global", r.ip, r.path>>
      \/ r.session # "" /\ Asked(r) = <<"global", r.ip, r.path, r.session>>
  BY DEF Asked
<1>c. \E n \in {3, 4} : DOMAIN Asked(r) = 1 .. n
  <2>1. CASE Asked(r) = <<"global", r.ip, r.path>>
    BY <2>1
  <2>2. CASE Asked(r) = <<"global", r.ip, r.path, r.session>>
    BY <2>2
  <2> QED
    BY <1>b, <2>1, <2>2
<1>d. \A i \in DOMAIN Asked(r) : Asked(r)[i] \in FloodKeys
  <2>1. \/ \E a, b, c \in FloodKeys : Asked(r) = <<a, b, c>>
        \/ \E a, b, c, d \in FloodKeys : Asked(r) = <<a, b, c, d>>
    BY <1>a, <1>b
  <2>2. ASSUME NEW a \in FloodKeys, NEW b \in FloodKeys, NEW c \in FloodKeys, Asked(r) = <<a, b, c>>
        PROVE  \A i \in DOMAIN Asked(r) : Asked(r)[i] \in FloodKeys
    BY <2>2
  <2>3. ASSUME NEW a \in FloodKeys, NEW b \in FloodKeys, NEW c \in FloodKeys, NEW d \in FloodKeys, Asked(r) = <<a, b, c, d>>
        PROVE  \A i \in DOMAIN Asked(r) : Asked(r)[i] \in FloodKeys
    BY <2>3
  <2> QED
    BY <2>1, <2>2, <2>3
<1>1. KeysOf(Asked(r)) \subseteq FloodKeys
  BY <1>d DEF KeysOf
<1>2. Looked(Asked(r)) \subseteq KeysOf(Asked(r))
  BY DEF KeysOf, Looked
<1>3. ASSUME \A k \in KeysOf(Asked(r)) : ~Full(k) PROVE KeysOf(Asked(r)) \subseteq Looked(Asked(r))
  <2>1. \E n \in Nat : DOMAIN Asked(r) = 1 .. n
    BY <1>c
  <2>2. \A i \in DOMAIN Asked(r) : \A j \in 1 .. i - 1 : j \in DOMAIN Asked(r)
    BY <2>1
  <2> QED
    BY <1>3, <2>2 DEF KeysOf, Looked
<1> QED
  BY <1>1, <1>2, <1>3

\* The counters after a request
LEMMA FloodStep ==
    ASSUME FloodInv, NEW g \in Guards, NEW r \in WebRequests, detectHTTPFlood(g, r)
    PROVE  /\ FloodInv'
           /\ \A e \in arrivals' \ arrivals :
                 e \notin admitted' => \E k \in e.keys : Cardinality(InWindow(arrivals, k, floodTime)) >= Rate[k]
<1>1. PICK n \in Nat : n = Cardinality(arrivals)
  BY FS_CardinalityType DEF FloodInv, ArrivalsOK
<1>2. PICK event : event = [at |-> floodTime, nth |-> n, keys |-> KeysOf(Asked(r))]
  OBVIOUS
<1>3. /\ event \in Arrival /\ event.at = floodTime /\ event.nth = n /\ event.keys = KeysOf(Asked(r))
      /\ event.keys \subseteq FloodKeys
  BY <1>2, AskedKeys DEF Arrival, FloodInv, ArrivalsOK
<1>4. /\ stamps' = [k \in FloodKeys |-> checkRate(k, Asked(r), event)]
      /\ arrivals' = arrivals \cup {event}
      /\ IF \A k \in event.keys : ~Full(k) THEN admitted' = admitted \cup {event} ELSE admitted' = admitted
      /\ floodTime' = floodTime
  BY <1>1, <1>2, <1>3 DEF detectHTTPFlood
<1>5. event \notin arrivals
  BY <1>1, <1>3 DEF FloodInv, ArrivalsOK
<1>6. ArrivalsOK'
  <2>1. IsFiniteSet(arrivals') /\ Cardinality(arrivals') = n + 1
    BY <1>1, <1>4, <1>5, FS_AddElement DEF FloodInv, ArrivalsOK
  <2>2. \A e \in arrivals : e.nth \in Nat
    BY DEF FloodInv, ArrivalsOK, Arrival
  <2>3. \A e \in arrivals' : e.at <= floodTime /\ e.nth < n + 1
    BY <1>1, <1>3, <1>4, <2>2 DEF FloodInv, ArrivalsOK
  <2>4. arrivals' \subseteq Arrival /\ admitted' \subseteq arrivals'
    BY <1>3, <1>4 DEF FloodInv, ArrivalsOK
  <2> QED
    BY <1>4, <2>1, <2>3, <2>4 DEF FloodInv, ArrivalsOK
<1>7. ASSUME NEW k \in FloodKeys
      PROVE  /\ stamps'[k] \in SUBSET arrivals'
             /\ \A e \in stamps'[k] : k \in e.keys
             /\ Cardinality(stamps'[k]) <= Rate[k]
             /\ \A e \in admitted' : k \in e.keys /\ e.at > floodTime - Window => e \in stamps'[k]
  <2>1. stamps'[k] = checkRate(k, Asked(r), event)
    BY <1>4
  <2>2. /\ stamps[k] \subseteq arrivals /\ Cardinality(stamps[k]) <= Rate[k]
        /\ \A e \in stamps[k] : k \in e.keys
        /\ \A e \in admitted : k \in e.keys /\ e.at > floodTime - Window => e \in stamps[k]
    BY DEF FloodInv, CountersOK
  <2>3. /\ Valid(stamps[k]) \subseteq stamps[k]
        /\ \A e \in admitted : k \in e.keys /\ e.at > floodTime - Window => e \in Valid(stamps[k])
    BY <2>2 DEF Valid
  <2>4. /\ IsFiniteSet(Valid(stamps[k])) /\ Cardinality(Valid(stamps[k])) \in Nat
        /\ Cardinality(stamps[k]) \in Nat /\ Cardinality(Valid(stamps[k])) <= Cardinality(stamps[k])
    BY <2>2, <2>3, FewerArrivals DEF FloodInv
  <2>5. CASE k \notin Looked(Asked(r))
    <3>1. stamps'[k] = stamps[k]
      BY <2>1, <2>5 DEF checkRate
    <3>2. event \in admitted' => k \notin event.keys
      BY <1>3, <1>4, <1>5, <2>5, AskedKeys DEF FloodInv, ArrivalsOK
    <3> QED
      BY <1>4, <2>2, <3>1, <3>2
  <2>6. CASE k \in Looked(Asked(r)) /\ Full(k)
    <3>1. stamps'[k] = Valid(stamps[k])
      BY <2>1, <2>6 DEF checkRate
    <3>2. k \in event.keys /\ admitted' = admitted
      BY <1>3, <1>4, <2>6, AskedKeys
    <3>3. Cardinality(Valid(stamps[k])) <= Rate[k]
      BY <2>2, <2>4, FloodConstants
    <3> QED
      BY <1>4, <2>2, <2>3, <3>1, <3>2, <3>3
  <2>7. CASE k \in Looked(Asked(r)) /\ ~Full(k)
    <3>1. stamps'[k] = Valid(stamps[k]) \cup {event}
      BY <2>1, <2>7 DEF checkRate
    <3>2. k \in event.keys
      BY <1>3, <2>7, AskedKeys
    <3>3. Cardinality(Valid(stamps[k]) \cup {event}) = Cardinality(Valid(stamps[k])) + 1
      <4>1. event \notin Valid(stamps[k])
        BY <1>5, <2>2, <2>3
      <4> QED
        BY <2>4, <4>1, FS_AddElement
    <3>4. Cardinality(Valid(stamps[k])) < Rate[k]
      BY <2>4, <2>7, FloodConstants DEF Full
    <3>5. Cardinality(stamps'[k]) <= Rate[k]
      BY <2>4, <3>1, <3>3, <3>4, FloodConstants
    <3> QED
      BY <1>4, <2>2, <2>3, <3>1, <3>2, <3>5
  <2> QED
    BY <2>5, <2>6, <2>7
<1>8. CountersOK'
  <2>1. stamps' \in [FloodKeys -> SUBSET arrivals']
    BY <1>4, <1>7
  <2> QED
    BY <1>4, <1>7, <2>1 DEF CountersOK
<1>9. WithinEveryRate'
  <2> SUFFICES ASSUME NEW k \in FloodKeys, NEW t \in 0 .. floodTime
               PROVE  Cardinality(InWindow(admitted', k, t)) <= Rate[k]
    BY <1>4 DEF WithinEveryRate, InWindow
  <2>0. floodTime \in Nat
    BY DEF FloodInv, ArrivalsOK
  <2>1. CASE t = floodTime
    <3>1. InWindow(admitted', k, t) \subseteq stamps'[k]
      BY <1>7, <2>1 DEF InWindow
    <3>2. Cardinality(InWindow(admitted', k, t)) <= Cardinality(stamps'[k])
          /\ Cardinality(InWindow(admitted', k, t)) \in Nat /\ Cardinality(stamps'[k]) \in Nat
      <4>1. IsFiniteSet(arrivals') /\ stamps'[k] \subseteq arrivals'
        BY <1>6, <1>7 DEF ArrivalsOK
      <4>2. IsFiniteSet(stamps'[k])
        BY <4>1, FS_Subset
      <4> QED
        BY <3>1, <4>2, FS_Subset, FS_CardinalityType
    <3> QED
      BY <1>7, <3>2, FloodConstants
  <2>2. CASE t # floodTime
    <3>1. event \notin InWindow(admitted', k, t)
      BY <1>3, <2>0, <2>2 DEF InWindow
    <3>2. InWindow(admitted', k, t) = InWindow(admitted, k, t)
      BY <1>4, <3>1 DEF InWindow
    <3> QED
      BY <3>2 DEF FloodInv, WithinEveryRate
  <2> QED
    BY <2>1, <2>2
<1>10. ASSUME NEW e \in arrivals' \ arrivals, e \notin admitted'
       PROVE  \E k \in e.keys : Cardinality(InWindow(arrivals, k, floodTime)) >= Rate[k]
  <2>1. e = event
    BY <1>4, <1>10
  <2>2. PICK k \in event.keys : Full(k)
    BY <1>4, <1>10, <2>1
  <2>3. k \in FloodKeys /\ Valid(stamps[k]) \subseteq InWindow(arrivals, k, floodTime)
    BY <1>3, <2>2 DEF Valid, InWindow, FloodInv, CountersOK, ArrivalsOK
  <2>4. InWindow(arrivals, k, floodTime) \subseteq arrivals
    BY DEF InWindow
  <2>5. /\ Cardinality(Valid(stamps[k])) <= Cardinality(InWindow(arrivals, k, floodTime))
        /\ Cardinality(Valid(stamps[k])) \in Nat /\ Cardinality(InWindow(arrivals, k, floodTime)) \in Nat
    BY <2>3, <2>4, FewerArrivals DEF FloodInv
  <2>6. Cardinality(Valid(stamps[k])) >= Rate[k]
    BY <2>2 DEF Full
  <2> QED
    BY <2>1, <2>3, <2>5, <2>6, FloodConstants
<1> QED
  BY <1>6, <1>8, <1>9, <1>10 DEF FloodInv

\* cleanup drops only counters whose last request has left the window.
LEMMA FloodCleanupStep ==
    ASSUME FloodInv, floodCleanup
    PROVE  FloodInv' /\ UNCHANGED arrivals
<1>1. /\ UNCHANGED <<floodTime, arrivals, admitted>>
      /\ stamps' = [k \in FloodKeys |-> IF k \in FloodIPs /\ (\A e \in stamps[k] : floodTime - e.at > CounterTTL)
                                        THEN {} ELSE stamps[k]]
  BY DEF floodCleanup
<1>2. ASSUME NEW k \in FloodKeys
      PROVE  /\ stamps'[k] \in SUBSET arrivals
             /\ \A e \in stamps'[k] : k \in e.keys
             /\ Cardinality(stamps'[k]) <= Rate[k]
             /\ \A e \in admitted : k \in e.keys /\ e.at > floodTime - Window => e \in stamps'[k]
  <2>1. CASE stamps'[k] = stamps[k]
    BY <2>1 DEF FloodInv, CountersOK
  <2>2. CASE stamps'[k] # stamps[k]
    <3>1. stamps'[k] = {} /\ \A e \in stamps[k] : floodTime - e.at > CounterTTL
      BY <1>1, <2>2
    <3>2. \A e \in arrivals : e.at \in Nat
      BY DEF FloodInv, ArrivalsOK, Arrival
    <3>3. \A e \in stamps[k] : ~(e.at > floodTime - Window)
      BY <3>1, <3>2, FloodConstants DEF FloodInv, ArrivalsOK, CountersOK
    <3> QED
      BY <3>1, <3>3, FS_EmptySet, FloodConstants DEF FloodInv, CountersOK
  <2> QED
    BY <2>1, <2>2
<1>3. stamps' \in [FloodKeys -> SUBSET arrivals]
  BY <1>1, <1>2
<1>4. CountersOK'
  BY <1>1, <1>2, <1>3 DEF CountersOK
<1> QED
  BY <1>1, <1>4 DEF FloodInv, ArrivalsOK, WithinEveryRate, InWindow

\* As time passes requests leave the window, and none enters it.
LEMMA FloodTickStep ==
    ASSUME FloodInv, FloodTick
    PROVE  FloodInv' /\ UNCHANGED arrivals
<1>1. floodTime \in Nat /\ floodTime' = floodTime + 1 /\ UNCHANGED <<stamps, arrivals, admitted>>
  BY DEF FloodTick, FloodInv, ArrivalsOK
<1>2. \A e \in arrivals : e.at \in Nat /\ e.at <= floodTime
  BY DEF FloodInv, ArrivalsOK, Arrival
<1>3. ArrivalsOK'
  BY <1>1, <1>2 DEF FloodInv, ArrivalsOK
<1>4. CountersOK'
  BY <1>1, <1>2, FloodConstants DEF FloodInv, CountersOK, ArrivalsOK
<1>5. WithinEveryRate'
  <2> SUFFICES ASSUME NEW k \in FloodKeys, NEW t \in 0 .. floodTime + 1
               PROVE  Cardinality(InWindow(admitted, k, t)) <= Rate[k]
    BY <1>1 DEF WithinEveryRate, InWindow
  <2>1. CASE t \in 0 .. floodTime
    BY <2>1 DEF FloodInv, WithinEveryRate
  <2>2. CASE t = floodTime + 1
    <3>1. InWindow(admitted, k, t) \subseteq stamps[k] /\ stamps[k] \subseteq arrivals
      BY <1>1, <1>2, <2>2, FloodConstants DEF InWindow, FloodInv, CountersOK, ArrivalsOK
    <3>2. Cardinality(stamps[k]) <= Rate[k]
      BY DEF FloodInv, CountersOK
    <3> QED
      BY <3>1, <3>2, FewerArrivals, FloodConstants DEF FloodInv
  <2> QED
    BY <1>1, <2>1, <2>2
<1> QED
  BY <1>1, <1>3, <1>4, <1>5 DEF FloodInv

\* Steps that touch neither the counters nor the history keep the invariant.
LEMMA FloodOtherSteps ==
    ASSUME FloodInv, UNCHANGED <<stamps, floodTime, arrivals, admitted>>
    PROVE  FloodInv'
BY DEF FloodInv, ArrivalsOK, CountersOK, WithinEveryRate, InWindow

\* For any counters and rates: no window of the configured size, wherever it starts, lets
\* more requests of a counter through than its rate, and a request is refused only when
\* as many of one of its counters came in the window before it (checkRate of ddos.go).
THEOREM FloodsLimited == FloodSpec => FloodLimited
<1>1. FloodInv /\ [FloodNext]_floodVars =>
        FloodInv' /\ [\A e \in arrivals' \ arrivals :
          e \notin admitted' => \E k \in e.keys : Cardinality(InWindow(arrivals, k, floodTime)) >= Rate[k]]_floodVars
  <2> SUFFICES ASSUME FloodInv, [FloodNext]_floodVars
               PROVE  FloodInv' /\ (\A e \in arrivals' \ arrivals :
                        e \notin admitted' => \E k \in e.keys : Cardinality(InWindow(arrivals, k, floodTime)) >= Rate[k])
    OBVIOUS
  <2>1. CASE \E g \in Guards, r \in WebRequests : detectHTTPFlood(g, r)
    BY <2>1, FloodStep
  <2>2. CASE floodCleanup
    BY <2>2, FloodCleanupStep
  <2>3. CASE FloodTick
    BY <2>3, FloodTickStep
  <2>4. CASE UNCHANGED <<stamps, floodTime, arrivals, admitted>>
    BY <2>4, FloodOtherSteps
  <2> QED
    BY <2>1, <2>2, <2>3, <2>4 DEF FloodNext, detectSlowloris, detectSlowPOST, Leave, floodVars
<1>2. FloodInv => WithinEveryRate
  BY DEF FloodInv
<1> QED
  BY <1>1, <1>2, InitFlood, PTL DEF FloodSpec, FloodLimited, RefusalIsEarned

-----------------------------------------------------------------------------
(***************************************************************************)
(* The frame counter of the WebSocket inspector, for any number of         *)
(* addresses and goroutines.                                               *)
(***************************************************************************)
Entry == [count : Nat, seen : Int]
Verdicts == {"none"} \cup {frameVerdict(f) : f \in Frames \cup {Upgrade}} \cup {limitVerdict(n) : n \in Nat}
SocketCall == [peer : Peers, frame : Frames \cup {Upgrade}, entry : Nat, verdict : Verdicts,
               pc : {"insert", "reset", "count", "done"}]
HasEntry(s) == socket[s].pc \in {"reset", "count"}

WsTypeOK ==
    /\ frameLog \in [Peers -> Nat]
    /\ socket \in [Sockets -> SocketCall \cup {IdleSocket}]
    /\ wsTime \in Nat
    /\ frames \in [Peers -> Nat] /\ last \in [Peers -> Int]

\* The entries are numbered in the order they were made, and those in use exist.
EntriesMade(n) ==
    /\ entries \in [1 .. n -> Entry]
    /\ \A p \in Peers : frameLog[p] \in 0 .. n
    /\ \A s \in Sockets : HasEntry(s) => socket[s].entry \in 1 .. n

\* No two addresses share an entry, neither in the map nor through the pointer a call
\* was given before the entry was replaced.
OwnEntries ==
    /\ \A p, q \in Peers : frameLog[p] # 0 /\ frameLog[p] = frameLog[q] => p = q
    /\ \A s \in Sockets, q \in Peers :
           HasEntry(s) /\ socket[s].entry = frameLog[q] => q = socket[s].peer

\* Of an address whose entry was never replaced, all calls count on the one in the map.
OneEntry(p) ==
    /\ \A s \in Sockets : HasEntry(s) /\ socket[s].peer = p =>
           frameLog[p] # 0 /\ socket[s].entry = frameLog[p]
    /\ frameLog[p] = 0 => frames[p] = 0 /\ last[p] = Never
    /\ frameLog[p] # 0 => entries[frameLog[p]].count = frames[p] /\ entries[frameLog[p]].seen = last[p]

WsInv ==
    /\ WsTypeOK
    /\ \E n \in Nat : EntriesMade(n)
    /\ OwnEntries
    /\ \A p \in Peers \ replaced : OneEntry(p)

\* The parts of a call have their types.
LEMMA CallFields ==
    ASSUME NEW c \in SocketCall
    PROVE  c.peer \in Peers /\ c.entry \in Nat /\ c.frame \in Frames \cup {Upgrade}
BY DEF SocketCall

\* No frame has come yet.
LEMMA InitWs == WsInit => WsInv
<1> SUFFICES ASSUME WsInit PROVE WsInv
  OBVIOUS
<1>1. Never \in Int
  BY WsAssumption DEF Never
<1>2. \A s \in Sockets : socket[s] = IdleSocket /\ ~HasEntry(s)
  BY DEF WsInit, HasEntry, IdleSocket
<1>3. WsTypeOK
  BY <1>1 DEF WsInit, WsTypeOK
<1>4. EntriesMade(0)
  BY <1>2 DEF WsInit, EntriesMade
<1> QED
  BY <1>2, <1>3, <1>4 DEF WsInit, WsInv, OwnEntries, OneEntry

\* A call that looks for its entry
LEMMA LookupWs ==
    ASSUME WsInv, NEW s \in Sockets, NEW p \in Peers, NEW f \in Frames \cup {Upgrade}, lookupStats(s, p, f)
    PROVE  WsInv'
<1>1. PICK n \in Nat : EntriesMade(n)
  BY DEF WsInv
<1> DEFINE c == [peer |-> p, frame |-> f, entry |-> frameLog[p], verdict |-> "none",
                 pc |-> IF frameLog[p] = 0 THEN "insert" ELSE "reset"]
<1>2. /\ c \in SocketCall /\ c.peer = p /\ c.entry = frameLog[p] /\ frameLog[p] \in 0 .. n
      /\ c.pc \in {"reset", "count"} => frameLog[p] # 0
  BY <1>1 DEF SocketCall, Verdicts, WsInv, WsTypeOK, EntriesMade
<1>3. socket' = [socket EXCEPT ![s] = c] /\ UNCHANGED <<frameLog, entries, wsTime, frames, last, replaced>>
  BY DEF lookupStats
<1> HIDE DEF c
<1>4. socket'[s] = c /\ \A x \in Sockets \ {s} : socket'[x] = socket[x]
  BY <1>3 DEF WsInv, WsTypeOK
<1>5. WsTypeOK'
  BY <1>2, <1>3 DEF WsInv, WsTypeOK
<1>6. EntriesMade(n)'
  BY <1>1, <1>2, <1>3, <1>4 DEF EntriesMade, HasEntry
<1>7. OwnEntries'
  BY <1>2, <1>3, <1>4 DEF WsInv, OwnEntries, HasEntry
<1>8. ASSUME NEW q \in Peers \ replaced' PROVE OneEntry(q)'
  <2>1. OneEntry(q)
    BY <1>3, <1>8 DEF WsInv
  <2> QED
    BY <2>1, <1>2, <1>3, <1>4 DEF OneEntry, HasEntry
<1> QED
  BY <1>5, <1>6, <1>7, <1>8 DEF WsInv

\* A call that makes one
LEMMA InsertWs ==
    ASSUME WsInv, NEW s \in Sockets, insertStats(s)
    PROVE  WsInv'
<1>1. PICK n \in Nat : EntriesMade(n)
  BY DEF WsInv
<1>2. DOMAIN entries = 1 .. n /\ Cardinality(1 .. n) = n
  BY <1>1, FS_Interval DEF EntriesMade
<1>3. PICK c \in SocketCall : c = socket[s]
  BY DEF WsInv, WsTypeOK, insertStats, IdleSocket
<1>e. PICK e \in Nat : e = n + 1
  OBVIOUS
<1> DEFINE p == c.peer
           d == [c EXCEPT !.pc = "reset", !.entry = e]
<1>4. /\ p \in Peers /\ d \in SocketCall /\ d.pc = "reset" /\ d.peer = p /\ d.entry = e
  BY DEF SocketCall
<1>5. /\ entries' = [x \in 1 .. e |-> IF x = e THEN NewEntry ELSE entries[x]]
      /\ frameLog' = [frameLog EXCEPT ![p] = e]
      /\ socket' = [socket EXCEPT ![s].pc = "reset", ![s].entry = e]
      /\ replaced' = IF frameLog[p] # 0 THEN replaced \cup {p} ELSE replaced
      /\ UNCHANGED <<wsTime, frames, last>>
  BY <1>2, <1>3, <1>e DEF insertStats
<1>6. socket' = [socket EXCEPT ![s] = d]
  BY <1>3, <1>5 DEF WsInv, WsTypeOK, SocketCall
<1> HIDE DEF d, p
<1>7. socket'[s] = d /\ \A x \in Sockets \ {s} : socket'[x] = socket[x]
  BY <1>6 DEF WsInv, WsTypeOK
<1>8. frameLog'[p] = e /\ \A q \in Peers \ {p} : frameLog'[q] = frameLog[q]
  BY <1>4, <1>5 DEF WsInv, WsTypeOK
<1>9. NewEntry \in Entry /\ NewEntry.count = 0 /\ NewEntry.seen = Never
  BY WsAssumption DEF NewEntry, Entry, Never
<1>10. WsTypeOK'
  BY <1>4, <1>5, <1>6 DEF WsInv, WsTypeOK
<1>11. EntriesMade(e)'
  <2>1. entries' \in [1 .. e -> Entry]
    BY <1>1, <1>e, <1>5, <1>9 DEF EntriesMade
  <2> QED
    BY <2>1, <1>1, <1>e, <1>4, <1>7, <1>8 DEF EntriesMade, HasEntry
<1>12. OwnEntries'
  <2>1. \A q \in Peers : frameLog[q] \in 0 .. n /\ frameLog[q] # e
    BY <1>1, <1>e DEF EntriesMade
  <2>2. \A x \in Sockets : HasEntry(x) => socket[x].entry # e
    BY <1>1, <1>e DEF EntriesMade
  <2> QED
    BY <2>1, <2>2, <1>4, <1>7, <1>8 DEF WsInv, OwnEntries, HasEntry
<1>13. ASSUME NEW q \in Peers \ replaced' PROVE OneEntry(q)'
  <2>1. OneEntry(q) /\ (q = p => frameLog[q] = 0)
    BY <1>4, <1>5, <1>13 DEF WsInv
  <2>2. CASE q = p
    <3>1. \A x \in Sockets : HasEntry(x) => socket[x].peer # p
      BY <2>1, <2>2 DEF OneEntry
    <3>2. \A x \in Sockets : HasEntry(x)' /\ socket'[x].peer = p => x = s
      BY <3>1, <1>7 DEF HasEntry
    <3>3. entries'[e] = NewEntry /\ e # 0
      BY <1>e, <1>5
    <3> QED
      BY <3>2, <3>3, <2>1, <2>2, <1>4, <1>5, <1>7, <1>8, <1>9, ZenonT(40) DEF OneEntry
  <2>3. CASE q # p
    <3>1. frameLog'[q] = frameLog[q] /\ frameLog[q] \in 0 .. n
      BY <1>1, <1>8, <2>3 DEF EntriesMade
    <3>2. frameLog[q] # 0 => entries'[frameLog[q]] = entries[frameLog[q]]
      BY <3>1, <1>e, <1>5
    <3> QED
      BY <2>1, <2>3, <3>1, <3>2, <1>4, <1>5, <1>7 DEF OneEntry, HasEntry
  <2> QED
    BY <2>2, <2>3
<1> QED
  BY <1>10, <1>11, <1>12, <1>13 DEF WsInv

\* A step that changes one entry a call holds, the count it stands for, and lets go of it
\* or keeps it.
LEMMA CountWs ==
    ASSUME WsInv, NEW s \in Sockets, NEW c \in SocketCall, c = socket[s], HasEntry(s),
           NEW d \in SocketCall, d.pc \in {"reset", "count"} => d.entry = c.entry /\ d.peer = c.peer,
           NEW r \in Entry, NEW f \in Nat, NEW l \in Int,
           entries' = [entries EXCEPT ![c.entry] = r],
           socket' = [socket EXCEPT ![s] = d],
           frames' = [frames EXCEPT ![c.peer] = f],
           last' = [last EXCEPT ![c.peer] = l],
           c.peer \notin replaced => r.count = f /\ r.seen = l,
           UNCHANGED <<frameLog, wsTime, replaced>>
    PROVE  WsInv'
<1>1. PICK n \in Nat : EntriesMade(n)
  BY DEF WsInv
<1>2. c.peer \in Peers /\ c.entry \in 1 .. n
  BY <1>1, CallFields DEF EntriesMade
<1>3. socket'[s] = d /\ \A x \in Sockets \ {s} : socket'[x] = socket[x]
  BY DEF WsInv, WsTypeOK
<1>4. WsTypeOK'
  BY <1>2 DEF WsInv, WsTypeOK
<1>5. EntriesMade(n)'
  BY <1>1, <1>2, <1>3 DEF EntriesMade, HasEntry
<1>6. OwnEntries'
  BY <1>3 DEF WsInv, OwnEntries, HasEntry
<1>7. ASSUME NEW q \in Peers \ replaced' PROVE OneEntry(q)'
  <2>1. OneEntry(q)
    BY <1>7 DEF WsInv
  <2>2. \A x \in Sockets : HasEntry(x)' /\ socket'[x].peer = q =>
            HasEntry(x) /\ socket[x].peer = q /\ socket'[x].entry = socket[x].entry
    BY <1>3 DEF HasEntry
  <2>3. CASE q = c.peer
    <3>1. frameLog[q] # 0 /\ frameLog[q] = c.entry
      BY <2>1, <2>3 DEF OneEntry
    <3>2. entries'[frameLog[q]] = r /\ frames'[q] = f /\ last'[q] = l
      BY <1>1, <1>2, <2>3, <3>1 DEF EntriesMade, WsInv, WsTypeOK
    <3> QED
      BY <1>7, <2>1, <2>2, <2>3, <3>1, <3>2 DEF OneEntry
  <2>4. CASE q # c.peer
    <3>1. frameLog[q] # c.entry /\ frameLog[q] \in 0 .. n
      BY <1>1, <2>4 DEF WsInv, OwnEntries, EntriesMade
    <3>2. frameLog[q] # 0 => entries'[frameLog[q]] = entries[frameLog[q]]
      BY <1>1, <1>2, <3>1 DEF EntriesMade
    <3>3. frames'[q] = frames[q] /\ last'[q] = last[q]
      BY <2>4, <1>2 DEF WsInv, WsTypeOK
    <3> QED
      BY <2>1, <2>2, <3>1, <3>2, <3>3 DEF OneEntry
  <2> QED
    BY <2>3, <2>4
<1> QED
  BY <1>4, <1>5, <1>6, <1>7 DEF WsInv

\* The insertion, the reset, the count and the cleanup, in whatever order the goroutines
\* are scheduled, keep every frame counted in its entry.
LEMMA StepWs == WsInv /\ [WsNext]_wsVars => WsInv'
<1> SUFFICES ASSUME WsInv, [WsNext]_wsVars PROVE WsInv'
  OBVIOUS
<1>1. ASSUME NEW s \in Sockets, resetStats(s) PROVE WsInv'
  <2>1. PICK n \in Nat : EntriesMade(n)
    BY DEF WsInv
  <2>2. PICK c \in SocketCall : c = socket[s]
    BY <1>1 DEF WsInv, WsTypeOK, resetStats, IdleSocket
  <2>3. HasEntry(s) /\ c.entry \in 1 .. n /\ c.peer \in Peers
    BY <1>1, <2>1, <2>2, CallFields DEF resetStats, HasEntry, EntriesMade
  <2>4. PICK old \in Entry : old = entries[c.entry]
    BY <2>1, <2>3 DEF EntriesMade
  <2> DEFINE r == IF wsTime - old.seen > Minute THEN [old EXCEPT !.count = 0] ELSE old
             f == IF wsTime - last[c.peer] > Minute THEN 0 ELSE frames[c.peer]
             l == last[c.peer]
             d == IF c.frame # Upgrade THEN [c EXCEPT !.pc = "count"]
                  ELSE [c EXCEPT !.pc = "done", !.verdict = limitVerdict(r.count)]
  <2>5. /\ r \in Entry /\ r.count \in Nat /\ r.seen = old.seen
        /\ r.count = IF wsTime - old.seen > Minute THEN 0 ELSE old.count
    BY DEF Entry
  <2>6. f \in Nat /\ l \in Int
    BY <2>3 DEF WsInv, WsTypeOK
  <2>7. /\ entries' = [entries EXCEPT ![c.entry] = r]
        /\ socket' = [socket EXCEPT ![s] = d]
        /\ UNCHANGED <<frameLog, wsTime, last, replaced>>
    BY <1>1, <2>2, <2>4 DEF resetStats, Lapsed
  <2>8. frames' = [frames EXCEPT ![c.peer] = f]
    BY <1>1, <2>2, <2>3 DEF resetStats, WsInv, WsTypeOK
  <2>9. last' = [last EXCEPT ![c.peer] = l]
    BY <2>3, <2>7 DEF WsInv, WsTypeOK
  <2>10. c.peer \notin replaced => r.count = f /\ r.seen = l
    <3>1. c.peer \notin replaced => old.count = frames[c.peer] /\ old.seen = last[c.peer]
      BY <2>2, <2>3, <2>4 DEF WsInv, OneEntry
    <3> QED
      BY <3>1, <2>5
  <2>11. d \in SocketCall /\ (d.pc \in {"reset", "count"} => d.entry = c.entry /\ d.peer = c.peer)
    <3>1. limitVerdict(r.count) \in Verdicts
      BY <2>5 DEF Verdicts
    <3> HIDE DEF r
    <3> QED
      BY <3>1 DEF SocketCall
  <2> HIDE DEF r, f, l, d
  <2> QED
    BY <2>2, <2>3, <2>5, <2>6, <2>7, <2>8, <2>9, <2>10, <2>11, CountWs
<1>2. ASSUME NEW s \in Sockets, InspectMessage(s) PROVE WsInv'
  <2>1. PICK n \in Nat : EntriesMade(n)
    BY DEF WsInv
  <2>2. PICK c \in SocketCall : c = socket[s]
    BY <1>2 DEF WsInv, WsTypeOK, InspectMessage, IdleSocket
  <2>3. HasEntry(s) /\ c.entry \in 1 .. n /\ c.peer \in Peers
    BY <1>2, <2>1, <2>2, CallFields DEF InspectMessage, HasEntry, EntriesMade
  <2>4. PICK old \in Entry : old = entries[c.entry]
    BY <2>1, <2>3 DEF EntriesMade
  <2> DEFINE r == [count |-> old.count + 1, seen |-> wsTime]
             f == frames[c.peer] + 1
             d == [c EXCEPT !.pc = "done", !.verdict = frameVerdict(c.frame)]
  <2>5. r \in Entry /\ r.count = old.count + 1 /\ r.seen = wsTime
    BY DEF Entry, WsInv, WsTypeOK
  <2>6. f \in Nat /\ wsTime \in Int
    BY <2>3 DEF WsInv, WsTypeOK
  <2>7. /\ entries' = [entries EXCEPT ![c.entry] = r]
        /\ frames' = [frames EXCEPT ![c.peer] = f]
        /\ last' = [last EXCEPT ![c.peer] = wsTime]
        /\ UNCHANGED <<frameLog, wsTime, replaced>>
    BY <1>2, <2>2, <2>4 DEF InspectMessage
  <2>8. socket' = [socket EXCEPT ![s] = d]
    BY <1>2, <2>2 DEF InspectMessage, WsInv, WsTypeOK
  <2>9. c.peer \notin replaced => r.count = f
    <3>1. c.peer \notin replaced => old.count = frames[c.peer]
      BY <2>2, <2>3, <2>4 DEF WsInv, OneEntry
    <3> QED
      BY <3>1, <2>5
  <2>10. d \in SocketCall /\ d.pc = "done"
    <3>1. frameVerdict(c.frame) \in Verdicts
      BY DEF Verdicts, SocketCall
    <3> QED
      BY <3>1 DEF SocketCall
  <2> HIDE DEF r, f, d
  <2> QED
    BY <2>2, <2>3, <2>5, <2>6, <2>7, <2>8, <2>9, <2>10, CountWs
<1>3. ASSUME NEW s \in Sockets, Return(s) PROVE WsInv'
  <2>1. PICK n \in Nat : EntriesMade(n)
    BY DEF WsInv
  <2>2. socket' = [socket EXCEPT ![s] = IdleSocket] /\ UNCHANGED <<frameLog, entries, wsTime, frames, last, replaced>>
    BY <1>3 DEF Return
  <2>3. /\ WsTypeOK'
        /\ \A x \in Sockets : HasEntry(x)' => socket'[x] = socket[x] /\ HasEntry(x)
    BY <2>2 DEF WsInv, WsTypeOK, HasEntry, IdleSocket
  <2>4. EntriesMade(n)'
    BY <2>1, <2>2, <2>3 DEF EntriesMade
  <2>5. OwnEntries'
    BY <2>2, <2>3 DEF WsInv, OwnEntries
  <2>6. \A q \in Peers \ replaced' : OneEntry(q)'
    BY <2>2, <2>3 DEF WsInv, OneEntry
  <2> QED
    BY <2>3, <2>4, <2>5, <2>6 DEF WsInv
<1>4. ASSUME WsTick \/ UNCHANGED wsVars PROVE WsInv'
  <2>1. PICK n \in Nat : EntriesMade(n)
    BY DEF WsInv
  <2>2. UNCHANGED <<frameLog, entries, socket, frames, last, replaced>> /\ wsTime' \in Nat
    BY <1>4 DEF WsTick, wsVars, WsInv, WsTypeOK
  <2>3. WsTypeOK' /\ EntriesMade(n)' /\ OwnEntries'
    BY <2>1, <2>2 DEF WsInv, WsTypeOK, EntriesMade, OwnEntries, HasEntry
  <2>4. \A q \in Peers \ replaced' : OneEntry(q)'
    BY <2>2 DEF WsInv, OneEntry, HasEntry
  <2> QED
    BY <2>3, <2>4 DEF WsInv
<1> QED
  BY <1>1, <1>2, <1>3, <1>4, LookupWs, InsertWs DEF WsNext

\* For any number of connections: as long as no two first frames of an address raced,
\* the count Inspect compares with the limit is the number of frames since the last idle
\* minute (getStats and InspectMessage of websocket.go).
THEOREM FramesCounted == WsSpec => []CountIsExact
<1>1. WsInv => CountIsExact
  BY DEF WsInv, OneEntry, CountIsExact
<1> QED
  BY <1>1, InitWs, StepWs, PTL DEF WsSpec

-----------------------------------------------------------------------------
(***************************************************************************)
(* The adaptive challenge, for any number of addresses and goroutines.     *)
(***************************************************************************)
\* A token that is outstanding has let nobody through, and it expires after the last
\* turn of cleanupLoop, which is at most a period ago.
TokenInv ==
    /\ challengeTime \in Nat /\ lastSweep \in Nat
    /\ lastSweep <= challengeTime /\ challengeTime <= lastSweep + CleanupPeriod
    /\ \E m \in Nat : solved \in [1 .. m -> {0, 1}]
    /\ DOMAIN challenges \subseteq DOMAIN solved
    /\ challenges \in [DOMAIN challenges -> Nat]
    /\ \A t \in DOMAIN challenges : solved[t] = 0 /\ lastSweep <= challenges[t]

State == [score : Nat, level : Nat, seen : Int]
ChallengeVisit == [pc : {"check", "read", "score", "level", "compare", "raise", "act"}, ip : ChallengedIPs,
                   threat : Nat, state : Nat, level : Nat]

\* The states are numbered in the order they were made, and those in use exist.
StatesMade(n) ==
    /\ states \in [1 .. n -> State]
    /\ worst \in [1 .. n -> Nat]
    /\ \A ip \in ChallengedIPs : ipScores[ip] \in 0 .. n
    /\ \A v \in Visits : visit[v] # IdleVisit => visit[v].state \in 1 .. n

\* A state's level and score, and the level a request is about to write into it, were
\* scores of the state before.
LevelsInv ==
    /\ visit \in [Visits -> ChallengeVisit \cup {IdleVisit}]
    /\ ipScores \in [ChallengedIPs -> Nat]
    /\ challengeTime \in Nat
    /\ \E n \in Nat : StatesMade(n)
    /\ \A s \in DOMAIN states : states[s].score <= worst[s] /\ states[s].level <= worst[s]
    /\ \A v \in Visits : visit[v] # IdleVisit /\ visit[v].pc \in {"compare", "raise"}
           => visit[v].level <= worst[visit[v].state]

AdaptInv == TokenInv /\ LevelsInv

\* What the proofs need of the constants.
LEMMA AdaptConstants ==
    ChallengeTTL \in Nat /\ CleanupPeriod \in Nat /\ ThreatLevels \subseteq Nat
BY ChallengeAssumption

\* There are no challenges and no levels yet.
LEMMA InitAdapt == AdaptInit => AdaptInv
<1> SUFFICES ASSUME AdaptInit PROVE AdaptInv
  OBVIOUS
<1>1. TokenInv
  <2>1. solved \in [1 .. 0 -> {0, 1}]
    BY DEF AdaptInit
  <2> QED
    BY <2>1, AdaptConstants DEF AdaptInit, TokenInv
<1>2. LevelsInv
  <2>1. StatesMade(0)
    BY DEF AdaptInit, StatesMade
  <2> QED
    BY <2>1 DEF AdaptInit, LevelsInv
<1> QED
  BY <1>1, <1>2 DEF AdaptInv

\* Issuing, solving and expiring challenges keep the tokens single-use and in time.
LEMMA TokenStep == TokenInv /\ [AdaptNext]_adaptVars => TokenInv'
<1> SUFFICES ASSUME TokenInv, [AdaptNext]_adaptVars PROVE TokenInv'
  OBVIOUS
<1> USE AdaptConstants
<1>0. PICK m \in Nat : solved \in [1 .. m -> {0, 1}]
  BY DEF TokenInv
<1>1. ASSUME NEW v \in Visits, NEW t \in DOMAIN challenges, SolveChallenge(v, t) PROVE TokenInv'
  <2>1. t \in 1 .. m /\ solved[t] = 0
    BY <1>0 DEF TokenInv
  <2>2. solved' = [solved EXCEPT ![t] = 1] /\ UNCHANGED <<challengeTime, lastSweep>>
    BY <1>1, <2>1 DEF SolveChallenge
  <2>3. solved' \in [1 .. m -> {0, 1}] /\ DOMAIN solved' = DOMAIN solved
    BY <1>0, <2>1, <2>2
  <2>4. challenges' = [y \in DOMAIN challenges \ {t} |-> challenges[y]]
    BY <1>1 DEF SolveChallenge, Without
  <2>5. \A y \in DOMAIN challenges' : y \in DOMAIN challenges /\ y # t /\ challenges'[y] = challenges[y] /\ solved'[y] = solved[y]
    BY <1>0, <2>2, <2>4 DEF TokenInv
  <2> QED
    BY <2>2, <2>3, <2>4, <2>5 DEF TokenInv
<1>2. ASSUME NEW v \in Visits, issueChallenge(v) PROVE TokenInv'
  <2>1. CASE UNCHANGED <<challenges, solved>>
    BY <2>1, <1>2 DEF issueChallenge, TokenInv
  <2>2. CASE ~UNCHANGED <<challenges, solved>>
    <3>1. Cardinality(DOMAIN solved) = m
      BY <1>0, FS_Interval
    <3>2. PICK k \in Nat : k = m + 1
      OBVIOUS
    <3>3. /\ challenges' = [t \in DOMAIN challenges \cup {k} |->
                 IF t = k THEN challengeTime + ChallengeTTL ELSE challenges[t]]
          /\ solved' = [t \in DOMAIN solved \cup {k} |-> IF t = k THEN 0 ELSE solved[t]]
          /\ UNCHANGED <<challengeTime, lastSweep>>
      BY <1>2, <2>2, <3>1, <3>2 DEF issueChallenge, NewToken, Issued
    <3>4. solved' \in [1 .. k -> {0, 1}]
      BY <1>0, <3>2, <3>3
    <3>5. challenges' \in [DOMAIN challenges' -> Nat]
      BY <3>3 DEF TokenInv
    <3>6. k \notin DOMAIN solved
      BY <1>0, <3>2
    <3>7. ASSUME NEW t \in DOMAIN challenges' PROVE solved'[t] = 0 /\ lastSweep <= challenges'[t]
      BY <3>3, <3>6 DEF TokenInv
    <3> QED
      BY <3>3, <3>4, <3>5, <3>7 DEF TokenInv
  <2> QED
    BY <2>1, <2>2
<1>3. ASSUME adaptCleanup PROVE TokenInv'
  <2>1. /\ challenges' = [t \in {u \in DOMAIN challenges : challengeTime <= challenges[u]} |-> challenges[t]]
        /\ lastSweep' = challengeTime /\ UNCHANGED <<challengeTime, solved>>
    BY <1>3 DEF adaptCleanup
  <2> QED
    BY <2>1 DEF TokenInv
<1>4. ASSUME ChallengeTick PROVE TokenInv'
  BY <1>4 DEF ChallengeTick, TokenInv
<1>5. ASSUME UNCHANGED <<challenges, solved, challengeTime, lastSweep>> PROVE TokenInv'
  BY <1>5 DEF TokenInv
<1>6. ASSUME NEW v \in Visits, \/ checkBlocked(v) \/ readScore(v) \/ writeScore(v) \/ determineLevel(v)
                               \/ compareLevel(v) \/ raiseLevel(v)
      PROVE TokenInv'
  BY <1>5, <1>6 DEF checkBlocked, readScore, writeScore, determineLevel, compareLevel, raiseLevel
<1>7. ASSUME NEW v \in Visits, NEW ip \in ChallengedIPs, NEW t \in ThreatLevels, getOrCreateState(v, ip, t)
      PROVE TokenInv'
  BY <1>5, <1>7 DEF getOrCreateState
<1>8. ASSUME NEW ip \in ChallengedIPs, NEW t \in ThreatLevels, RecordEvent(ip, t) PROVE TokenInv'
  BY <1>5, <1>8 DEF RecordEvent
<1>9. ASSUME UNCHANGED adaptVars PROVE TokenInv'
  BY <1>5, <1>9 DEF adaptVars
<1> QED
  BY <1>1, <1>2, <1>3, <1>4, <1>6, <1>7, <1>8, <1>9 DEF AdaptNext

\* A step of one request that writes no state: what it reads into its own record is the
\* score of its state.
LEMMA VisitStep ==
    ASSUME LevelsInv, NEW v \in Visits, NEW d \in ChallengeVisit \cup {IdleVisit},
           visit' = [visit EXCEPT ![v] = d],
           d # IdleVisit => /\ visit[v] # IdleVisit /\ d.state = visit[v].state
                            /\ d.pc \in {"compare", "raise"} => d.level <= worst[d.state],
           UNCHANGED <<ipScores, states, challengeTime, worst>>
    PROVE  LevelsInv'
<1>1. PICK n \in Nat : StatesMade(n)
  BY DEF LevelsInv
<1>2. visit' \in [Visits -> ChallengeVisit \cup {IdleVisit}]
  BY DEF LevelsInv
<1>3. visit'[v] = d /\ \A w \in Visits \ {v} : visit'[w] = visit[w]
  BY DEF LevelsInv
<1>4. StatesMade(n)'
  BY <1>1, <1>3 DEF StatesMade
<1> QED
  BY <1>2, <1>3, <1>4 DEF LevelsInv

\* A step that writes a score into a state, with the record of the request that did it
LEMMA ScoreStep ==
    ASSUME LevelsInv, NEW n \in Nat, StatesMade(n), NEW s \in 1 .. n, NEW r \in State, NEW w \in Nat,
           states' = [states EXCEPT ![s] = r], worst' = [worst EXCEPT ![s] = w],
           r.score <= w, r.level <= w, worst[s] <= w,
           visit' \in [Visits -> ChallengeVisit \cup {IdleVisit}],
           \A v \in Visits : \/ visit'[v] = visit[v]
                             \/ visit'[v] = IdleVisit
                             \/ /\ visit[v] # IdleVisit /\ visit'[v].state = visit[v].state
                                /\ visit'[v].pc \notin {"compare", "raise"},
           UNCHANGED <<ipScores, challengeTime>>
    PROVE  LevelsInv'
<1>1. states' \in [1 .. n -> State] /\ worst' \in [1 .. n -> Nat]
  BY DEF StatesMade
<1>2. StatesMade(n)'
  BY <1>1 DEF StatesMade
<1>3. /\ states'[s] = r /\ worst'[s] = w
      /\ \A x \in 1 .. n \ {s} : states'[x] = states[x] /\ worst'[x] = worst[x]
  BY DEF StatesMade
<1>4. \A x \in 1 .. n : worst[x] \in Nat /\ worst'[x] \in Nat /\ worst[x] <= worst'[x]
  BY <1>1, <1>3 DEF StatesMade
<1>5. \A x \in DOMAIN states' : states'[x].score <= worst'[x] /\ states'[x].level <= worst'[x]
  BY <1>1, <1>3 DEF LevelsInv, StatesMade
<1>6. ASSUME NEW v \in Visits, visit'[v] # IdleVisit, visit'[v].pc \in {"compare", "raise"}
      PROVE visit'[v].level <= worst'[visit'[v].state]
  <2>1. visit'[v] = visit[v] /\ visit[v].state \in 1 .. n
    BY <1>6 DEF StatesMade
  <2>2. visit[v].level <= worst[visit[v].state]
    BY <1>6, <2>1 DEF LevelsInv
  <2>3. visit[v].level \in Nat
    BY <1>6, <2>1 DEF LevelsInv, ChallengeVisit
  <2> QED
    BY <2>1, <2>2, <2>3, <1>4
<1> QED
  BY <1>2, <1>5, <1>6 DEF LevelsInv

\* A new state, with the score it starts with
LEMMA NewStateStep ==
    ASSUME LevelsInv, NEW n \in Nat, StatesMade(n), NEW k \in Nat, k = n + 1, NEW r \in State, NEW w \in Nat,
           NEW ip \in ChallengedIPs,
           states' = [x \in 1 .. k |-> IF x = k THEN r ELSE states[x]],
           worst' = [x \in 1 .. k |-> IF x = k THEN w ELSE worst[x]],
           r.score <= w, r.level <= w,
           ipScores' = [ipScores EXCEPT ![ip] = k],
           visit' \in [Visits -> ChallengeVisit \cup {IdleVisit}],
           \A v \in Visits : \/ visit'[v] = visit[v]
                             \/ visit'[v].state = k /\ visit'[v].pc \notin {"compare", "raise"},
           UNCHANGED challengeTime
    PROVE  LevelsInv'
<1>1. states' \in [1 .. k -> State] /\ worst' \in [1 .. k -> Nat]
  BY DEF StatesMade
<1>2. ipScores' \in [ChallengedIPs -> Nat]
  BY DEF LevelsInv
<1>3. \A i \in ChallengedIPs : ipScores'[i] \in 0 .. k
  BY DEF StatesMade, LevelsInv
<1>4. StatesMade(k)'
  <2>1. ASSUME NEW v \in Visits, visit'[v] # IdleVisit PROVE visit'[v].state \in 1 .. k
    <3>1. CASE visit'[v] = visit[v]
      <4>1. visit[v].state \in 1 .. n
        BY <2>1, <3>1 DEF StatesMade
      <4> QED
        BY <3>1, <4>1
    <3>2. CASE visit'[v].state = k
      BY <3>2
    <3> QED
      BY <3>1, <3>2
  <2> QED
    BY <1>1, <1>3, <2>1 DEF StatesMade
<1>5. /\ states'[k] = r /\ worst'[k] = w
      /\ \A x \in 1 .. n : x \in 1 .. k /\ states'[x] = states[x] /\ worst'[x] = worst[x]
  OBVIOUS
<1>6. \A x \in DOMAIN states' : states'[x].score <= worst'[x] /\ states'[x].level <= worst'[x]
  <2>1. \A x \in DOMAIN states' : x = k \/ x \in 1 .. n
    BY <1>1
  <2> QED
    BY <2>1, <1>5 DEF LevelsInv, StatesMade
<1>7. ASSUME NEW v \in Visits, visit'[v] # IdleVisit, visit'[v].pc \in {"compare", "raise"}
      PROVE visit'[v].level <= worst'[visit'[v].state]
  <2>1. visit'[v] = visit[v] /\ visit[v].state \in 1 .. n
    BY <1>7 DEF StatesMade
  <2> QED
    BY <2>1, <1>5, <1>7 DEF LevelsInv
<1> QED
  BY <1>2, <1>4, <1>6, <1>7 DEF LevelsInv

\* However visits interleave, no state is raised beyond the worst score seen of its address.
LEMMA LevelsStep == LevelsInv /\ [AdaptNext]_adaptVars => LevelsInv'
<1> SUFFICES ASSUME LevelsInv, [AdaptNext]_adaptVars PROVE LevelsInv'
  OBVIOUS
<1> USE AdaptConstants
<1>0. PICK n \in Nat : StatesMade(n)
  BY DEF LevelsInv
<1>a. PICK k \in Nat : k = n + 1 /\ Cardinality(DOMAIN states) + 1 = k
  <2>1. Cardinality(DOMAIN states) = n
    BY <1>0, FS_Interval DEF StatesMade
  <2> QED
    BY <2>1
<1>b. ASSUME NEW v \in Visits, visit[v] # IdleVisit
      PROVE /\ visit[v] \in ChallengeVisit /\ visit[v].state \in 1 .. n
            /\ states[visit[v].state] \in State /\ worst[visit[v].state] \in Nat
  BY <1>0, <1>b DEF LevelsInv, StatesMade
<1>1. ASSUME NEW v \in Visits, checkBlocked(v) \/ readScore(v) \/ determineLevel(v) \/ compareLevel(v) \/ issueChallenge(v)
      PROVE LevelsInv'
  <2>1. visit[v] # IdleVisit /\ UNCHANGED <<ipScores, states, challengeTime, worst>>
    BY <1>1 DEF checkBlocked, readScore, determineLevel, compareLevel, issueChallenge, At, IdleVisit
  <2>2. PICK c \in ChallengeVisit : c = visit[v] /\ c.state \in 1 .. n
    BY <2>1, <1>b
  <2>3. PICK r \in State : r = states[c.state] /\ r.score \in Nat /\ r.level \in Nat
    BY <2>1, <2>2, <1>b DEF State
  <2>4. ASSUME NEW d \in ChallengeVisit, visit' = [visit EXCEPT ![v] = d], d.state = c.state,
               d.pc \in {"compare", "raise"} => d.level <= worst[c.state]
        PROVE  LevelsInv'
    BY <2>1, <2>2, <2>4, VisitStep
  <2>5. CASE visit' = [visit EXCEPT ![v] = IdleVisit]
    BY <2>1, <2>5, VisitStep
  <2>6. ASSUME NEW pc \in {"read", "score"}, visit' = [visit EXCEPT ![v].pc = pc] PROVE LevelsInv'
    <3> DEFINE d == [c EXCEPT !.pc = pc]
    <3>1. d \in ChallengeVisit /\ d.state = c.state /\ d.pc = pc
      BY DEF ChallengeVisit
    <3>2. visit' = [visit EXCEPT ![v] = d]
      BY <2>2, <2>6
    <3> HIDE DEF d
    <3> QED
      BY <2>4, <3>1, <3>2
  <2>7. ASSUME checkBlocked(v) PROVE LevelsInv'
    BY <2>5, <2>6, <2>7 DEF checkBlocked, Go
  <2>8. ASSUME readScore(v) PROVE LevelsInv'
    <3> DEFINE d == [c EXCEPT !.pc = "score", !.threat = r.score]
    <3>1. d \in ChallengeVisit /\ d.state = c.state /\ d.pc = "score"
      BY <2>3 DEF ChallengeVisit
    <3>2. visit' = [visit EXCEPT ![v] = d]
      BY <2>2, <2>3, <2>8 DEF readScore
    <3> HIDE DEF d
    <3> QED
      BY <2>4, <3>1, <3>2
  <2>9. ASSUME determineLevel(v) PROVE LevelsInv'
    <3> DEFINE d == [c EXCEPT !.pc = "compare", !.level = r.score]
    <3>1. d \in ChallengeVisit /\ d.state = c.state /\ d.level = r.score
      BY <2>3 DEF ChallengeVisit
    <3>2. visit' = [visit EXCEPT ![v] = d]
      BY <2>2, <2>3, <2>9 DEF determineLevel
    <3>3. r.score <= worst[c.state]
      BY <1>0, <2>2, <2>3 DEF LevelsInv, StatesMade
    <3> HIDE DEF d
    <3> QED
      BY <2>4, <3>1, <3>2, <3>3
  <2>10. ASSUME compareLevel(v) PROVE LevelsInv'
    <3>1. CASE Go(v, "raise")
      <4> DEFINE d == [c EXCEPT !.pc = "raise"]
      <4>1. d \in ChallengeVisit /\ d.state = c.state /\ d.level = c.level
        BY DEF ChallengeVisit
      <4>2. visit' = [visit EXCEPT ![v] = d]
        BY <2>2, <3>1 DEF Go
      <4>3. c.level <= worst[c.state]
        BY <2>1, <2>2, <2>10 DEF compareLevel, At, LevelsInv
      <4> HIDE DEF d
      <4> QED
        BY <2>4, <4>1, <4>2, <4>3
    <3>2. CASE Act(v)
      <4> DEFINE d == [c EXCEPT !.pc = "act", !.level = 0]
      <4>1. d \in ChallengeVisit /\ d.state = c.state /\ d.pc = "act"
        BY DEF ChallengeVisit
      <4>2. visit' = [visit EXCEPT ![v] = d]
        BY <2>2, <3>2 DEF Act
      <4> HIDE DEF d
      <4> QED
        BY <2>4, <4>1, <4>2
    <3> QED
      BY <3>1, <3>2, <2>10 DEF compareLevel
  <2>11. ASSUME issueChallenge(v) PROVE LevelsInv'
    BY <2>5, <2>11 DEF issueChallenge
  <2> QED
    BY <1>1, <2>7, <2>8, <2>9, <2>10, <2>11
<1>2. ASSUME NEW v \in Visits, writeScore(v) PROVE LevelsInv'
  <2>1. visit[v] # IdleVisit
    BY <1>2 DEF writeScore, At, IdleVisit
  <2>2. PICK c \in ChallengeVisit, t \in Nat, s \in 1 .. n : c = visit[v] /\ c.state = s /\ c.threat = t
    BY <2>1, <1>b DEF ChallengeVisit
  <2>3. PICK q \in State, w \in Nat : q = states[s] /\ w = worst[s]
    BY <2>1, <2>2, <1>b
  <2>4. PICK x \in Nat, now \in Int : x = (IF t > w THEN t ELSE w) /\ now = challengeTime
    BY DEF LevelsInv
  <2> DEFINE d == [c EXCEPT !.pc = "level", !.threat = 0]
             r == [q EXCEPT !.score = t, !.seen = now]
  <2>5. d \in ChallengeVisit /\ d.state = s /\ d.pc = "level"
    BY <2>2 DEF ChallengeVisit
  <2>6. r \in State /\ r.score = t /\ r.level = q.level /\ q.level \in Nat
    BY DEF State
  <2>7. visit' = [visit EXCEPT ![v] = d] /\ UNCHANGED <<ipScores, challengeTime>>
    BY <1>2, <2>2 DEF writeScore
  <2>8. states' = [states EXCEPT ![s] = r]
    BY <1>0, <1>2, <2>2, <2>3, <2>4 DEF writeScore, StatesMade
  <2>9. worst' = [worst EXCEPT ![s] = x]
    BY <1>0, <1>2, <2>2, <2>3, <2>4 DEF writeScore, StatesMade
  <2>10. q.level <= w
    BY <1>0, <2>2, <2>3 DEF LevelsInv, StatesMade
  <2> HIDE DEF d, r
  <2>11. visit' \in [Visits -> ChallengeVisit \cup {IdleVisit}]
    BY <2>5, <2>7 DEF LevelsInv
  <2>12. \A y \in Visits : visit'[y] = visit[y] \/ (/\ visit[y] # IdleVisit /\ visit'[y].state = visit[y].state
                                                   /\ visit'[y].pc \notin {"compare", "raise"})
    BY <2>1, <2>2, <2>5, <2>7 DEF LevelsInv
  <2>13. r.score <= x /\ r.level <= x /\ worst[s] <= x
    BY <2>3, <2>4, <2>6, <2>10
  <2> QED
    BY <1>0, <2>6, <2>7, <2>8, <2>9, <2>11, <2>12, <2>13, ScoreStep
<1>3. ASSUME NEW v \in Visits, raiseLevel(v) PROVE LevelsInv'
  <2>1. visit[v] # IdleVisit
    BY <1>3 DEF raiseLevel, At, IdleVisit
  <2>2. PICK c \in ChallengeVisit, t \in Nat, s \in 1 .. n : c = visit[v] /\ c.state = s /\ c.level = t
    BY <2>1, <1>b DEF ChallengeVisit
  <2>3. PICK q \in State, w \in Nat : q = states[s] /\ w = worst[s]
    BY <2>1, <2>2, <1>b
  <2> DEFINE d == [c EXCEPT !.pc = "act", !.level = 0]
             r == [q EXCEPT !.level = t]
  <2>5. d \in ChallengeVisit /\ d.state = s /\ d.pc = "act"
    BY <2>2 DEF ChallengeVisit
  <2>6. r \in State /\ r.level = t /\ r.score = q.score
    BY DEF State
  <2>7. visit' = [visit EXCEPT ![v] = d] /\ UNCHANGED <<ipScores, challengeTime, worst>>
    BY <1>3, <2>2 DEF raiseLevel, Act
  <2>8. states' = [states EXCEPT ![s] = r]
    BY <1>0, <1>3, <2>2, <2>3 DEF raiseLevel, StatesMade
  <2>9. worst' = [worst EXCEPT ![s] = w]
    BY <1>0, <2>3, <2>7 DEF StatesMade
  <2>10. q.score <= w /\ t <= w
    BY <1>0, <1>3, <2>1, <2>2, <2>3 DEF LevelsInv, StatesMade, raiseLevel, At
  <2> HIDE DEF d, r
  <2>11. visit' \in [Visits -> ChallengeVisit \cup {IdleVisit}]
    BY <2>5, <2>7 DEF LevelsInv
  <2>12. \A y \in Visits : visit'[y] = visit[y] \/ (/\ visit[y] # IdleVisit /\ visit'[y].state = visit[y].state
                                                   /\ visit'[y].pc \notin {"compare", "raise"})
    BY <2>1, <2>2, <2>5, <2>7 DEF LevelsInv
  <2>13. r.score <= w /\ r.level <= w /\ worst[s] <= w
    BY <2>3, <2>6, <2>10
  <2> QED
    BY <1>0, <2>6, <2>7, <2>8, <2>9, <2>11, <2>12, <2>13, ScoreStep
<1>4. ASSUME NEW v \in Visits, NEW ip \in ChallengedIPs, NEW t \in ThreatLevels, getOrCreateState(v, ip, t)
      PROVE LevelsInv'
  <2>1. PICK s \in Nat : s = IF ipScores[ip] = 0 THEN k ELSE ipScores[ip]
    BY DEF LevelsInv
  <2> DEFINE d == [pc |-> "check", ip |-> ip, threat |-> t, state |-> s, level |-> 0]
             r == [score |-> 0, level |-> 0, seen |-> -1]
  <2>2. d \in ChallengeVisit /\ d.state = s /\ d.pc = "check"
    BY DEF ChallengeVisit
  <2>3. r \in State /\ r.score = 0 /\ r.level = 0
    BY DEF State
  <2>4. /\ visit' = [visit EXCEPT ![v] = d]
        /\ ipScores' = [ipScores EXCEPT ![ip] = s]
        /\ IF s = k
           THEN /\ states' = [x \in 1 .. k |-> IF x = k THEN r ELSE states[x]]
                /\ worst' = [x \in 1 .. k |-> IF x = k THEN 0 ELSE worst[x]]
           ELSE UNCHANGED <<states, worst>>
        /\ UNCHANGED challengeTime
    BY <1>4, <1>a, <2>1 DEF getOrCreateState
  <2> HIDE DEF d, r
  <2>5. visit' \in [Visits -> ChallengeVisit \cup {IdleVisit}]
    BY <2>2, <2>4 DEF LevelsInv
  <2>6. visit'[v] = d /\ \A y \in Visits \ {v} : visit'[y] = visit[y]
    BY <2>4 DEF LevelsInv
  <2>7. CASE s = k
    <3>1. \A y \in Visits : visit'[y] = visit[y] \/ (visit'[y].state = k /\ visit'[y].pc \notin {"compare", "raise"})
      BY <2>2, <2>6, <2>7
    <3>2. /\ states' = [x \in 1 .. k |-> IF x = k THEN r ELSE states[x]]
          /\ worst' = [x \in 1 .. k |-> IF x = k THEN 0 ELSE worst[x]]
          /\ ipScores' = [ipScores EXCEPT ![ip] = k] /\ UNCHANGED challengeTime
      BY <2>4, <2>7
    <3>3. r.score <= 0 /\ r.level <= 0 /\ 0 \in Nat
      BY <2>3
    <3> QED
      BY <1>0, <1>a, <2>3, <2>5, <3>1, <3>2, <3>3, NewStateStep
  <2>8. CASE s # k
    <3>1. s \in 1 .. n /\ s = ipScores[ip] /\ UNCHANGED <<states, worst, challengeTime, ipScores>>
      BY <1>0, <2>1, <2>4, <2>8 DEF StatesMade, LevelsInv
    <3>2. StatesMade(n)'
      BY <1>0, <2>2, <2>6, <3>1 DEF StatesMade
    <3> QED
      BY <2>2, <2>5, <2>6, <3>1, <3>2 DEF LevelsInv
  <2> QED
    BY <2>7, <2>8
<1>5. ASSUME NEW ip \in ChallengedIPs, NEW t \in ThreatLevels, RecordEvent(ip, t) PROVE LevelsInv'
  <2>0. UNCHANGED visit /\ t \in Nat /\ UNCHANGED challengeTime
    BY <1>5 DEF RecordEvent
  <2>1. CASE ipScores[ip] = 0
    <3> DEFINE r == [score |-> t, level |-> 0, seen |-> challengeTime]
    <3>1. r \in State /\ r.score = t /\ r.level = 0
      BY <2>0 DEF State, LevelsInv
    <3>2. /\ ipScores' = [ipScores EXCEPT ![ip] = k]
          /\ states' = [x \in 1 .. k |-> IF x = k THEN r ELSE states[x]]
          /\ worst' = [x \in 1 .. k |-> IF x = k THEN t ELSE worst[x]]
      BY <1>5, <1>a, <2>1 DEF RecordEvent
    <3> HIDE DEF r
    <3>3. visit' \in [Visits -> ChallengeVisit \cup {IdleVisit}]
      BY <2>0 DEF LevelsInv
    <3>4. r.score <= t /\ r.level <= t
      BY <2>0, <3>1
    <3> QED
      BY <1>0, <1>a, <2>0, <3>1, <3>2, <3>3, <3>4, NewStateStep
  <2>2. CASE ipScores[ip] # 0
    <3>1. PICK s \in 1 .. n : s = ipScores[ip]
      BY <1>0, <2>2 DEF StatesMade
    <3>2. PICK q \in State, w \in Nat : q = states[s] /\ w = worst[s]
      BY <1>0 DEF StatesMade
    <3>3. PICK x \in Nat, now \in Int : x = (IF t > w THEN t ELSE w) /\ now = challengeTime
      BY <2>0 DEF LevelsInv
    <3> DEFINE r == [q EXCEPT !.score = t, !.seen = now]
    <3>4. r \in State /\ r.score = t /\ r.level = q.level /\ q.level \in Nat
      BY <2>0 DEF State
    <3>5. states' = [states EXCEPT ![s] = r] /\ UNCHANGED ipScores
      BY <1>0, <1>5, <2>2, <3>1, <3>2, <3>3 DEF RecordEvent, StatesMade
    <3>6. worst' = [worst EXCEPT ![s] = x]
      BY <1>0, <1>5, <2>2, <3>1, <3>2, <3>3 DEF RecordEvent, StatesMade
    <3>7. q.level <= w
      BY <1>0, <3>2 DEF LevelsInv, StatesMade
    <3> HIDE DEF r
    <3>8. visit' \in [Visits -> ChallengeVisit \cup {IdleVisit}]
      BY <2>0 DEF LevelsInv
    <3>9. r.score <= x /\ r.level <= x /\ worst[s] <= x
      BY <2>0, <3>2, <3>3, <3>4, <3>7
    <3> QED
      BY <1>0, <2>0, <3>4, <3>5, <3>6, <3>8, <3>9, ScoreStep
  <2> QED
    BY <2>1, <2>2
<1>6. ASSUME adaptCleanup PROVE LevelsInv'
  <2>1. UNCHANGED <<states, visit, challengeTime, worst>>
    BY <1>6 DEF adaptCleanup
  <2>2. /\ ipScores' \in [ChallengedIPs -> Nat]
        /\ \A ip \in ChallengedIPs : ipScores'[ip] \in {0, ipScores[ip]}
    BY <1>6 DEF adaptCleanup, LevelsInv
  <2>3. StatesMade(n)'
    BY <1>0, <2>1, <2>2 DEF StatesMade
  <2> QED
    BY <2>1, <2>2, <2>3 DEF LevelsInv
<1>7. ASSUME ChallengeTick \/ UNCHANGED adaptVars PROVE LevelsInv'
  <2>1. UNCHANGED <<ipScores, states, visit, worst>> /\ challengeTime' \in Nat
    BY <1>7 DEF ChallengeTick, adaptVars, LevelsInv
  <2>2. StatesMade(n)'
    BY <1>0, <2>1 DEF StatesMade
  <2> QED
    BY <2>1, <2>2 DEF LevelsInv
<1>8. ASSUME NEW v \in Visits, NEW t \in DOMAIN challenges, SolveChallenge(v, t) PROVE LevelsInv'
  <2>1. UNCHANGED <<ipScores, states, visit, challengeTime, worst>>
    BY <1>8 DEF SolveChallenge
  <2>2. StatesMade(n)'
    BY <1>0, <2>1 DEF StatesMade
  <2> QED
    BY <2>1, <2>2 DEF LevelsInv
<1> QED
  BY <1>1, <1>2, <1>3, <1>4, <1>5, <1>6, <1>7, <1>8 DEF AdaptNext

\* For any number of requests at once: a challenge token passes one request and none later
\* than a cleanup period after its expiry, and unsynchronised writes of an address's state
\* never raise its level above the worst score it was given (adaptive.go, Inspect).
THEOREM ChallengesRight == AdaptSpec => []ChallengesSound
<1>1. AdaptInv => ChallengesSound
  <2> SUFFICES ASSUME AdaptInv PROVE ChallengesSound
    OBVIOUS
  <2>1. LevelIsEarned
    BY DEF AdaptInv, LevelsInv, LevelIsEarned
  <2>2. \A t \in Issued : solved[t] <= 1
    BY DEF AdaptInv, TokenInv, Issued
  <2>3. \A t \in DOMAIN challenges : challengeTime <= challenges[t] + CleanupPeriod
    BY AdaptConstants DEF AdaptInv, TokenInv
  <2> QED
    BY <2>1, <2>2, <2>3 DEF ChallengesSound, TokenSpentOnce
<1>2. AdaptInv /\ [AdaptNext]_adaptVars => AdaptInv'
  BY TokenStep, LevelsStep DEF AdaptInv
<1> QED
  BY <1>1, <1>2, InitAdapt, PTL DEF AdaptSpec

-----------------------------------------------------------------------------
(***************************************************************************)
(* The behavioural engine, for any number of addresses and goroutines.     *)
(***************************************************************************)
Inspecting == [pc : {"add", "reputation"}, ip : Sources, path : PathScores, window : Nat, score : Nat]
Adding(i) == inspection[i].pc = "add"

BehTypeOK ==
    /\ ipRequests \in [Sources -> 0 .. Len(windows)]
    /\ windows \in Seq(SUBSET [at : Nat, nth : Nat])
    /\ seen \in [Sources -> SUBSET [at : Nat, nth : Nat]]
    /\ DOMAIN inspection = Inspections
    /\ \A i \in Inspections : Adding(i) => inspection[i] \in Inspecting /\ inspection[i].window \in 1 .. Len(windows)
    /\ behTime \in Nat

\* No two addresses share a window, neither in the map nor through the pointer of a call.
OwnWindows ==
    /\ \A a, b \in Sources : ipRequests[a] # 0 /\ ipRequests[a] = ipRequests[b] => a = b
    /\ \A i \in Inspections, a \in Sources :
           Adding(i) /\ inspection[i].window = ipRequests[a] => a = inspection[i].ip

\* Of an address that kept its window, all calls add to the one in the map; what it holds
\* was counted, and what it no longer holds is out of time, now and later.
OneWindow(a) ==
    /\ \A i \in Inspections : Adding(i) /\ inspection[i].ip = a =>
           ipRequests[a] # 0 /\ inspection[i].window = ipRequests[a]
    /\ ipRequests[a] # 0 => /\ windows[ipRequests[a]] \subseteq seen[a]
                            /\ \A r \in seen[a] \ windows[ipRequests[a]] : r.at <= behTime - BehWindow
    /\ ipRequests[a] = 0 => seen[a] = {}

WindowInv == BehTypeOK /\ OwnWindows /\ \A a \in Sources \ evicted : OneWindow(a)

\* The requests an address counted are distinct: the next one gets a new number.
Numbered(a) == IsFiniteSet(seen[a]) /\ \A r \in seen[a] : r.nth < Cardinality(seen[a])

BehInv ==
    /\ WindowInv
    /\ \A a \in Sources : Numbered(a)
    /\ badIPs \subseteq Sources /\ blockedIPs = [a \in Sources |-> blockedIPs[a]]
    /\ BadIsGrounded

\* No request has come yet.
LEMMA InitBeh == BehInit => BehInv
<1> SUFFICES ASSUME BehInit PROVE BehInv
  OBVIOUS
<1>1. Len(windows) = 0 /\ windows \in Seq(SUBSET [at : Nat, nth : Nat])
  BY DEF BehInit
<1>2. \A i \in Inspections : ~Adding(i)
  BY DEF BehInit, Adding, IdleInspection
<1>3. BehTypeOK
  BY <1>1, <1>2 DEF BehInit, BehTypeOK
<1>4. \A a \in Sources : Numbered(a)
  BY FS_EmptySet DEF BehInit, Numbered
<1> QED
  BY <1>1, <1>2, <1>3, <1>4 DEF BehInit, BehInv, WindowInv, OwnWindows, OneWindow, BadIsGrounded

\* A call that leaves the windows alone and adds to none from then on
LEMMA CallStep ==
    ASSUME WindowInv, NEW i \in Inspections, NEW d, inspection' = [inspection EXCEPT ![i] = d], d.pc # "add",
           UNCHANGED <<ipRequests, windows, behTime, seen, evicted>>
    PROVE  WindowInv'
<1>1. inspection'[i] = d /\ \A j \in Inspections \ {i} : inspection'[j] = inspection[j]
  BY DEF WindowInv, BehTypeOK
<1>2. \A j \in Inspections : Adding(j)' => Adding(j) /\ inspection'[j] = inspection[j]
  BY <1>1 DEF Adding
<1>3. BehTypeOK'
  BY <1>2 DEF WindowInv, BehTypeOK
<1>4. OwnWindows'
  BY <1>2 DEF WindowInv, OwnWindows
<1>5. \A a \in Sources \ evicted' : OneWindow(a)'
  BY <1>2 DEF WindowInv, OneWindow
<1> QED
  BY <1>3, <1>4, <1>5 DEF WindowInv

\* An inspection that has its verdict is done.
LEMMA FinishedDone == \A v : Finished(v).pc = "done"
BY DEF Finished

\* A request that is added
LEMMA AddStep ==
    ASSUME WindowInv, \A a \in Sources : Numbered(a), NEW i \in Inspections, addToWindow(i)
    PROVE  WindowInv' /\ (UNCHANGED seen \/ \E a \in Sources :
               seen' = [seen EXCEPT ![a] = @ \cup {[at |-> behTime, nth |-> Cardinality(seen[a])]}])
<1>1. PICK c \in Inspecting : c = inspection[i] /\ c.ip \in Sources /\ c.window \in 1 .. Len(windows)
  BY DEF WindowInv, BehTypeOK, addToWindow, Adding, Inspecting
<1>2. PICK a \in Sources, w \in 1 .. Len(windows) : a = c.ip /\ w = c.window
  BY <1>1
<1> DEFINE kept == InTime(windows[w])
           n == Cardinality(kept) + 1
           now == [at |-> behTime, nth |-> Cardinality(seen[a])]
           d == checkVelocity(c, n)
<1>3. CASE n > Room
  <2>1. inspection' = [inspection EXCEPT ![i] = Finished("panic")] /\ UNCHANGED <<ipRequests, windows, behTime, seen, evicted>>
    BY <1>1, <1>2, <1>3 DEF addToWindow
  <2>2. Finished("panic").pc # "add"
    BY FinishedDone
  <2> HIDE DEF Finished
  <2> QED
    BY <2>1, <2>2, CallStep
<1>4. CASE ~(n > Room)
  <2>1. /\ windows' = [windows EXCEPT ![w] = kept \cup {now}]
        /\ seen' = [seen EXCEPT ![a] = @ \cup {now}]
        /\ inspection' = [inspection EXCEPT ![i] = d]
        /\ UNCHANGED <<ipRequests, behTime, evicted>>
    BY <1>1, <1>2, <1>4 DEF addToWindow
  <2>2. d.pc # "add"
    <3> HIDE DEF n
    <3>1. [c EXCEPT !.pc = "reputation", !.score = IF n > MaxRequests THEN 35 ELSE 0].pc = "reputation"
      BY DEF Inspecting
    <3> QED
      BY <3>1, FinishedDone DEF checkVelocity
  <2> HIDE DEF d
  <2>3. inspection'[i] = d /\ \A j \in Inspections \ {i} : inspection'[j] = inspection[j]
    BY <2>1 DEF WindowInv, BehTypeOK
  <2>4. \A j \in Inspections : Adding(j)' => Adding(j) /\ inspection'[j] = inspection[j]
    BY <2>2, <2>3 DEF Adding
  <2>5. Len(windows') = Len(windows) /\ windows'[w] = kept \cup {now} /\ \A x \in 1 .. Len(windows) \ {w} : windows'[x] = windows[x]
    BY <2>1 DEF WindowInv, BehTypeOK
  <2>6. now.at = behTime /\ behTime \in Nat /\ BehWindow \in Nat
    BY BehAssumption DEF WindowInv, BehTypeOK
  <2>7. seen'[a] = seen[a] \cup {now} /\ \A b \in Sources \ {a} : seen'[b] = seen[b]
    BY <2>1 DEF WindowInv, BehTypeOK
  <2>8. WindowInv'
    <3>1. BehTypeOK'
      <4>1. now \in [at : Nat, nth : Nat]
        <5>1. Cardinality(seen[a]) \in Nat
          BY FS_CardinalityType DEF Numbered
        <5> QED
          BY <2>6, <5>1
      <4> HIDE DEF now
      <4>2. kept \cup {now} \in SUBSET [at : Nat, nth : Nat]
        BY <4>1 DEF WindowInv, BehTypeOK, InTime
      <4>3. windows' \in Seq(SUBSET [at : Nat, nth : Nat])
        BY <2>1, <4>2 DEF WindowInv, BehTypeOK
      <4>4. seen' \in [Sources -> SUBSET [at : Nat, nth : Nat]]
        BY <2>1, <4>1 DEF WindowInv, BehTypeOK
      <4>5. DOMAIN inspection' = Inspections
        BY <2>1 DEF WindowInv, BehTypeOK
      <4> QED
        BY <2>1, <2>4, <2>5, <4>3, <4>4, <4>5 DEF WindowInv, BehTypeOK
    <3>2. OwnWindows'
      BY <2>1, <2>4 DEF WindowInv, OwnWindows
    <3>3. ASSUME NEW b \in Sources \ evicted' PROVE OneWindow(b)'
      <4>1. OneWindow(b) /\ ipRequests'[b] = ipRequests[b]
        BY <2>1, <3>3 DEF WindowInv
      <4>2. CASE b = a
        <5>1. ipRequests[b] = w /\ w # 0
          BY <1>1, <1>2, <4>1, <4>2 DEF OneWindow, Adding, addToWindow
        <5>2. \A r \in seen[a] \ windows[w] : r.at <= behTime - BehWindow
          BY <4>1, <4>2, <5>1 DEF OneWindow
        <5>3. \A r \in seen'[a] \ windows'[w] : r.at <= behTime - BehWindow
          <6> SUFFICES ASSUME NEW r \in seen'[a], r \notin windows'[w] PROVE r.at <= behTime - BehWindow
            OBVIOUS
          <6>1. r \in seen[a] /\ r \notin InTime(windows[w])
            BY <2>5, <2>7
          <6>2. r.at \in Nat
            BY <6>1 DEF WindowInv, BehTypeOK
          <6> QED
            BY <5>2, <6>1, <6>2, <2>6 DEF InTime
        <5>4. windows'[w] \subseteq seen'[a]
          BY <2>5, <2>7, <4>1, <4>2, <5>1 DEF OneWindow, InTime
        <5> QED
          BY <2>1, <2>4, <4>1, <4>2, <5>1, <5>3, <5>4 DEF OneWindow
      <4>3. CASE b # a
        <5>1. ipRequests[b] # w /\ ipRequests[b] \in 0 .. Len(windows)
          BY <1>1, <1>2, <4>3 DEF WindowInv, OwnWindows, BehTypeOK, Adding, addToWindow
        <5>2. ipRequests[b] # 0 => windows'[ipRequests[b]] = windows[ipRequests[b]]
          BY <2>5, <5>1
        <5>3. seen'[b] = seen[b]
          BY <2>7, <4>3
        <5> QED
          BY <2>1, <2>4, <4>1, <5>1, <5>2, <5>3 DEF OneWindow
      <4> QED
        BY <4>2, <4>3
    <3> QED
      BY <3>1, <3>2, <3>3 DEF WindowInv
  <2> QED
    BY <2>1, <2>8
<1> QED
  BY <1>3, <1>4

\* A request of an address without a window gets a new one.
LEMMA GetStep ==
    ASSUME WindowInv, NEW i \in Inspections, NEW a \in Sources, NEW p \in PathScores, getWindow(i, a, p)
    PROVE  WindowInv'
<1>0. UNCHANGED <<behTime, seen, evicted>>
  BY DEF getWindow
<1> DEFINE d(w) == [pc |-> IF Velocity THEN "add" ELSE "reputation", ip |-> a, path |-> p, window |-> w, score |-> 0]
<1>1. inspection' = [inspection EXCEPT ![i] = d(ipRequests'[a])]
  BY DEF getWindow, Visit
<1>2. /\ \A w \in Nat : d(w) \in Inspecting
      /\ \A w : d(w).ip = a /\ d(w).window = w
      /\ \A w : d(w).pc = "add" <=> Velocity
  BY DEF Inspecting
<1> HIDE DEF d
<1>3. inspection'[i] = d(ipRequests'[a]) /\ (\A j \in Inspections \ {i} : inspection'[j] = inspection[j]) /\ DOMAIN inspection' = Inspections
  BY <1>1 DEF WindowInv, BehTypeOK
<1>4. CASE Velocity /\ ipRequests[a] = 0
  <2>1. PICK n \in Nat : n = Len(windows) + 1
    BY DEF WindowInv, BehTypeOK
  <2>2. windows' = Append(windows, {}) /\ ipRequests' = [ipRequests EXCEPT ![a] = n]
    BY <1>4, <2>1 DEF getWindow, newSlidingWindow
  <2>3. ipRequests'[a] = n /\ \A b \in Sources \ {a} : ipRequests'[b] = ipRequests[b]
    BY <2>2 DEF WindowInv, BehTypeOK
  <2>4. /\ Len(windows') = n /\ windows'[n] = {} /\ windows' \in Seq(SUBSET [at : Nat, nth : Nat])
        /\ \A x \in 1 .. Len(windows) : windows'[x] = windows[x]
    BY <2>1, <2>2 DEF WindowInv, BehTypeOK
  <2>5. \A b \in Sources : ipRequests[b] \in 0 .. Len(windows) /\ ipRequests[b] # n
    BY <2>1 DEF WindowInv, BehTypeOK
  <2>6. \A j \in Inspections : Adding(j) => inspection[j].window \in 1 .. Len(windows) /\ inspection[j].window # n
    BY <2>1 DEF WindowInv, BehTypeOK
  <2>7. BehTypeOK'
    <3>1. ipRequests' \in [Sources -> 0 .. Len(windows')]
      BY <2>1, <2>2, <2>4, <2>5 DEF WindowInv, BehTypeOK
    <3>2. ASSUME NEW j \in Inspections, Adding(j)' PROVE inspection'[j] \in Inspecting /\ inspection'[j].window \in 1 .. Len(windows')
      <4>1. CASE j = i
        BY <1>2, <1>3, <2>1, <2>3, <2>4, <4>1
      <4>2. CASE j # i
        BY <1>3, <2>1, <2>4, <2>6, <3>2, <4>2 DEF WindowInv, BehTypeOK, Adding
      <4> QED
        BY <4>1, <4>2
    <3> QED
      BY <1>0, <1>3, <2>4, <3>1, <3>2 DEF WindowInv, BehTypeOK
  <2>8. OwnWindows'
    <3>1. \A b, c \in Sources : ipRequests'[b] # 0 /\ ipRequests'[b] = ipRequests'[c] => b = c
      BY <2>3, <2>5 DEF WindowInv, OwnWindows
    <3>2. ASSUME NEW j \in Inspections, NEW b \in Sources, Adding(j)', inspection'[j].window = ipRequests'[b]
          PROVE  b = inspection'[j].ip
      <4>1. CASE j = i
        BY <1>2, <1>3, <2>3, <2>5, <3>2, <4>1
      <4>2. CASE j # i
        BY <1>3, <2>3, <2>6, <3>2, <4>2 DEF WindowInv, OwnWindows, Adding
      <4> QED
        BY <4>1, <4>2
    <3> QED
      BY <3>1, <3>2 DEF OwnWindows
  <2>9. ASSUME NEW b \in Sources \ evicted' PROVE OneWindow(b)'
    <3>1. OneWindow(b)
      BY <1>0, <2>9 DEF WindowInv
    <3>2. CASE b = a
      <4>1. \A j \in Inspections : Adding(j) => inspection[j].ip # a
        BY <1>4, <3>1, <3>2 DEF OneWindow
      <4>2. \A j \in Inspections : Adding(j)' /\ inspection'[j].ip = a => j = i
        BY <4>1, <1>3 DEF Adding
      <4>3. seen'[b] = {}
        BY <1>0, <1>4, <3>1, <3>2 DEF OneWindow
      <4>4. n # 0
        BY <2>1 DEF WindowInv, BehTypeOK
      <4> QED
        BY <1>2, <1>3, <2>3, <2>4, <3>2, <4>2, <4>3, <4>4 DEF OneWindow
    <3>3. CASE b # a
      <4>1. ipRequests[b] # 0 => windows'[ipRequests[b]] = windows[ipRequests[b]]
        BY <2>4, <2>5
      <4>2. \A j \in Inspections : Adding(j)' /\ inspection'[j].ip = b => Adding(j) /\ inspection'[j] = inspection[j]
        BY <1>2, <1>3, <3>3 DEF Adding
      <4> QED
        BY <1>0, <2>3, <3>1, <3>3, <4>1, <4>2 DEF OneWindow
    <3> QED
      BY <3>2, <3>3
  <2> QED
    BY <2>7, <2>8, <2>9 DEF WindowInv
<1>5. CASE ~(Velocity /\ ipRequests[a] = 0)
  <2>1. UNCHANGED <<ipRequests, windows>>
    BY <1>5 DEF getWindow
  <2>2. ipRequests[a] \in 0 .. Len(windows) /\ Len(windows) \in Nat /\ (Velocity => ipRequests[a] # 0)
    BY <1>5 DEF WindowInv, BehTypeOK
  <2>3. ASSUME NEW j \in Inspections, Adding(j)'
        PROVE  \/ Adding(j) /\ inspection'[j] = inspection[j]
               \/ /\ inspection'[j] \in Inspecting /\ inspection'[j].window \in 1 .. Len(windows)
                  /\ inspection'[j].ip = a /\ inspection'[j].window = ipRequests[a] /\ ipRequests[a] # 0
    <3>1. CASE j = i
      <4>1. Velocity
        BY <1>2, <1>3, <2>3, <3>1 DEF Adding
      <4> QED
        BY <1>2, <1>3, <2>1, <2>2, <3>1, <4>1
    <3>2. CASE j # i
      BY <1>3, <2>3, <3>2 DEF Adding
    <3> QED
      BY <3>1, <3>2
  <2>4. BehTypeOK'
    BY <1>0, <1>3, <2>1, <2>3 DEF WindowInv, BehTypeOK
  <2>5. OwnWindows'
    BY <2>1, <2>3 DEF WindowInv, OwnWindows
  <2>6. \A b \in Sources \ evicted' : OneWindow(b)'
    BY <1>0, <2>1, <2>3 DEF WindowInv, OneWindow
  <2> QED
    BY <2>4, <2>5, <2>6 DEF WindowInv
<1> QED
  BY <1>4, <1>5

\* cleanupLoop takes windows out of the map.
LEMMA DropStep ==
    ASSUME WindowInv, behCleanup
    PROVE  WindowInv'
<1>1. PICK D : /\ ipRequests' = [a \in Sources |-> IF a \in D THEN 0 ELSE ipRequests[a]]
               /\ evicted' = evicted \cup D
  BY DEF behCleanup
<1>2. UNCHANGED <<windows, inspection, behTime, seen>>
  BY DEF behCleanup
<1>3. \A a \in Sources : ipRequests'[a] = IF a \in D THEN 0 ELSE ipRequests[a]
  BY <1>1
<1>4. BehTypeOK'
  BY <1>1, <1>2 DEF WindowInv, BehTypeOK, Adding
<1>5. OwnWindows'
  <2>1. \A j \in Inspections : Adding(j) => inspection[j].window # 0
    BY DEF WindowInv, BehTypeOK
  <2> QED
    BY <1>2, <1>3, <2>1 DEF WindowInv, OwnWindows, Adding
<1>6. \A a \in Sources \ evicted' : OneWindow(a)'
  BY <1>1, <1>2, <1>3 DEF WindowInv, OneWindow, Adding
<1> QED
  BY <1>4, <1>5, <1>6 DEF WindowInv

\* Time makes more requests too old, and no request younger.
LEMMA TimeStep ==
    ASSUME WindowInv, UNCHANGED <<ipRequests, windows, inspection, seen, evicted>>,
           behTime' \in Nat, behTime <= behTime'
    PROVE  WindowInv'
<1>1. BehTypeOK' /\ OwnWindows'
  BY DEF WindowInv, BehTypeOK, OwnWindows, Adding
<1>2. ASSUME NEW a \in Sources \ evicted' PROVE OneWindow(a)'
  <2>1. OneWindow(a)
    BY <1>2 DEF WindowInv
  <2>2. \A r \in seen[a] : r.at \in Nat
    BY DEF WindowInv, BehTypeOK
  <2>3. behTime \in Nat /\ BehWindow \in Nat
    BY BehAssumption DEF WindowInv, BehTypeOK
  <2> QED
    BY <2>1, <2>2, <2>3 DEF OneWindow, Adding
<1> QED
  BY <1>1, <1>2 DEF WindowInv

\* A window keeps what it has to, whatever happens between its look-up and its use.
LEMMA WindowStep == BehInv /\ [BehNext]_behVars => WindowInv'
<1> SUFFICES ASSUME BehInv, [BehNext]_behVars PROVE WindowInv'
  OBVIOUS
<1>0. WindowInv /\ behTime \in Nat
  BY DEF BehInv, WindowInv, BehTypeOK
<1>1. ASSUME NEW i \in Inspections, addToWindow(i) PROVE WindowInv'
  BY <1>0, <1>1, AddStep DEF BehInv
<1>2. ASSUME NEW i \in Inspections, judge(i) \/ EndInspection(i) PROVE WindowInv'
  <2>1. UNCHANGED <<ipRequests, windows, behTime, seen, evicted>>
    BY <1>2 DEF judge, EndInspection
  <2>2. \/ inspection' = [inspection EXCEPT ![i] = Finished(behVerdict(inspection[i]))]
        \/ inspection' = [inspection EXCEPT ![i] = IdleInspection]
    BY <1>2 DEF judge, EndInspection
  <2>3. Finished(behVerdict(inspection[i])).pc # "add" /\ IdleInspection.pc # "add"
    BY FinishedDone DEF IdleInspection
  <2> QED
    BY <1>0, <2>1, <2>2, <2>3, CallStep
<1>3. ASSUME BehTick \/ UNCHANGED behVars PROVE WindowInv'
  <2>1. UNCHANGED <<ipRequests, windows, inspection, seen, evicted>> /\ behTime' \in Nat /\ behTime <= behTime'
    BY <1>0, <1>3 DEF BehTick, behVars
  <2> QED
    BY <1>0, <2>1, TimeStep
<1>4. ASSUME \/ \E ip \in Sources : ReportBadIP(ip)
             \/ \E ip \in Sources, d \in Deltas : IncrementReputation(ip, d)
             \/ \E ip \in Sources, d \in BlockTimes : BlockIP(ip, d)
      PROVE WindowInv'
  <2>1. UNCHANGED <<ipRequests, windows, inspection, seen, evicted, behTime>>
    BY <1>4 DEF ReportBadIP, IncrementReputation, BlockIP
  <2> QED
    BY <1>0, <2>1, TimeStep
<1>5. ASSUME NEW i \in Inspections, NEW ip \in Sources, NEW p \in PathScores, getWindow(i, ip, p) PROVE WindowInv'
  BY <1>0, <1>5, GetStep
<1>6. ASSUME behCleanup PROVE WindowInv'
  BY <1>0, <1>6, DropStep
<1> QED
  BY <1>1, <1>2, <1>3, <1>4, <1>5, <1>6 DEF BehNext

\* Every request has a number of its own.
LEMMA NumberedStep == BehInv /\ [BehNext]_behVars => (\A a \in Sources : Numbered(a))'
<1> SUFFICES ASSUME BehInv, [BehNext]_behVars, NEW a \in Sources PROVE Numbered(a)'
  OBVIOUS
<1>0. Numbered(a) /\ WindowInv
  BY DEF BehInv
<1>1. CASE UNCHANGED seen
  BY <1>0, <1>1 DEF Numbered
<1>2. ASSUME NEW i \in Inspections, addToWindow(i), ~UNCHANGED seen PROVE Numbered(a)'
  <2>1. PICK b \in Sources : seen' = [seen EXCEPT ![b] = @ \cup {[at |-> behTime, nth |-> Cardinality(seen[b])]}]
    BY <1>2, AddStep DEF BehInv
  <2>2. CASE a # b
    <3>1. seen'[a] = seen[a]
      BY <2>1, <2>2 DEF BehInv, WindowInv, BehTypeOK
    <3> QED
      BY <1>0, <3>1 DEF Numbered
  <2>3. CASE a = b
    <3>1. PICK k \in Nat : k = Cardinality(seen[a])
      BY <1>0, FS_CardinalityType DEF Numbered
    <3>2. PICK now \in [at : Nat, nth : Nat] : now = [at |-> behTime, nth |-> k]
      BY DEF BehInv, WindowInv, BehTypeOK
    <3>3. now.nth = k /\ seen'[a] = seen[a] \cup {now}
      BY <2>1, <2>3, <3>1, <3>2 DEF BehInv, WindowInv, BehTypeOK
    <3>4. now \notin seen[a]
      BY <1>0, <3>1, <3>3 DEF Numbered
    <3>5. IsFiniteSet(seen'[a]) /\ Cardinality(seen'[a]) = k + 1
      BY <1>0, <3>1, <3>3, <3>4, FS_AddElement DEF Numbered
    <3>6. \A r \in seen[a] : r.nth \in Nat /\ r.nth < k
      BY <1>0, <3>1 DEF Numbered, BehInv, WindowInv, BehTypeOK
    <3>7. \A r \in seen'[a] : r.nth < k + 1
      BY <3>3, <3>6
    <3> QED
      BY <3>5, <3>7 DEF Numbered
  <2> QED
    BY <2>2, <2>3
<1>3. UNCHANGED seen \/ \E i \in Inspections : addToWindow(i)
  BY DEF BehNext, judge, EndInspection, getWindow, ReportBadIP, IncrementReputation, BlockIP, behCleanup, BehTick, behVars
<1> QED
  BY <1>1, <1>2, <1>3

\* An address gets a bad name or a block only by a step that has a reason for it.
LEMMA GroundedStep ==
    BehInv /\ [BehNext]_behVars =>
        badIPs' \subseteq Sources /\ blockedIPs' = [a \in Sources |-> blockedIPs'[a]] /\ BadIsGrounded'
<1> SUFFICES ASSUME BehInv, [BehNext]_behVars
             PROVE  badIPs' \subseteq Sources /\ blockedIPs' = [a \in Sources |-> blockedIPs'[a]] /\ BadIsGrounded'
  OBVIOUS
<1>0. badIPs \subseteq Sources /\ blockedIPs = [a \in Sources |-> blockedIPs[a]] /\ BadIsGrounded
  BY DEF BehInv
<1>1. ASSUME UNCHANGED <<badIPs, blockedIPs, reported>>
      PROVE  badIPs' \subseteq Sources /\ blockedIPs' = [a \in Sources |-> blockedIPs'[a]] /\ BadIsGrounded'
  BY <1>0, <1>1 DEF BadIsGrounded
<1>2. CASE \E ip \in Sources : ReportBadIP(ip)
  BY <1>0, <1>2 DEF BadIsGrounded, ReportBadIP
<1>3. CASE \E ip \in Sources, d \in Deltas : IncrementReputation(ip, d)
  <2>1. PICK ip \in Sources : \/ badIPs' = badIPs \cup {ip} /\ reported' = reported \cup {ip}
                              \/ badIPs' = badIPs /\ reported' = reported
    BY <1>3 DEF IncrementReputation
  <2>2. UNCHANGED blockedIPs
    BY <1>3 DEF IncrementReputation
  <2> QED
    BY <1>0, <2>1, <2>2 DEF BadIsGrounded
<1>4. CASE \E ip \in Sources, d \in BlockTimes : BlockIP(ip, d)
  <2>1. PICK ip \in Sources, d \in BlockTimes :
           /\ blockedIPs' = [blockedIPs EXCEPT ![ip] = behTime + d]
           /\ badIPs' = badIPs \cup {ip} /\ reported' = reported
    BY <1>4 DEF BlockIP
  <2>2. blockedIPs'[ip] # NotBlocked
    BY <1>0, <2>1, BehAssumption DEF BehInv, WindowInv, BehTypeOK
  <2> QED
    BY <1>0, <2>1, <2>2 DEF BadIsGrounded
<1>5. CASE behCleanup
  <2>1. PICK Over \in SUBSET Sources :
          /\ Over = {ip \in Sources : blockedIPs[ip] # NotBlocked /\ behTime > blockedIPs[ip]}
          /\ blockedIPs' = [ip \in Sources |-> IF ip \in Over THEN NotBlocked ELSE blockedIPs[ip]]
          /\ badIPs' = badIPs \ Over /\ reported' = reported \ Over
    BY <1>5 DEF behCleanup
  <2> QED
    BY <1>0, <2>1 DEF BadIsGrounded
<1> QED
  BY <1>1, <1>2, <1>3, <1>4, <1>5 DEF BehNext, addToWindow, judge, EndInspection, getWindow, BehTick, behVars

\* For any number of requests at once: the window of an address holds exactly its counted
\* requests that are still in time, and an address is bad only with a reason and as long as
\* it is blocked (slidingWindow.add, BlockIP and cleanupLoop of behavioral.go).
THEOREM BehaviourRight == BehSpec => []BehaviourSound
<1>1. BehInv => BehaviourSound
  <2> SUFFICES ASSUME BehInv PROVE WindowIsExact
    BY DEF BehInv, BehaviourSound
  <2> SUFFICES ASSUME NEW a \in Sources \ evicted, ipRequests[a] # 0
               PROVE  InTime(windows[ipRequests[a]]) = InTime(seen[a])
    BY DEF WindowIsExact
  <2>1. OneWindow(a) /\ \A r \in seen[a] : r.at \in Nat
    BY DEF BehInv, WindowInv, BehTypeOK
  <2>2. behTime \in Nat /\ BehWindow \in Nat
    BY BehAssumption DEF BehInv, WindowInv, BehTypeOK
  <2> QED
    BY <2>1, <2>2 DEF OneWindow, InTime
<1>2. BehInv /\ [BehNext]_behVars => BehInv'
  BY WindowStep, NumberedStep, GroundedStep DEF BehInv
<1> QED
  BY <1>1, <1>2, InitBeh, PTL DEF BehSpec

-----------------------------------------------------------------------------
(***************************************************************************)
(* The JWT validator and the OAuth introspector, for any number of keys,   *)
(* tokens and goroutines.                                                  *)
(***************************************************************************)
Pcs == {"idle", "fetch", "install", "lookup", "store"}
VerifyCall == [pc : Pcs, token : JwtTokens \cup {NoAnswer}, began : Nat, answer : (SUBSET JwtKeys) \cup {NoAnswer}]
AskCall == [pc : Pcs, token : AccessTokens \cup {NoAnswer}, began : Nat, answer : BOOLEAN \cup {NoAnswer}]
KeyCache == [keys : SUBSET JwtKeys, expiresAt : Nat]
TokenAnswer == [active : BOOLEAN, expiresAt : Nat]

JwtTypeOK ==
    /\ published \subseteq JwtKeys
    /\ since \in [JwtKeys -> Nat] /\ withdrawn \in [JwtKeys -> Nat]
    /\ jwks \in KeyCache
    /\ verifying \in [Verifiers -> VerifyCall]

\* A call has not taken longer than the timeout.
InTimeout(c) == c.began <= authTime /\ authTime <= c.began + FetchTimeout

\* keys is what the server published at some moment since b: what it lacks came later, and
\* what it has too much went later.
AsOf(keys, b) ==
    \A k \in JwtKeys : /\ k \in keys /\ k \notin published => withdrawn[k] >= b
                       /\ k \in published /\ k \notin keys => since[k] >= b

JwtInv ==
    /\ JwtTypeOK
    /\ jwks.expiresAt <= authTime + JwksTTL
    /\ AsOf(jwks.keys, jwks.expiresAt - JwksTTL - FetchTimeout)
    /\ \A v \in Verifiers : verifying[v].pc # "idle" =>
         /\ InTimeout(verifying[v])
         /\ verifying[v].token \in JwtTokens
         /\ precheck(verifying[v].token, verifying[v].began) = "key"
         /\ verifying[v].pc = "install" =>
                verifying[v].answer \in SUBSET JwtKeys /\ AsOf(verifying[v].answer, verifying[v].began)
         /\ verifying[v].pc = "lookup" => verifying[v].began + JwksTTL <= jwks.expiresAt

\* What was said of a token is what holds, or the server has changed its mind since b.
SaidOf(t, said, b) == said # (t \in active) => changed[t] >= b

OAuthInv ==
    /\ active \subseteq AccessTokens
    /\ changed \in [AccessTokens -> Nat]
    /\ introspected \in [AccessTokens -> TokenAnswer \cup {NoAnswer}]
    /\ asking \in [Verifiers -> AskCall]
    /\ \A t \in AccessTokens : introspected[t] # NoAnswer =>
         \/ introspected[t].expiresAt = TokenExpiry[t]
         \/ /\ introspected[t].expiresAt <= authTime + IntrospectTTL
            /\ SaidOf(t, introspected[t].active, introspected[t].expiresAt - IntrospectTTL - FetchTimeout)
    /\ \A v \in Verifiers : asking[v].pc # "idle" =>
         /\ InTimeout(asking[v])
         /\ asking[v].token \in AccessTokens
         /\ asking[v].pc = "store" =>
                asking[v].answer \in BOOLEAN /\ SaidOf(asking[v].token, asking[v].answer, asking[v].began)

AuthInv == authTime \in Nat /\ JwtInv /\ OAuthInv /\ TokensCurrent

\* What the proofs need of the constants: a fetch takes no longer than the keys are kept.
LEMMA AuthConstants ==
    /\ JwksTTL \in Nat /\ IntrospectTTL \in Nat /\ FetchTimeout \in Nat /\ FetchTimeout <= JwksTTL
    /\ \A t \in AccessTokens : TokenExpiry[t] \in Nat
    /\ NoAnswer \notin TokenAnswer
BY AuthAssumption DEF TokenAnswer

\* The call of a goroutine that is in no call.
LEMMA IdleCallOK == IdleCall \in VerifyCall /\ IdleCall \in AskCall /\ IdleCall.pc = "idle"
BY DEF IdleCall, VerifyCall, AskCall, Pcs

\* Where nothing is decided, nothing can be wrong.
LEMMA Undecided == (judged = NoAnswer => TokensCurrent) /\ (judged' = NoAnswer => TokensCurrent')
BY DEF TokensCurrent, AcceptedTokenIsCurrent, UnknownKeyIsNew, IntrospectionIsCurrent, Says

\* Both caches are empty and nobody is in a call.
LEMMA InitAuth == AuthInit => AuthInv
<1> SUFFICES ASSUME AuthInit PROVE AuthInv
  OBVIOUS
<1>1. jwks \in KeyCache /\ jwks.keys = {} /\ jwks.expiresAt = 0
  BY DEF AuthInit, NewJWTValidator, KeyCache
<1>2. JwtInv
  BY <1>1, IdleCallOK, AuthConstants DEF AuthInit, JwtInv, JwtTypeOK, AsOf
<1>3. OAuthInv
  BY IdleCallOK DEF AuthInit, OAuthInv
<1> QED
  BY <1>2, <1>3, Undecided DEF AuthInit, AuthInv

\* A token that is accepted, or sent on to a published key, has claims in force.
LEMMA Prechecked ==
    ASSUME NEW t, NEW now
    PROVE  /\ precheck(t, now) = "key" => validateClaims(t, now) = "ok" /\ t.alg # "none"
           /\ precheck(t, now) = "accepted" =>
                  validateClaims(t, now) = "ok" /\ t.alg # "none" /\ t.kid = "" /\ t.signer = Secret
           /\ precheck(t, now) # "unknown key"
BY DEF precheck, validateClaims, hmacVerdict

\* A signature that a key verifies is that key's.
LEMMA KeyVerdicts ==
    ASSUME NEW t, NEW keys \in SUBSET JwtKeys, t.kid \in Kids(keys)
    PROVE  /\ keyVerdict(t, keys) \in {"accepted", "signature"}
           /\ keyVerdict(t, keys) = "accepted" => \E k \in keys : k.kid = t.kid /\ k.material = t.signer
<1>1. KeyOf(keys, t.kid) \in keys /\ KeyOf(keys, t.kid).kid = t.kid
  BY DEF KeyOf, Kids
<1> QED
  BY <1>1 DEF keyVerdict, verifySignature, verifyRSASignature, verifyECSignature

\* A key found in the cache was withdrawn a short time ago at most, as long as the cache
\* has not expired.
LEMMA CachedKeyIsYoung ==
    ASSUME JwtInv, authTime \in Nat, NEW k \in jwks.keys, authTime <= jwks.expiresAt
    PROVE  k \in JwtKeys /\ (k \notin published => withdrawn[k] >= authTime - JwksTTL - FetchTimeout)
<1>1. PICK ex \in Nat, keys \in SUBSET JwtKeys : ex = jwks.expiresAt /\ keys = jwks.keys
  BY DEF JwtInv, JwtTypeOK, KeyCache
<1>2. k \in JwtKeys /\ withdrawn[k] \in Nat
  BY <1>1 DEF JwtInv, JwtTypeOK
<1>3. k \notin published => withdrawn[k] >= ex - JwksTTL - FetchTimeout
  BY <1>1, <1>2 DEF JwtInv, AsOf
<1> QED
  BY <1>1, <1>2, <1>3, AuthConstants

\* A published key that the cache lacks was published a short time ago, as long as the
\* cache was filled by a call that took no longer than the timeout.
LEMMA MissingKeyIsNew ==
    ASSUME JwtInv, authTime \in Nat, NEW k \in published, k \notin jwks.keys,
           authTime <= jwks.expiresAt - JwksTTL + FetchTimeout
    PROVE  since[k] >= authTime - 2 * FetchTimeout
<1>1. PICK ex \in Nat : ex = jwks.expiresAt
  BY DEF JwtInv, JwtTypeOK, KeyCache
<1>2. k \in JwtKeys /\ since[k] \in Nat
  BY DEF JwtInv, JwtTypeOK
<1>3. since[k] >= ex - JwksTTL - FetchTimeout
  BY <1>1, <1>2 DEF JwtInv, AsOf
<1> QED
  BY <1>1, <1>2, <1>3, AuthConstants

\* What a JWT verdict needs
LEMMA JwtJudged ==
    ASSUME NEW c, NEW verdict, judged' = Judge("jwt", c, verdict),
           verdict = "accepted" =>
             /\ validateClaims(c.token, c.began) = "ok" /\ c.token.alg # "none"
             /\ \/ c.token.kid = "" /\ c.token.signer = Secret
                \/ \E k \in JwtKeys :
                     /\ k.kid = c.token.kid /\ k.material = c.token.signer
                     /\ k \notin published' => withdrawn'[k] >= authTime' - JwksTTL - FetchTimeout,
           verdict = "unknown key" =>
             \A k \in published' : k.kid = c.token.kid => since'[k] >= authTime' - 2 * FetchTimeout
    PROVE  TokensCurrent'
<1>1. /\ judged'.by = "jwt" /\ judged'.verdict = verdict
      /\ judged'.token = c.token /\ judged'.began = c.began
  BY DEF Judge
<1>2. AcceptedTokenIsCurrent'
  BY <1>1, Zenon DEF AcceptedTokenIsCurrent, Says
<1>3. UnknownKeyIsNew'
  BY <1>1, Zenon DEF UnknownKeyIsNew, Says
<1>4. IntrospectionIsCurrent'
  BY <1>1 DEF IntrospectionIsCurrent, Says
<1> QED
  BY <1>2, <1>3, <1>4 DEF TokensCurrent

\* A step of one verifier that leaves the keys alone
LEMMA VerifierStep ==
    ASSUME JwtInv, NEW v \in Verifiers, NEW d \in VerifyCall,
           verifying' = [verifying EXCEPT ![v] = d],
           UNCHANGED <<authTime, published, since, withdrawn, jwks>>,
           d.pc # "idle" =>
             /\ InTimeout(d) /\ d.token \in JwtTokens /\ precheck(d.token, d.began) = "key"
             /\ d.pc = "install" => d.answer \in SUBSET JwtKeys /\ AsOf(d.answer, d.began)
             /\ d.pc = "lookup" => d.began + JwksTTL <= jwks.expiresAt
    PROVE  JwtInv'
<1>1. verifying'[v] = d /\ \A u \in Verifiers \ {v} : verifying'[u] = verifying[u]
  BY DEF JwtInv, JwtTypeOK
<1>2. JwtTypeOK'
  BY DEF JwtInv, JwtTypeOK
<1>3. AsOf(jwks.keys, jwks.expiresAt - JwksTTL - FetchTimeout)'
  BY DEF JwtInv, AsOf
<1>4. ASSUME NEW u \in Verifiers, verifying'[u].pc # "idle"
      PROVE  /\ InTimeout(verifying[u])'
             /\ verifying'[u].token \in JwtTokens
             /\ precheck(verifying'[u].token, verifying'[u].began) = "key"
             /\ verifying'[u].pc = "install" =>
                    verifying'[u].answer \in SUBSET JwtKeys /\ AsOf(verifying[u].answer, verifying[u].began)'
             /\ verifying'[u].pc = "lookup" => verifying'[u].began + JwksTTL <= jwks'.expiresAt
  <2>1. CASE u = v
    BY <1>1, <1>4, <2>1 DEF InTimeout, AsOf
  <2>2. CASE u # v
    BY <1>1, <1>4, <2>2 DEF JwtInv, InTimeout, AsOf
  <2> QED
    BY <2>1, <2>2
<1> QED
  BY <1>2, <1>3, <1>4 DEF JwtInv

\* A call that begins
LEMMA NewCall ==
    ASSUME authTime \in Nat, NEW t
    PROVE  /\ Call(t).pc = "fetch" /\ Call(t).token = t /\ Call(t).began = authTime
           /\ t \in JwtTokens => Call(t) \in VerifyCall
           /\ t \in AccessTokens => Call(t) \in AskCall
<1>1. PICK now \in Nat : now = authTime
  OBVIOUS
<1>2. Call(t) = [pc |-> "fetch", token |-> t, began |-> now, answer |-> NoAnswer]
  BY <1>1 DEF Call
<1> QED
  BY <1>1, <1>2 DEF VerifyCall, AskCall, Pcs

\* The OAuth side does not notice the JWT side, and the other way round.
LEMMA OAuthSame == OAuthInv /\ UNCHANGED <<authTime, oauthVars>> => OAuthInv'
BY DEF OAuthInv, oauthVars, InTimeout, SaidOf

\* The JWT side does not notice the OAuth side.
LEMMA JwtSame == JwtInv /\ UNCHANGED <<authTime, jwtVars>> => JwtInv'
BY DEF JwtInv, JwtTypeOK, jwtVars, InTimeout, AsOf

\* Validate keeps the invariant: it judges with a cache that has not expired, or begins a
\* fetch.
LEMMA ValidateStep ==
    ASSUME AuthInv, NEW v \in Verifiers, NEW t \in JwtTokens, Validate(v, t)
    PROVE  AuthInv'
<1>0. authTime \in Nat /\ JwtInv /\ OAuthInv' /\ authTime' = authTime /\ UNCHANGED <<published, since, withdrawn, jwks>>
  BY OAuthSame DEF AuthInv, Validate
<1> DEFINE first == precheck(t, authTime)
<1>c. PICK c : c = Call(t) /\ c.token = t /\ c.began = authTime /\ c.pc = "fetch" /\ c \in VerifyCall
  BY <1>0, NewCall
<1>1. CASE first # "key" \/ CacheHit(t.kid)
  <2>1. \/ /\ judged' = Judge("jwt", c, IF first # "key" THEN first ELSE keyVerdict(t, jwks.keys))
           /\ UNCHANGED verifying
        \/ FALSE
    BY <1>1, <1>c DEF Validate
  <2>2. JwtInv'
    BY <1>0, <2>1, JwtSame DEF jwtVars
  <2>3. TokensCurrent'
    <3>1. CASE first # "key"
      <4>1. judged' = Judge("jwt", c, first)
        BY <2>1, <3>1
      <4>2. /\ first = "accepted" => /\ validateClaims(c.token, c.began) = "ok" /\ c.token.alg # "none"
                                     /\ c.token.kid = "" /\ c.token.signer = Secret
            /\ first # "unknown key"
        BY <1>c, Prechecked
      <4> HIDE DEF first
      <4> QED
        BY <4>1, <4>2, JwtJudged
    <3>2. CASE first = "key"
      <4>1. CacheHit(t.kid)
        BY <1>1, <3>2
      <4>2. PICK ex \in Nat, keys \in SUBSET JwtKeys : ex = jwks.expiresAt /\ keys = jwks.keys
        BY <1>0 DEF JwtInv, JwtTypeOK, KeyCache
      <4>3. t.kid \in Kids(keys) /\ authTime <= ex
        BY <1>0, <4>1, <4>2 DEF CacheHit
      <4>4. judged' = Judge("jwt", c, keyVerdict(t, keys))
        BY <2>1, <3>2, <4>2
      <4>5. keyVerdict(t, keys) # "unknown key"
        BY <4>3, KeyVerdicts
      <4>6. ASSUME keyVerdict(t, keys) = "accepted"
            PROVE  \E k \in JwtKeys : /\ k.kid = t.kid /\ k.material = t.signer
                                      /\ k \notin published' => withdrawn'[k] >= authTime' - JwksTTL - FetchTimeout
        <5>1. PICK k \in keys : k.kid = t.kid /\ k.material = t.signer
          BY <4>3, <4>6, KeyVerdicts
        <5>2. k \in JwtKeys /\ (k \notin published => withdrawn[k] >= authTime - JwksTTL - FetchTimeout)
          BY <1>0, <4>2, <4>3, CachedKeyIsYoung
        <5> QED
          BY <1>0, <5>1, <5>2
      <4>7. validateClaims(c.token, c.began) = "ok" /\ c.token.alg # "none"
        BY <1>c, <3>2, Prechecked
      <4> QED
        BY <1>c, <4>4, <4>5, <4>6, <4>7, JwtJudged
    <3> QED
      BY <3>1, <3>2
  <2> QED
    BY <1>0, <2>2, <2>3 DEF AuthInv
<1>2. CASE first = "key" /\ ~CacheHit(t.kid)
  <2>1. verifying' = [verifying EXCEPT ![v] = c] /\ judged' = NoAnswer
    BY <1>2, <1>c DEF Validate
  <2>2. InTimeout(c)
    BY <1>0, <1>c, AuthConstants DEF InTimeout
  <2>3. JwtInv'
    BY <1>0, <1>2, <1>c, <2>1, <2>2, VerifierStep
  <2>4. TokensCurrent'
    BY <2>1, Undecided
  <2> QED
    BY <1>0, <2>3, <2>4 DEF AuthInv
<1> QED
  BY <1>1, <1>2

\* The key server's answer is what it publishes now.
LEMMA FetchStep ==
    ASSUME AuthInv, NEW v \in Verifiers, FetchJWKS(v)
    PROVE  AuthInv'
<1>0. authTime \in Nat /\ JwtInv /\ OAuthInv' /\ authTime' = authTime /\ UNCHANGED <<published, since, withdrawn, jwks>>
  BY OAuthSame DEF AuthInv, FetchJWKS
<1>1. PICK c \in VerifyCall, keys \in SUBSET JwtKeys : c = verifying[v] /\ keys = published
  BY <1>0 DEF JwtInv, JwtTypeOK
<1>2. InTimeout(c) /\ c.token \in JwtTokens /\ precheck(c.token, c.began) = "key"
  BY <1>0, <1>1 DEF JwtInv, FetchJWKS
<1>3. CASE verifying' = [verifying EXCEPT ![v].pc = "install", ![v].answer = published] /\ judged' = NoAnswer
  <2> DEFINE d == [c EXCEPT !.pc = "install", !.answer = keys]
  <2>1. d \in VerifyCall /\ d.pc = "install" /\ d.token = c.token /\ d.began = c.began /\ d.answer = keys
    BY DEF VerifyCall, Pcs
  <2>2. verifying' = [verifying EXCEPT ![v] = d]
    BY <1>1, <1>3
  <2> HIDE DEF d
  <2>3. AsOf(d.answer, d.began) /\ InTimeout(d)
    BY <1>1, <1>2, <2>1 DEF AsOf, InTimeout
  <2>4. JwtInv'
    BY <1>0, <1>2, <2>1, <2>2, <2>3, VerifierStep
  <2>5. TokensCurrent'
    BY <1>3, Undecided
  <2> QED
    BY <1>0, <2>4, <2>5 DEF AuthInv
<1>4. CASE verifying' = [verifying EXCEPT ![v] = IdleCall] /\ judged' = Judge("jwt", verifying[v], "no keys")
  <2>1. JwtInv'
    BY <1>0, <1>4, IdleCallOK, VerifierStep
  <2>2. TokensCurrent'
    <3>1. PICK verdict : verdict = "no keys"
      OBVIOUS
    <3>2. judged' = Judge("jwt", c, verdict) /\ verdict # "accepted" /\ verdict # "unknown key"
      BY <1>1, <1>4, <3>1
    <3> QED
      BY <3>2, JwtJudged
  <2> QED
    BY <1>0, <2>1, <2>2 DEF AuthInv
<1> QED
  BY <1>3, <1>4 DEF FetchJWKS

\* refreshJWKS stores an answer no older than a fetch, whoever stored another one before,
\* and it never makes the cache expire before a call that waits for its second look.
LEMMA RefreshStep ==
    ASSUME AuthInv, NEW v \in Verifiers, refreshJWKS(v)
    PROVE  AuthInv'
<1>0. authTime \in Nat /\ JwtInv /\ OAuthInv' /\ authTime' = authTime /\ UNCHANGED <<published, since, withdrawn>> /\ judged' = NoAnswer
  BY OAuthSame DEF AuthInv, refreshJWKS
<1>1. PICK c \in VerifyCall, keys \in SUBSET JwtKeys, b \in Nat : c = verifying[v] /\ keys = c.answer /\ b = c.began
  BY <1>0 DEF JwtInv, JwtTypeOK, refreshJWKS, VerifyCall
<1>2. /\ InTimeout(c) /\ c.token \in JwtTokens /\ precheck(c.token, c.began) = "key" /\ c.pc = "install"
      /\ AsOf(keys, b) /\ b <= authTime /\ authTime <= b + FetchTimeout
  BY <1>0, <1>1 DEF JwtInv, refreshJWKS, InTimeout
<1>3. PICK ex \in Nat : ex = authTime + JwksTTL
  BY <1>0, AuthConstants
<1>4. PICK cache \in KeyCache : cache = [keys |-> keys, expiresAt |-> ex] /\ cache.keys = keys /\ cache.expiresAt = ex
  <2>1. [keys |-> keys, expiresAt |-> ex] \in KeyCache
    BY DEF KeyCache
  <2> QED
    BY <2>1
<1>5. jwks' = cache
  BY <1>1, <1>3, <1>4 DEF refreshJWKS
<1> DEFINE d == [c EXCEPT !.pc = "lookup", !.answer = NoAnswer]
<1>6. d \in VerifyCall /\ d.pc = "lookup" /\ d.token = c.token /\ d.began = c.began
  BY DEF VerifyCall, Pcs
<1>7. verifying' = [verifying EXCEPT ![v] = d]
  BY <1>1 DEF refreshJWKS
<1> HIDE DEF d
<1>8. JwtTypeOK'
  BY <1>0, <1>5, <1>6, <1>7 DEF JwtInv, JwtTypeOK
<1>9. AsOf(keys, ex - JwksTTL - FetchTimeout)'
  BY <1>0, <1>2, <1>3, AuthConstants DEF AsOf, JwtInv, JwtTypeOK
<1>10. verifying'[v] = d /\ \A u \in Verifiers \ {v} : verifying'[u] = verifying[u]
  BY <1>0, <1>7 DEF JwtInv, JwtTypeOK
<1>11. ASSUME NEW u \in Verifiers, verifying'[u].pc # "idle"
       PROVE  /\ InTimeout(verifying[u])'
              /\ verifying'[u].token \in JwtTokens
              /\ precheck(verifying'[u].token, verifying'[u].began) = "key"
              /\ verifying'[u].pc = "install" =>
                     verifying'[u].answer \in SUBSET JwtKeys /\ AsOf(verifying[u].answer, verifying[u].began)'
              /\ verifying'[u].pc = "lookup" => verifying'[u].began + JwksTTL <= jwks'.expiresAt
  <2>1. CASE u = v
    <3>1. InTimeout(verifying[u])'
      BY <1>0, <1>1, <1>2, <1>6, <1>10, <2>1 DEF InTimeout
    <3>2. d.began + JwksTTL <= ex
      BY <1>0, <1>1, <1>2, <1>3, <1>6, AuthConstants
    <3> QED
      BY <1>2, <1>4, <1>5, <1>6, <1>10, <2>1, <3>1, <3>2
  <2>2. CASE u # v
    <3>1. verifying'[u] = verifying[u] /\ verifying[u].pc # "idle" /\ verifying[u].began \in Nat
      BY <1>0, <1>10, <1>11, <2>2 DEF JwtInv, JwtTypeOK, VerifyCall
    <3>2. InTimeout(verifying[u])
      BY <1>0, <3>1 DEF JwtInv
    <3>3. verifying[u].began + JwksTTL <= ex
      BY <1>0, <1>3, <3>1, <3>2, AuthConstants DEF InTimeout
    <3>4. InTimeout(verifying[u])'
      BY <1>0, <3>1, <3>2 DEF InTimeout
    <3>5. verifying[u].pc = "install" => AsOf(verifying[u].answer, verifying[u].began)'
      BY <1>0, <3>1 DEF JwtInv, AsOf
    <3> QED
      BY <1>0, <1>4, <1>5, <3>1, <3>3, <3>4, <3>5 DEF JwtInv
  <2> QED
    BY <2>1, <2>2
<1>12. JwtInv'
  <2>1. jwks'.keys = keys /\ jwks'.expiresAt = ex
    BY <1>4, <1>5
  <2>2. AsOf(jwks.keys, jwks.expiresAt - JwksTTL - FetchTimeout)'
    BY <1>9, <2>1 DEF AsOf
  <2>3. jwks'.expiresAt <= authTime' + JwksTTL
    BY <1>0, <1>3, <2>1, AuthConstants
  <2> QED
    BY <1>8, <1>11, <2>2, <2>3 DEF JwtInv
<1> QED
  BY <1>0, <1>12, Undecided DEF AuthInv

\* The second look of getKey finds a cache that was filled during the call or later.
LEMMA GetKeyStep ==
    ASSUME AuthInv, NEW v \in Verifiers, getKey(v)
    PROVE  AuthInv'
<1>0. authTime \in Nat /\ JwtInv /\ OAuthInv' /\ authTime' = authTime /\ UNCHANGED <<published, since, withdrawn, jwks>>
  BY OAuthSame DEF AuthInv, getKey
<1>1. PICK c \in VerifyCall, b \in Nat, t \in JwtTokens : c = verifying[v] /\ b = c.began /\ t = c.token
  BY <1>0 DEF JwtInv, JwtTypeOK, VerifyCall, getKey
<1>2. PICK ex \in Nat, keys \in SUBSET JwtKeys : ex = jwks.expiresAt /\ keys = jwks.keys
  BY <1>0 DEF JwtInv, JwtTypeOK, KeyCache
<1>3. precheck(t, b) = "key" /\ b <= authTime /\ authTime <= b + FetchTimeout /\ b + JwksTTL <= ex
  BY <1>0, <1>1, <1>2 DEF JwtInv, getKey, InTimeout
<1>4. /\ verifying' = [verifying EXCEPT ![v] = IdleCall]
      /\ judged' = Judge("jwt", c, IF t.kid \in Kids(keys) THEN keyVerdict(t, keys) ELSE "unknown key")
  BY <1>1, <1>2 DEF getKey
<1>5. JwtInv'
  BY <1>0, <1>4, IdleCallOK, VerifierStep
<1>6. authTime <= ex /\ authTime <= ex - JwksTTL + FetchTimeout
  BY <1>0, <1>3, AuthConstants
<1>7. CASE t.kid \notin Kids(keys)
  <2>1. judged' = Judge("jwt", c, "unknown key")
    BY <1>4, <1>7
  <2>2. ASSUME NEW k \in published', k.kid = c.token.kid PROVE since'[k] >= authTime' - 2 * FetchTimeout
    <3>1. k \in published /\ k \notin jwks.keys
      BY <1>0, <1>1, <1>2, <1>7, <2>2 DEF Kids
    <3>2. authTime <= jwks.expiresAt - JwksTTL + FetchTimeout
      BY <1>2, <1>6
    <3>3. since[k] >= authTime - 2 * FetchTimeout
      BY <1>0, <3>1, <3>2, MissingKeyIsNew
    <3> QED
      BY <1>0, <3>3
  <2>3. TokensCurrent'
    BY <2>1, <2>2, JwtJudged
  <2> QED
    BY <1>0, <1>5, <2>3 DEF AuthInv
<1>8. CASE t.kid \in Kids(keys)
  <2>1. judged' = Judge("jwt", c, keyVerdict(t, keys))
    BY <1>4, <1>8
  <2>2. keyVerdict(t, keys) # "unknown key"
    BY <1>8, KeyVerdicts
  <2>3. ASSUME keyVerdict(t, keys) = "accepted"
        PROVE  \E k \in JwtKeys : /\ k.kid = t.kid /\ k.material = t.signer
                                  /\ k \notin published' => withdrawn'[k] >= authTime' - JwksTTL - FetchTimeout
    <3>1. PICK k \in keys : k.kid = t.kid /\ k.material = t.signer
      BY <1>8, <2>3, KeyVerdicts
    <3>2. k \in JwtKeys /\ (k \notin published => withdrawn[k] >= authTime - JwksTTL - FetchTimeout)
      BY <1>0, <1>2, <1>6, CachedKeyIsYoung
    <3> QED
      BY <1>0, <3>1, <3>2
  <2>4. validateClaims(c.token, c.began) = "ok" /\ c.token.alg # "none"
    BY <1>1, <1>3, Prechecked
  <2>5. TokensCurrent'
    BY <1>1, <2>1, <2>2, <2>3, <2>4, JwtJudged
  <2> QED
    BY <1>0, <1>5, <2>5 DEF AuthInv
<1> QED
  BY <1>7, <1>8

\* A key that comes or goes now does so after everything that was answered before.
LEMMA RotateStep ==
    ASSUME AuthInv, NEW k \in JwtKeys, Rotate(k)
    PROVE  AuthInv'
<1>0. /\ authTime \in Nat /\ JwtInv /\ OAuthInv' /\ authTime' = authTime /\ judged' = NoAnswer
      /\ UNCHANGED <<jwks, verifying>>
  BY OAuthSame DEF AuthInv, Rotate
<1>1. \/ published' = published \ {k} /\ withdrawn' = [withdrawn EXCEPT ![k] = authTime] /\ since' = since
      \/ published' = published \cup {k} /\ since' = [since EXCEPT ![k] = authTime] /\ withdrawn' = withdrawn
  BY DEF Rotate
<1>2. JwtTypeOK'
  BY <1>0, <1>1 DEF JwtInv, JwtTypeOK
<1>3. ASSUME NEW keys, NEW b, b <= authTime, AsOf(keys, b) PROVE AsOf(keys, b)'
  BY <1>0, <1>1, <1>3 DEF AsOf, JwtInv, JwtTypeOK
<1>4. AsOf(jwks.keys, jwks.expiresAt - JwksTTL - FetchTimeout)'
  <2>1. PICK ex \in Nat : ex = jwks.expiresAt /\ ex <= authTime + JwksTTL
    BY <1>0 DEF JwtInv, JwtTypeOK, KeyCache
  <2>2. ex - JwksTTL - FetchTimeout <= authTime
    BY <1>0, <2>1, AuthConstants
  <2>3. AsOf(jwks.keys, ex - JwksTTL - FetchTimeout)
    BY <1>0, <2>1 DEF JwtInv
  <2>4. AsOf(jwks.keys, ex - JwksTTL - FetchTimeout)'
    BY <1>0, <1>3, <2>2, <2>3
  <2> QED
    BY <1>0, <2>1, <2>4
<1>5. ASSUME NEW u \in Verifiers, verifying[u].pc # "idle"
      PROVE  /\ InTimeout(verifying[u])'
             /\ verifying[u].pc = "install" => AsOf(verifying[u].answer, verifying[u].began)'
  <2>1. InTimeout(verifying[u]) /\ (verifying[u].pc = "install" => AsOf(verifying[u].answer, verifying[u].began))
    BY <1>0, <1>5 DEF JwtInv
  <2>2. InTimeout(verifying[u])' /\ verifying[u].began <= authTime
    BY <1>0, <2>1 DEF InTimeout
  <2>3. ASSUME verifying[u].pc = "install" PROVE AsOf(verifying[u].answer, verifying[u].began)'
    <3>1. PICK keys, b : keys = verifying[u].answer /\ b = verifying[u].began
      OBVIOUS
    <3>2. AsOf(keys, b)'
      BY <1>3, <2>1, <2>2, <2>3, <3>1
    <3> QED
      BY <1>0, <3>1, <3>2
  <2> QED
    BY <2>2, <2>3
<1>6. JwtInv'
  BY <1>0, <1>2, <1>4, <1>5 DEF JwtInv
<1> QED
  BY <1>0, <1>6, Undecided DEF AuthInv

\* What an OAuth verdict needs
LEMMA OAuthJudged ==
    ASSUME NEW c, NEW verdict, judged' = Judge("oauth", c, verdict),
           verdict = "accepted" /\ c.token \notin active' =>
             \/ changed'[c.token] >= authTime' - IntrospectTTL - FetchTimeout
             \/ authTime' <= TokenExpiry[c.token],
           verdict = "inactive" /\ c.token \in active' =>
             \/ changed'[c.token] >= authTime' - IntrospectTTL - FetchTimeout
             \/ authTime' <= TokenExpiry[c.token]
    PROVE  TokensCurrent'
<1>1. /\ judged'.by = "oauth" /\ judged'.verdict = verdict
      /\ judged'.token = c.token /\ judged'.began = c.began
  BY DEF Judge
<1>2. AcceptedTokenIsCurrent' /\ UnknownKeyIsNew'
  BY <1>1 DEF AcceptedTokenIsCurrent, UnknownKeyIsNew, Says
<1>3. IntrospectionIsCurrent'
  BY <1>1, Zenon DEF IntrospectionIsCurrent, Says
<1> QED
  BY <1>2, <1>3 DEF TokensCurrent

\* A verdict on a token that a server's answer supports
LEMMA SaidVerdict ==
    ASSUME NEW c, NEW said \in BOOLEAN, judged' = Judge("oauth", c, ActiveVerdict(said)),
           \/ authTime' <= TokenExpiry[c.token]
           \/ (said # (c.token \in active')) => changed'[c.token] >= authTime' - IntrospectTTL - FetchTimeout
    PROVE  TokensCurrent'
<1>1. PICK verdict : verdict = ActiveVerdict(said)
  OBVIOUS
<1>2. CASE said
  <2>1. verdict = "accepted"
    BY <1>1, <1>2 DEF ActiveVerdict
  <2>2. c.token \notin active' =>
             \/ changed'[c.token] >= authTime' - IntrospectTTL - FetchTimeout
             \/ authTime' <= TokenExpiry[c.token]
    BY <1>2, Zenon
  <2> QED
    BY <1>1, <2>1, <2>2, OAuthJudged
<1>3. CASE ~said
  <2>1. verdict = "inactive"
    BY <1>1, <1>3 DEF ActiveVerdict
  <2>2. c.token \in active' =>
             \/ changed'[c.token] >= authTime' - IntrospectTTL - FetchTimeout
             \/ authTime' <= TokenExpiry[c.token]
    BY <1>3, Zenon
  <2> QED
    BY <1>1, <2>1, <2>2, OAuthJudged
<1> QED
  BY <1>2, <1>3

\* A step of one introspection that leaves the cache and the server alone
LEMMA AskerStep ==
    ASSUME OAuthInv, NEW v \in Verifiers, NEW d \in AskCall,
           asking' = [asking EXCEPT ![v] = d],
           UNCHANGED <<authTime, active, changed>>,
           introspected' \in [AccessTokens -> TokenAnswer \cup {NoAnswer}],
           \A t \in AccessTokens : introspected'[t] # NoAnswer =>
             \/ introspected'[t].expiresAt = TokenExpiry[t]
             \/ /\ introspected'[t].expiresAt <= authTime + IntrospectTTL
                /\ SaidOf(t, introspected'[t].active, introspected'[t].expiresAt - IntrospectTTL - FetchTimeout),
           d.pc # "idle" =>
             /\ InTimeout(d) /\ d.token \in AccessTokens
             /\ d.pc = "store" => d.answer \in BOOLEAN /\ SaidOf(d.token, d.answer, d.began)
    PROVE  OAuthInv'
<1>1. asking'[v] = d /\ \A u \in Verifiers \ {v} : asking'[u] = asking[u]
  BY DEF OAuthInv
<1>2. asking' \in [Verifiers -> AskCall]
  BY DEF OAuthInv
<1>3. ASSUME NEW u \in Verifiers, asking'[u].pc # "idle"
      PROVE  /\ InTimeout(asking[u])'
             /\ asking'[u].token \in AccessTokens
             /\ asking'[u].pc = "store" =>
                    asking'[u].answer \in BOOLEAN /\ SaidOf(asking[u].token, asking[u].answer, asking[u].began)'
  <2>1. CASE u = v
    BY <1>1, <1>3, <2>1 DEF InTimeout, SaidOf
  <2>2. CASE u # v
    BY <1>1, <1>3, <2>2 DEF OAuthInv, InTimeout, SaidOf
  <2> QED
    BY <2>1, <2>2
<1> QED
  BY <1>2, <1>3 DEF OAuthInv, SaidOf

\* Introspect judges by an answer that has not expired, or asks.
LEMMA IntrospectStep ==
    ASSUME AuthInv, NEW v \in Verifiers, NEW t \in AccessTokens, Introspect(v, t)
    PROVE  AuthInv'
<1>0. /\ authTime \in Nat /\ OAuthInv /\ JwtInv' /\ authTime' = authTime
      /\ UNCHANGED <<active, changed, introspected>>
  BY JwtSame DEF AuthInv, Introspect
<1>c. PICK c : c = Call(t) /\ c.token = t /\ c.began = authTime /\ c.pc = "fetch" /\ c \in AskCall
  BY <1>0, NewCall
<1>1. CASE getCached(t) # NoAnswer
  <2>1. judged' = Judge("oauth", c, ActiveVerdict(getCached(t).active)) /\ UNCHANGED asking
    BY <1>1, <1>c DEF Introspect
  <2>2. getCached(t) = introspected[t] /\ introspected[t] # NoAnswer /\ authTime <= introspected[t].expiresAt
    BY <1>1 DEF getCached
  <2>3. PICK said \in BOOLEAN, ex \in Nat : said = introspected[t].active /\ ex = introspected[t].expiresAt
    BY <1>0, <2>2 DEF OAuthInv, TokenAnswer
  <2>4. \/ ex = TokenExpiry[t]
        \/ SaidOf(t, said, ex - IntrospectTTL - FetchTimeout)
    BY <1>0, <2>2, <2>3 DEF OAuthInv
  <2>5. judged' = Judge("oauth", c, ActiveVerdict(said)) /\ authTime <= ex
    BY <2>1, <2>2, <2>3
  <2>6. ASSUME ex = TokenExpiry[t] PROVE TokensCurrent'
    <3>1. authTime' <= TokenExpiry[c.token]
      BY <1>0, <1>c, <2>5, <2>6
    <3> QED
      BY <2>5, <3>1, SaidVerdict
  <2>7. ASSUME SaidOf(t, said, ex - IntrospectTTL - FetchTimeout) PROVE TokensCurrent'
    <3>1. changed[t] \in Nat
      BY <1>0 DEF OAuthInv
    <3>2. changed[t] >= ex - IntrospectTTL - FetchTimeout => changed[t] >= authTime - IntrospectTTL - FetchTimeout
      BY <1>0, <2>5, <3>1, AuthConstants
    <3>3. (said # (c.token \in active')) => changed'[c.token] >= authTime' - IntrospectTTL - FetchTimeout
      BY <1>0, <1>c, <2>7, <3>2 DEF SaidOf
    <3> QED
      BY <2>5, <3>3, SaidVerdict
  <2>8. OAuthInv'
    BY <1>0, <2>1, OAuthSame DEF oauthVars
  <2> QED
    BY <1>0, <2>4, <2>6, <2>7, <2>8 DEF AuthInv
<1>2. CASE getCached(t) = NoAnswer
  <2>1. asking' = [asking EXCEPT ![v] = c] /\ judged' = NoAnswer
    BY <1>2, <1>c DEF Introspect
  <2>2. InTimeout(c)
    BY <1>0, <1>c, AuthConstants DEF InTimeout
  <2>3. OAuthInv'
    BY <1>0, <1>c, <2>1, <2>2, AskerStep DEF OAuthInv
  <2> QED
    BY <1>0, <2>1, <2>3, Undecided DEF AuthInv
<1> QED
  BY <1>1, <1>2

\* The OAuth server's answer is what holds now.
LEMMA AnswerStep ==
    ASSUME AuthInv, NEW v \in Verifiers, AnswerIntrospection(v)
    PROVE  AuthInv'
<1>0. /\ authTime \in Nat /\ OAuthInv /\ JwtInv' /\ authTime' = authTime
      /\ UNCHANGED <<active, changed, introspected>>
  BY JwtSame DEF AuthInv, AnswerIntrospection
<1>1. PICK c \in AskCall : c = asking[v]
  BY <1>0 DEF OAuthInv
<1>2. InTimeout(c) /\ c.token \in AccessTokens
  BY <1>0, <1>1 DEF OAuthInv, AnswerIntrospection
<1>3. CASE /\ asking' = [asking EXCEPT ![v].pc = "store", ![v].answer = asking[v].token \in active]
           /\ judged' = NoAnswer
  <2>1. PICK said \in BOOLEAN : said = (c.token \in active)
    <3>1. (c.token \in active) \in BOOLEAN
      OBVIOUS
    <3> QED
      BY <3>1, Zenon
  <2> DEFINE d == [c EXCEPT !.pc = "store", !.answer = said]
  <2>2. d \in AskCall /\ d.pc = "store" /\ d.token = c.token /\ d.began = c.began /\ d.answer = said
    BY DEF AskCall, Pcs
  <2>3. asking' = [asking EXCEPT ![v] = d]
    BY <1>1, <1>3, <2>1
  <2> HIDE DEF d
  <2>4. SaidOf(d.token, d.answer, d.began) /\ InTimeout(d)
    BY <1>2, <2>1, <2>2 DEF SaidOf, InTimeout
  <2>5. OAuthInv'
    BY <1>0, <1>2, <2>2, <2>3, <2>4, AskerStep DEF OAuthInv
  <2> QED
    BY <1>0, <1>3, <2>5, Undecided DEF AuthInv
<1>4. CASE asking' = [asking EXCEPT ![v] = IdleCall] /\ judged' = Judge("oauth", asking[v], "introspection failed")
  <2>1. OAuthInv'
    BY <1>0, <1>4, IdleCallOK, AskerStep DEF OAuthInv
  <2>2. PICK verdict : verdict = "introspection failed"
    OBVIOUS
  <2>3. judged' = Judge("oauth", c, verdict) /\ verdict # "accepted" /\ verdict # "inactive"
    BY <1>1, <1>4, <2>2
  <2>4. TokensCurrent'
    BY <2>3, OAuthJudged
  <2> QED
    BY <1>0, <2>1, <2>4 DEF AuthInv
<1> QED
  BY <1>3, <1>4 DEF AnswerIntrospection

\* cacheToken stores an answer no older than a fetch and judges by it.
LEMMA CacheStep ==
    ASSUME AuthInv, NEW v \in Verifiers, cacheToken(v)
    PROVE  AuthInv'
<1>0. authTime \in Nat /\ OAuthInv /\ JwtInv' /\ authTime' = authTime /\ UNCHANGED <<active, changed>>
  BY JwtSame DEF AuthInv, cacheToken
<1>1. PICK c \in AskCall : c = asking[v]
  BY <1>0 DEF OAuthInv
<1>2. /\ InTimeout(c) /\ c.token \in AccessTokens /\ c.began \in Nat
      /\ c.answer \in BOOLEAN /\ SaidOf(c.token, c.answer, c.began)
  BY <1>0, <1>1 DEF OAuthInv, cacheToken, AskCall
<1>3. PICK t \in AccessTokens, said \in BOOLEAN, b \in Nat : t = c.token /\ said = c.answer /\ b = c.began
  BY <1>2
<1>4. b <= authTime /\ authTime <= b + FetchTimeout /\ SaidOf(t, said, b)
  BY <1>2, <1>3 DEF InTimeout
<1>5. changed[t] \in Nat /\ TokenExpiry[t] \in Nat
  BY <1>0, AuthConstants DEF OAuthInv
<1>6. PICK ex \in Nat :
        /\ introspected' = [introspected EXCEPT ![t] = [active |-> said, expiresAt |-> ex]]
        /\ ex = TokenExpiry[t] \/ ex = authTime + IntrospectTTL
  <2>1. authTime + IntrospectTTL \in Nat
    BY <1>0, AuthConstants
  <2>2. PICK exp \in {0, TokenExpiry[t]} :
           introspected' = [introspected EXCEPT ![t] =
               [active |-> said, expiresAt |-> IF exp > 0 THEN exp ELSE authTime + IntrospectTTL]]
    <3>1. \E exp \in NamedExpiry(t, said) :
             introspected' = [introspected EXCEPT ![t] =
                 [active |-> said, expiresAt |-> IF exp > 0 THEN exp ELSE authTime + IntrospectTTL]]
      BY <1>1, <1>3, Zenon DEF cacheToken
    <3>2. NamedExpiry(t, said) \subseteq {0, TokenExpiry[t]}
      BY DEF NamedExpiry
    <3> QED
      BY <3>1, <3>2, Zenon
  <2>3. CASE exp > 0
    <3>1. exp \in Nat /\ exp = TokenExpiry[t]
      BY <1>5, <2>2, <2>3
    <3>2. introspected' = [introspected EXCEPT ![t] = [active |-> said, expiresAt |-> exp]]
      BY <2>2, <2>3, Zenon
    <3> QED
      BY <3>1, <3>2, Zenon
  <2>4. CASE ~(exp > 0)
    <3>1. introspected' = [introspected EXCEPT ![t] = [active |-> said, expiresAt |-> authTime + IntrospectTTL]]
      BY <2>2, <2>4, Zenon
    <3> QED
      BY <2>1, <3>1, Zenon
  <2> QED
    BY <2>3, <2>4
<1>7. PICK e \in TokenAnswer : e = [active |-> said, expiresAt |-> ex] /\ e.active = said /\ e.expiresAt = ex
  <2>1. [active |-> said, expiresAt |-> ex] \in TokenAnswer
    BY DEF TokenAnswer
  <2> QED
    BY <2>1
<1>8. introspected' = [introspected EXCEPT ![t] = e]
  BY <1>6, <1>7
<1>9. /\ introspected' \in [AccessTokens -> TokenAnswer \cup {NoAnswer}]
      /\ introspected'[t] = e /\ \A u \in AccessTokens \ {t} : introspected'[u] = introspected[u]
  BY <1>0, <1>8 DEF OAuthInv
<1>10. ASSUME ex = authTime + IntrospectTTL
       PROVE  ex <= authTime + IntrospectTTL /\ SaidOf(t, said, ex - IntrospectTTL - FetchTimeout)
  <2>1. changed[t] >= b => changed[t] >= ex - IntrospectTTL - FetchTimeout
    BY <1>0, <1>4, <1>5, <1>10, AuthConstants
  <2> QED
    BY <1>0, <1>4, <1>10, <2>1, AuthConstants DEF SaidOf
<1>11. ASSUME NEW u \in AccessTokens, introspected'[u] # NoAnswer
       PROVE  \/ introspected'[u].expiresAt = TokenExpiry[u]
              \/ /\ introspected'[u].expiresAt <= authTime + IntrospectTTL
                 /\ SaidOf(u, introspected'[u].active, introspected'[u].expiresAt - IntrospectTTL - FetchTimeout)
  <2>1. CASE u = t
    BY <1>6, <1>7, <1>9, <1>10, <2>1
  <2>2. CASE u # t
    BY <1>0, <1>9, <1>11, <2>2 DEF OAuthInv
  <2> QED
    BY <2>1, <2>2
<1>12. asking' = [asking EXCEPT ![v] = IdleCall]
  BY DEF cacheToken
<1>13. OAuthInv'
  BY <1>0, <1>9, <1>11, <1>12, IdleCallOK, AskerStep
<1>14. judged' = Judge("oauth", c, ActiveVerdict(said))
  BY <1>1, <1>3 DEF cacheToken
<1>15. changed[t] >= b => changed[t] >= authTime - IntrospectTTL - FetchTimeout
  BY <1>0, <1>4, <1>5, AuthConstants
<1>16. (said # (c.token \in active')) => changed'[c.token] >= authTime' - IntrospectTTL - FetchTimeout
  BY <1>0, <1>3, <1>4, <1>15 DEF SaidOf
<1>17. TokensCurrent'
  BY <1>14, <1>16, SaidVerdict
<1> QED
  BY <1>0, <1>13, <1>17 DEF AuthInv

\* A token granted or revoked now is so after everything that was answered before.
LEMMA RevokeStep ==
    ASSUME AuthInv, NEW t \in AccessTokens, Revoke(t)
    PROVE  AuthInv'
<1>0. /\ authTime \in Nat /\ OAuthInv /\ JwtInv' /\ authTime' = authTime /\ judged' = NoAnswer
      /\ UNCHANGED <<introspected, asking>> /\ changed' = [changed EXCEPT ![t] = authTime]
      /\ active' \subseteq AccessTokens /\ \A u \in AccessTokens \ {t} : (u \in active') = (u \in active)
  BY JwtSame DEF AuthInv, OAuthInv, Revoke
<1>1. /\ changed' \in [AccessTokens -> Nat] /\ changed'[t] = authTime
      /\ \A u \in AccessTokens \ {t} : changed'[u] = changed[u]
  BY <1>0 DEF OAuthInv
<1>2. ASSUME NEW u \in AccessTokens, NEW said \in BOOLEAN, NEW b \in Int, b <= authTime, SaidOf(u, said, b)
      PROVE  SaidOf(u, said, b)'
  <2>1. CASE u = t
    BY <1>0, <1>1, <1>2, <2>1 DEF SaidOf
  <2>2. CASE u # t
    BY <1>0, <1>1, <1>2, <2>2 DEF SaidOf
  <2> QED
    BY <2>1, <2>2
<1>3. ASSUME NEW u \in AccessTokens, introspected[u] # NoAnswer
      PROVE  \/ introspected[u].expiresAt = TokenExpiry[u]
             \/ /\ introspected[u].expiresAt <= authTime + IntrospectTTL
                /\ SaidOf(u, introspected[u].active, introspected[u].expiresAt - IntrospectTTL - FetchTimeout)'
  <2>1. PICK said \in BOOLEAN, ex \in Nat : said = introspected[u].active /\ ex = introspected[u].expiresAt
    BY <1>0, <1>3 DEF OAuthInv, TokenAnswer
  <2>2. ex = TokenExpiry[u] \/ (ex <= authTime + IntrospectTTL /\ SaidOf(u, said, ex - IntrospectTTL - FetchTimeout))
    BY <1>0, <1>3, <2>1 DEF OAuthInv
  <2>3. ASSUME ex <= authTime + IntrospectTTL, SaidOf(u, said, ex - IntrospectTTL - FetchTimeout)
        PROVE  SaidOf(u, said, ex - IntrospectTTL - FetchTimeout)'
    <3>1. PICK b \in Int : b = ex - IntrospectTTL - FetchTimeout /\ b <= authTime
      BY <1>0, <2>3, AuthConstants
    <3>2. SaidOf(u, said, b)'
      BY <1>2, <2>3, <3>1
    <3> QED
      BY <3>1, <3>2
  <2>4. introspected'[u] = introspected[u]
    BY <1>0
  <2> QED
    BY <2>1, <2>2, <2>3, <2>4 DEF SaidOf
<1>4. ASSUME NEW u \in Verifiers, asking[u].pc # "idle"
      PROVE  /\ InTimeout(asking[u])'
             /\ asking[u].pc = "store" => SaidOf(asking[u].token, asking[u].answer, asking[u].began)'
  <2>1. /\ InTimeout(asking[u]) /\ asking[u].token \in AccessTokens /\ asking[u].began \in Nat
        /\ asking[u].pc = "store" => asking[u].answer \in BOOLEAN /\ SaidOf(asking[u].token, asking[u].answer, asking[u].began)
    BY <1>0, <1>4 DEF OAuthInv, AskCall
  <2>2. InTimeout(asking[u])' /\ asking[u].began <= authTime
    BY <1>0, <2>1 DEF InTimeout
  <2>3. ASSUME asking[u].pc = "store" PROVE SaidOf(asking[u].token, asking[u].answer, asking[u].began)'
    <3>1. PICK w \in AccessTokens, said \in BOOLEAN, b \in Int :
            w = asking[u].token /\ said = asking[u].answer /\ b = asking[u].began
      BY <2>1, <2>3
    <3>2. SaidOf(w, said, b)'
      BY <1>2, <2>1, <2>2, <2>3, <3>1
    <3> QED
      BY <1>0, <3>1, <3>2 DEF SaidOf
  <2> QED
    BY <2>2, <2>3
<1>5. OAuthInv'
  BY <1>0, <1>1, <1>3, <1>4 DEF OAuthInv
<1> QED
  BY <1>0, <1>5, Undecided DEF AuthInv

\* Time passes only within the timeout of the calls in progress.
LEMMA AuthTickStep == AuthInv /\ AuthTick => AuthInv'
<1> SUFFICES ASSUME AuthInv, AuthTick PROVE AuthInv'
  OBVIOUS
<1>0. /\ authTime \in Nat /\ JwtInv /\ OAuthInv /\ authTime' = authTime + 1 /\ judged' = NoAnswer
      /\ UNCHANGED jwtVars /\ UNCHANGED oauthVars
  BY DEF AuthInv, AuthTick
<1>1. ASSUME NEW u \in Verifiers, NEW call \in {verifying[u], asking[u]}, call.pc # "idle", call.began \in Nat
      PROVE  InTimeout(call) => call.began <= authTime' /\ authTime' <= call.began + FetchTimeout
  <2>1. authTime < call.began + FetchTimeout
    BY <1>1 DEF AuthTick
  <2> QED
    BY <1>0, <1>1, <2>1, AuthConstants DEF InTimeout
<1>2. JwtInv'
  <2>1. JwtTypeOK' /\ AsOf(jwks.keys, jwks.expiresAt - JwksTTL - FetchTimeout)'
    BY <1>0 DEF JwtInv, JwtTypeOK, AsOf, jwtVars
  <2>2. jwks'.expiresAt <= authTime' + JwksTTL
    <3>1. PICK ex \in Nat : ex = jwks.expiresAt /\ ex <= authTime + JwksTTL
      BY <1>0 DEF JwtInv, JwtTypeOK, KeyCache
    <3> QED
      BY <1>0, <3>1, AuthConstants DEF jwtVars
  <2>3. ASSUME NEW u \in Verifiers, verifying[u].pc # "idle" PROVE InTimeout(verifying[u])'
    <3>1. verifying[u].began \in Nat /\ InTimeout(verifying[u])
      BY <1>0, <2>3 DEF JwtInv, JwtTypeOK, VerifyCall
    <3> QED
      BY <1>0, <1>1, <2>3, <3>1 DEF InTimeout, jwtVars
  <2>4. ASSUME NEW keys, NEW b, AsOf(keys, b) PROVE AsOf(keys, b)'
    BY <1>0, <2>4 DEF AsOf, jwtVars
  <2>5. \A u \in Verifiers : verifying[u].pc = "install" => AsOf(verifying[u].answer, verifying[u].began)'
    BY <1>0 DEF JwtInv, AsOf, jwtVars
  <2> QED
    BY <1>0, <2>1, <2>2, <2>3, <2>5 DEF JwtInv, jwtVars
<1>3. OAuthInv'
  <2>1. ASSUME NEW u \in Verifiers, asking[u].pc # "idle" PROVE InTimeout(asking[u])'
    <3>1. asking[u].began \in Nat /\ InTimeout(asking[u])
      BY <1>0, <2>1 DEF OAuthInv, AskCall
    <3> QED
      BY <1>0, <1>1, <2>1, <3>1 DEF InTimeout, oauthVars
  <2>2. ASSUME NEW t \in AccessTokens, introspected[t] # NoAnswer
        PROVE  introspected[t].expiresAt <= authTime + IntrospectTTL => introspected[t].expiresAt <= authTime' + IntrospectTTL
    <3>1. introspected[t].expiresAt \in Nat
      BY <1>0, <2>2 DEF OAuthInv, TokenAnswer
    <3> QED
      BY <1>0, <3>1, AuthConstants
  <2> QED
    BY <1>0, <2>1, <2>2 DEF OAuthInv, SaidOf, oauthVars
<1> QED
  BY <1>0, <1>2, <1>3, Undecided DEF AuthInv

\* Every step of the two caches, their servers and the clock keeps the invariant.
LEMMA StepAuth == AuthInv /\ [JwtNext \/ OAuthNext]_authVars => AuthInv'
<1> SUFFICES ASSUME AuthInv, [JwtNext \/ OAuthNext]_authVars PROVE AuthInv'
  OBVIOUS
<1>1. CASE JwtNext
  BY <1>1, FetchStep, RefreshStep, GetKeyStep, ValidateStep, RotateStep, AuthTickStep DEF JwtNext
<1>2. CASE OAuthNext
  BY <1>2, AnswerStep, CacheStep, IntrospectStep, RevokeStep, AuthTickStep DEF OAuthNext
<1>3. CASE UNCHANGED authVars
  <2>1. JwtInv' /\ OAuthInv' /\ authTime' = authTime
    BY <1>3, JwtSame, OAuthSame DEF AuthInv, authVars
  <2>2. TokensCurrent'
    BY <1>3 DEF AuthInv, authVars, jwtVars, oauthVars, TokensCurrent, AcceptedTokenIsCurrent,
                UnknownKeyIsNew, IntrospectionIsCurrent, Says
  <2> QED
    BY <2>1, <2>2 DEF AuthInv
<1> QED
  BY <1>1, <1>2, <1>3

\* No cache of keys or answers makes a verdict older than its TTL and the fetches that
\* filled it, for any number of keys, tokens and goroutines.
THEOREM VerdictsCurrent == AuthSpec => []TokensCurrent
<1>1. AuthInv => TokensCurrent
  BY DEF AuthInv
<1> QED
  BY InitAuth, StepAuth, <1>1, PTL DEF AuthSpec

-----------------------------------------------------------------------------
(***************************************************************************)
(* The reputation cache, for any number of addresses and goroutines, any   *)
(* order of list changes, and any TTL of at least two ticks.               *)
(***************************************************************************)
Scoring == [pc : {"idle", "score", "store"}, host : Hosts \cup {NoScore}, seen : Nat, score : Nat]
CachedScore == [score : Nat, seen : Nat]

\* An entry that was listed before t, when a call took its LastSeen.
ListedBefore(l, h, t) == h \in lists[l] /\ listed[l][h] < t

\* The score knows every entry listed before t: that is what a call guarantees whose
\* LastSeen is t, however late it computes and stores, and since lists only grow and a
\* new entry is not older than t, it stays true.
Reflects(h, score, t) ==
    /\ ListedBefore("allow", h, t) => score = 0
    /\ ListedBefore("block", h, t) /\ h \notin lists["allow"] => score = 100
    /\ h \notin lists["allow"] /\ h \notin lists["block"] =>
           score >= Points(ListedBefore("tor", h, t), 60) + Points(ListedBefore("vpn", h, t), 40)
                    + Points(ListedBefore("proxy", h, t), 50) + Points(isDatacenterIP(h), 20)

RepTypeOK ==
    /\ lists \in [ListNames -> SUBSET Hosts]
    /\ listed \in [ListNames -> [Hosts -> Nat]]
    /\ scoreCache \in [Hosts -> CachedScore \cup {NoScore}]
    /\ scoring \in [Scorers -> Scoring]
    /\ repTime \in Nat

RepInv ==
    /\ RepTypeOK
    /\ \A s \in Scorers : scoring[s].pc # "idle" =>
           /\ scoring[s].host \in Hosts
           /\ scoring[s].seen <= repTime /\ repTime <= scoring[s].seen + 1
    /\ \A s \in Scorers : scoring[s].pc = "store" =>
           Reflects(scoring[s].host, scoring[s].score, scoring[s].seen)
    /\ \A h \in Hosts : scoreCache[h] # NoScore =>
           /\ scoreCache[h].seen <= repTime
           /\ Reflects(h, scoreCache[h].score, scoreCache[h].seen)
    /\ ScoreKnowsOldEntries

\* A score that knows what was listed before t may be returned until t + CacheTTL.
LEMMA ReflectsTold ==
    ASSUME RepTypeOK, NEW h \in Hosts, NEW score \in Nat, NEW t \in Nat, Reflects(h, score, t),
           repTime - t < CacheTTL
    PROVE  /\ Known("allow", h) => score = 0
           /\ Known("block", h) /\ h \notin lists["allow"] => score = 100
           /\ h \notin lists["allow"] /\ h \notin lists["block"] =>
                  score >= Points(Known("tor", h), 60) + Points(Known("vpn", h), 40)
                           + Points(Known("proxy", h), 50) + Points(isDatacenterIP(h), 20)
<1>1. ASSUME NEW l \in ListNames, Known(l, h) PROVE ListedBefore(l, h, t)
  <2>1. listed[l][h] \in Nat /\ repTime \in Nat /\ CacheTTL \in Nat
    BY ReputationAssumption DEF RepTypeOK
  <2> QED
    BY <1>1, <2>1 DEF Known, ListedBefore
<1>2. \A l \in {"allow", "block", "tor", "vpn", "proxy"} : l \in ListNames
  BY DEF ListNames
<1> QED
  BY <1>1, <1>2 DEF Reflects, Points

\* The score computed now knows all there is.
LEMMA ScoreReflects ==
    ASSUME RepTypeOK, NEW h \in Hosts, NEW t \in Nat
    PROVE  ScoreOf(h) \in Nat /\ Reflects(h, ScoreOf(h), t)
<1>1. ScoreOf(h) \in Nat
  BY DEF ScoreOf, isInRanges, isDatacenterIP, Points
<1>2. CASE h \in lists["allow"]
  BY <1>2 DEF ScoreOf, Reflects, ListedBefore, isInRanges
<1>3. CASE h \notin lists["allow"] /\ h \in lists["block"]
  BY <1>3 DEF ScoreOf, Reflects, ListedBefore, isInRanges, Points
<1>4. CASE h \notin lists["allow"] /\ h \notin lists["block"]
  BY <1>4 DEF ScoreOf, Reflects, ListedBefore, isInRanges, isDatacenterIP, Points
<1> QED
  BY <1>1, <1>2, <1>3, <1>4

\* A list that gets a new entry does not take away what a score knows.
LEMMA ReflectsStays ==
    ASSUME RepTypeOK, NEW l \in ListNames, NEW g \in Hosts, AddToList(l, g),
           NEW h \in Hosts, NEW score \in Nat, NEW t \in Nat, t <= repTime, Reflects(h, score, t)
    PROVE  Reflects(h, score, t)'
<1>1. \A m \in ListNames : lists[m] \subseteq lists'[m]
  BY DEF AddToList, RepTypeOK
<1>2. ASSUME NEW m \in ListNames, ListedBefore(m, h, t)' PROVE ListedBefore(m, h, t)
  BY <1>2 DEF AddToList, RepTypeOK, ListedBefore
<1>3. \A m \in {"allow", "block", "tor", "vpn", "proxy"} : m \in ListNames
  BY DEF ListNames
<1> QED
  BY <1>1, <1>2, <1>3 DEF Reflects, Points

\* Nothing is cached yet.
LEMMA InitRep == RepInit => RepInv
<1> SUFFICES ASSUME RepInit PROVE RepInv
  OBVIOUS
<1>1. IdleScorer \in Scoring /\ IdleScorer.pc = "idle"
  BY DEF IdleScorer, Scoring
<1> QED
  BY <1>1 DEF RepInit, RepInv, RepTypeOK, ScoreKnowsOldEntries

\* Only what a step changes needs an argument.
LEMMA SameLists ==
    ASSUME UNCHANGED <<lists, listed>>, NEW h, NEW score, NEW t, Reflects(h, score, t)
    PROVE  Reflects(h, score, t)'
BY DEF Reflects, ListedBefore

\* List changes, look-ups, computations and late stores keep every score at least as
\* knowing as its LastSeen says.
LEMMA StepRep == RepInv /\ [RepNext]_repVars => RepInv'
<1> SUFFICES ASSUME RepInv, [RepNext]_repVars PROVE RepInv'
  OBVIOUS
<1> USE DEF RepInv
<1>1. ASSUME NEW s \in Scorers, NEW h \in Hosts, LookUp(s, h) PROVE RepInv'
  <2>0. UNCHANGED <<lists, listed, scoreCache, repTime>>
    BY <1>1 DEF LookUp
  <2>1. CASE Cached(h)
    <3>1. PICK c \in CachedScore : c = scoreCache[h] /\ c.score \in Nat /\ c.seen \in Nat
      BY <2>1 DEF Cached, RepTypeOK, CachedScore
    <3>2. told' = Told(h, c.score) /\ UNCHANGED scoring
      BY <1>1, <2>1, <3>1 DEF LookUp
    <3>3. Reflects(h, c.score, c.seen) /\ repTime - c.seen < CacheTTL
      BY <2>1, <3>1 DEF Cached
    <3>4. ScoreKnowsOldEntries'
      <4>1. told'.host = h /\ told'.score = c.score
        BY <3>2 DEF Told
      <4> QED
        BY <2>0, <3>1, <3>3, <4>1, ReflectsTold DEF ScoreKnowsOldEntries, Known
    <3> QED
      BY <2>0, <3>2, <3>4, SameLists DEF RepTypeOK
  <2>2. CASE ~Cached(h) /\ h \in Unparsable
    <3>1. told' = Told(h, 0) /\ UNCHANGED scoring
      BY <1>1, <2>2 DEF LookUp
    <3>2. told'.host = h
      BY <3>1 DEF Told
    <3> QED
      BY <2>0, <2>2, <3>1, <3>2, SameLists DEF RepTypeOK, ScoreKnowsOldEntries
  <2>3. CASE ~Cached(h) /\ h \notin Unparsable
    <3> DEFINE c == [pc |-> "score", host |-> h, seen |-> repTime, score |-> 0]
    <3>1. scoring' = [scoring EXCEPT ![s] = c] /\ told' = NoScore
      BY <1>1, <2>3 DEF LookUp
    <3>2. c \in Scoring /\ c.pc = "score" /\ c.host = h /\ c.seen = repTime
      BY DEF Scoring, RepTypeOK
    <3> HIDE DEF c
    <3>3. RepTypeOK'
      BY <2>0, <3>1, <3>2 DEF RepTypeOK
    <3>4. ASSUME NEW d \in Scorers
          PROVE  scoring'[d] = c \/ scoring'[d] = scoring[d]
      BY <3>1 DEF RepTypeOK
    <3>5. repTime \in Nat
      BY DEF RepTypeOK
    <3> QED
      BY <2>0, <3>1, <3>2, <3>3, <3>4, <3>5, SameLists DEF ScoreKnowsOldEntries
  <2> QED
    BY <2>1, <2>2, <2>3
<1>2. ASSUME NEW s \in Scorers, Compute(s) PROVE RepInv'
  <2>1. PICK c \in Scoring, h \in Hosts, t \in Nat, n \in Nat :
           c = scoring[s] /\ h = c.host /\ t = c.seen /\ n = ScoreOf(h)
    <3>1. scoring[s] \in Scoring /\ scoring[s].host \in Hosts /\ scoring[s].seen \in Nat
      BY <1>2 DEF Compute, RepTypeOK, Scoring
    <3> QED
      BY <3>1, ScoreReflects
  <2> DEFINE d == [c EXCEPT !.pc = "store", !.score = n]
  <2>2. scoring' = [scoring EXCEPT ![s] = d] /\ told' = NoScore /\ UNCHANGED <<lists, listed, scoreCache, repTime>>
    BY <1>2, <2>1 DEF Compute, RepTypeOK
  <2>3. d \in Scoring /\ d.pc = "store" /\ d.host = c.host /\ d.seen = c.seen /\ d.score = n
    BY DEF Scoring
  <2> HIDE DEF d
  <2>4. Reflects(h, n, t)
    BY <2>1, ScoreReflects
  <2>5. RepTypeOK'
    BY <2>2, <2>3 DEF RepTypeOK
  <2>6. ASSUME NEW v \in Scorers PROVE scoring'[v] = scoring[v] \/ (v = s /\ scoring'[v] = d)
    BY <2>2 DEF RepTypeOK
  <2>7. /\ c.seen <= repTime /\ repTime <= c.seen + 1
    BY <1>2, <2>1 DEF Compute
  <2> QED
    <3>1. Reflects(h, n, t)'
      BY <2>2, <2>4, SameLists
    <3>2. \A v \in Scorers : scoring'[v].pc # "idle" =>
              /\ scoring'[v].host \in Hosts
              /\ scoring'[v].seen <= repTime' /\ repTime' <= scoring'[v].seen + 1
      BY <2>1, <2>2, <2>3, <2>6, <2>7
    <3>3. \A v \in Scorers : scoring'[v].pc = "store" =>
              Reflects(scoring[v].host, scoring[v].score, scoring[v].seen)'
      BY <2>1, <2>2, <2>3, <2>6, <3>1, SameLists
    <3>4. \A g \in Hosts : scoreCache[g] # NoScore =>
              /\ scoreCache[g].seen <= repTime
              /\ Reflects(g, scoreCache[g].score, scoreCache[g].seen)'
      BY <2>2, SameLists
    <3> QED
      BY <2>2, <2>5, <3>2, <3>3, <3>4 DEF ScoreKnowsOldEntries
<1>3. ASSUME NEW s \in Scorers, setCache(s) PROVE RepInv'
  <2>1. PICK c \in Scoring, h \in Hosts : c = scoring[s] /\ h = c.host /\ c.seen \in Nat /\ c.score \in Nat
    BY <1>3 DEF setCache, RepTypeOK, Scoring
  <2> DEFINE e == [score |-> c.score, seen |-> c.seen]
  <2>2. /\ scoreCache' = [scoreCache EXCEPT ![h] = e]
        /\ scoring' = [scoring EXCEPT ![s] = IdleScorer]
        /\ told' = Told(h, c.score) /\ UNCHANGED <<lists, listed, repTime>>
    BY <1>3, <2>1 DEF setCache
  <2>3. e \in CachedScore /\ e.score = c.score /\ e.seen = c.seen /\ IdleScorer \in Scoring /\ IdleScorer.pc = "idle"
    BY <2>1 DEF CachedScore, IdleScorer, Scoring
  <2> HIDE DEF e
  <2>4. /\ Reflects(h, c.score, c.seen) /\ c.seen <= repTime
        /\ repTime <= c.seen + 1
    BY <1>3, <2>1 DEF setCache
  <2>5. RepTypeOK'
    BY <2>2, <2>3 DEF RepTypeOK
  <2>6. ScoreKnowsOldEntries'
    <3>1. told'.host = h /\ told'.score = c.score
      BY <2>2 DEF Told
    <3>2. repTime - c.seen < CacheTTL
      BY <2>1, <2>4, ReputationAssumption DEF RepTypeOK
    <3> QED
      BY <2>1, <2>2, <2>4, <3>1, <3>2, ReflectsTold DEF ScoreKnowsOldEntries, Known
  <2>7. \A g \in Hosts : scoreCache'[g] = scoreCache[g] \/ (g = h /\ scoreCache'[g] = e)
    BY <2>2 DEF RepTypeOK
  <2>8. \A v \in Scorers : scoring'[v] = scoring[v] \/ scoring'[v] = IdleScorer
    BY <2>2 DEF RepTypeOK
  <2> QED
    <3>1. Reflects(h, c.score, c.seen)'
      BY <2>2, <2>4, SameLists
    <3>2. \A v \in Scorers : scoring'[v].pc # "idle" => scoring'[v] = scoring[v]
      BY <2>3, <2>8
    <3>3. \A v \in Scorers : scoring'[v].pc = "store" =>
              Reflects(scoring[v].host, scoring[v].score, scoring[v].seen)'
      BY <2>2, <3>2, SameLists
    <3>4. \A g \in Hosts : scoreCache'[g] # NoScore =>
              /\ scoreCache'[g].seen <= repTime'
              /\ Reflects(g, scoreCache[g].score, scoreCache[g].seen)'
      BY <2>2, <2>3, <2>4, <2>7, <3>1, SameLists
    <3> QED
      BY <2>2, <2>5, <2>6, <3>2, <3>3, <3>4
<1>4. ASSUME NEW l \in ListNames, NEW h \in Hosts, AddToList(l, h) PROVE RepInv'
  <2>1. told' = NoScore /\ UNCHANGED <<scoreCache, scoring, repTime>>
    BY <1>4 DEF AddToList
  <2>2. RepTypeOK'
    <3>1. lists' \in [ListNames -> SUBSET Hosts]
      BY <1>4 DEF AddToList, RepTypeOK
    <3>2. listed' \in [ListNames -> [Hosts -> Nat]]
      BY <1>4 DEF AddToList, RepTypeOK
    <3> QED
      BY <2>1, <3>1, <3>2 DEF RepTypeOK
  <2>3. ASSUME NEW s \in Scorers, scoring[s].pc = "store"
        PROVE  Reflects(scoring[s].host, scoring[s].score, scoring[s].seen)'
    <3>1. PICK g \in Hosts, n \in Nat, t \in Nat :
              g = scoring[s].host /\ n = scoring[s].score /\ t = scoring[s].seen
      BY <2>3 DEF RepTypeOK, Scoring
    <3>2. Reflects(g, n, t) /\ t <= repTime
      BY <2>3, <3>1
    <3>3. Reflects(g, n, t)'
      BY <1>4, <3>1, <3>2, ReflectsStays
    <3> QED
      BY <2>1, <3>1, <3>3
  <2>4. ASSUME NEW g \in Hosts, scoreCache[g] # NoScore
        PROVE  Reflects(g, scoreCache[g].score, scoreCache[g].seen)'
    <3>1. PICK n \in Nat, t \in Nat : n = scoreCache[g].score /\ t = scoreCache[g].seen
      BY <2>4 DEF RepTypeOK, CachedScore
    <3>2. Reflects(g, n, t) /\ t <= repTime
      BY <2>4, <3>1
    <3>3. Reflects(g, n, t)'
      BY <1>4, <3>1, <3>2, ReflectsStays
    <3> QED
      BY <2>1, <3>1, <3>3
  <2> QED
    BY <2>1, <2>2, <2>3, <2>4 DEF ScoreKnowsOldEntries
<1>5. CASE repCleanup
  <2>1. /\ told' = NoScore /\ UNCHANGED <<lists, listed, scoring, repTime>>
        /\ scoreCache' \in [Hosts -> CachedScore \cup {NoScore}]
        /\ \A h \in Hosts : scoreCache'[h] \in {NoScore, scoreCache[h]}
    BY <1>5 DEF repCleanup, RepTypeOK
  <2> QED
    BY <2>1, SameLists DEF RepTypeOK, ScoreKnowsOldEntries
<1>6. CASE RepTick
  <2>1. /\ told' = NoScore /\ UNCHANGED <<lists, listed, scoring, scoreCache>>
        /\ repTime' = repTime + 1 /\ repTime \in Nat
        /\ \A s \in Scorers : scoring[s].pc # "idle" => repTime = scoring[s].seen
    BY <1>6 DEF RepTick, RepTypeOK
  <2>2. \A h \in Hosts : scoreCache[h] # NoScore => scoreCache[h].seen \in Nat
    BY DEF RepTypeOK, CachedScore
  <2>3. RepTypeOK'
    BY <2>1 DEF RepTypeOK
  <2> QED
    BY <2>1, <2>2, <2>3, SameLists DEF ScoreKnowsOldEntries
<1>7. CASE UNCHANGED repVars
  BY <1>7, SameLists DEF repVars, RepTypeOK, ScoreKnowsOldEntries, Known
<1> QED
  BY <1>1, <1>2, <1>3, <1>4, <1>5, <1>6, <1>7 DEF RepNext

\* However calls, list changes and cleanups interleave, and whichever of two calls
\* stores last, no score returned ignores a list entry as old as the TTL.
THEOREM ScoresCurrent == RepSpec => []ScoreKnowsOldEntries
<1>1. RepInv => ScoreKnowsOldEntries
  BY DEF RepInv
<1> QED
  BY <1>1, InitRep, StepRep, PTL DEF RepSpec

-----------------------------------------------------------------------------
(***************************************************************************)
(* The breaker of MLClient, for any number of callers, retries and any     *)
(* threshold.                                                              *)
(***************************************************************************)
\* The breaker remembers the last trip, and it is closed only once the cooldown of
\* every trip is over; nothing but the clock moves a cooldown.
AdmissionInv ==
    /\ mlTime \in Nat /\ mlLastError \in 0 .. mlTime
    /\ mlOpen \in BOOLEAN
    /\ attempt \in [MLCallers -> Nat]
    /\ trips \subseteq Nat
    /\ \A t \in trips : t <= mlLastError
    /\ ~mlOpen => \A t \in trips : mlTime - t > Cooldown

\* NewClient starts with a closed breaker.
LEMMA InitAdmission == MLInit => AdmissionInv
<1> SUFFICES ASSUME MLInit PROVE AdmissionInv
  OBVIOUS
<1>1. mlTime \in Nat /\ mlLastError \in 0 .. mlTime /\ attempt \in [MLCallers -> Nat]
  BY DEF MLInit
<1>2. mlOpen = FALSE /\ trips = {}
  BY DEF MLInit
<1> QED
  BY <1>1, <1>2 DEF AdmissionInv

\* Inspect, its retries and both ways an attempt ends keep the invariant, and Inspect
\* admits a call only after every cooldown.
LEMMA StepAdmission ==
    ASSUME AdmissionInv, [MLNext]_mlVars
    PROVE  /\ AdmissionInv'
           /\ \A c \in MLCallers : attempt[c] = 0 /\ attempt'[c] # 0 =>
                 \A t \in trips : mlTime - t > Cooldown
<1> DEFINE Admits == \A c \in MLCallers : attempt[c] = 0 /\ attempt'[c] # 0 =>
                         \A t \in trips : mlTime - t > Cooldown
<1>0. /\ mlTime \in Nat /\ mlLastError \in 0 .. mlTime /\ Cooldown \in Nat /\ mlOpen \in BOOLEAN
      /\ attempt \in [MLCallers -> Nat]
      /\ \A t \in trips : t \in Nat /\ t <= mlLastError
      /\ ~mlOpen => \A t \in trips : mlTime - t > Cooldown
  BY MLAssumption DEF AdmissionInv
<1>1. ASSUME NEW c \in MLCallers, MLInspect(c) PROVE AdmissionInv' /\ Admits
  <2>1. /\ mlTime' = mlTime /\ mlLastError' = mlLastError /\ trips' = trips
    BY <1>1 DEF MLInspect
  <2>2. CASE /\ available /\ (mlOpen => Cooled) /\ mlOpen' = FALSE
             /\ attempt' = [attempt EXCEPT ![c] = 1]
    <3>1. \A t \in trips : mlTime - t > Cooldown
      BY <1>0, <2>2 DEF Cooled
    <3>2. attempt' \in [MLCallers -> Nat]
      BY <1>0, <2>2
    <3> QED
      BY <1>0, <2>1, <2>2, <3>1, <3>2 DEF AdmissionInv
  <2>3. CASE mlOpen' = mlOpen /\ attempt' = attempt
    BY <2>1, <2>3 DEF AdmissionInv
  <2> QED
    BY <1>1, <2>2, <2>3 DEF MLInspect
<1>2. ASSUME NEW c \in MLCallers, recordSuccess(c) PROVE AdmissionInv' /\ Admits
  <2>1. /\ mlTime' = mlTime /\ mlLastError' = mlLastError /\ trips' = trips /\ mlOpen' = mlOpen
        /\ attempt' = [attempt EXCEPT ![c] = 0]
    BY <1>2 DEF recordSuccess
  <2>2. /\ attempt' \in [MLCallers -> Nat]
        /\ \A d \in MLCallers : ~(attempt[d] = 0 /\ attempt'[d] # 0)
    BY <1>0, <2>1
  <2> QED
    BY <2>1, <2>2 DEF AdmissionInv
<1>3. ASSUME NEW c \in MLCallers, recordFailure(c) PROVE AdmissionInv' /\ Admits
  <2>1. /\ attempt' \in [MLCallers -> Nat]
        /\ \A d \in MLCallers : ~(attempt[d] = 0 /\ attempt'[d] # 0)
    <3>1. attempt[c] # 0 /\ \E n \in {0, attempt[c] + 1} : attempt' = [attempt EXCEPT ![c] = n]
      BY <1>3 DEF recordFailure
    <3> QED
      BY <1>0, <3>1
  <2>2. CASE mlFailures' >= Threshold
    <3>1. /\ mlTime' = mlTime /\ mlLastError' = mlTime /\ trips' = trips \cup {mlTime}
          /\ mlOpen' = TRUE
      BY <1>3, <2>2 DEF recordFailure
    <3> QED
      BY <1>0, <2>1, <3>1 DEF AdmissionInv
  <2>3. CASE ~(mlFailures' >= Threshold)
    <3>1. /\ mlTime' = mlTime /\ mlLastError' = mlLastError /\ trips' = trips /\ mlOpen' = mlOpen
      BY <1>0, <1>3, <2>3 DEF recordFailure
    <3> QED
      BY <2>1, <3>1 DEF AdmissionInv
  <2> QED
    BY <2>2, <2>3
<1>4. ASSUME NEW a \in BOOLEAN, SetAvailable(a) PROVE AdmissionInv' /\ Admits
  BY <1>4 DEF SetAvailable, AdmissionInv
<1>5. CASE MLTick
  BY <1>0, <1>5 DEF MLTick, AdmissionInv
<1>6. CASE UNCHANGED mlVars
  BY <1>6 DEF mlVars, AdmissionInv
<1> QED
  BY <1>1, <1>2, <1>3, <1>4, <1>5, <1>6 DEF MLNext

\* For any number of callers and retries and however they interleave with the opening of
\* the breaker and with late successes: after the failures reached the threshold no call
\* is admitted before the cooldown is over.
THEOREM OpenBreaker == MLSpec => CooldownKept
<1>1. AdmissionInv /\ [MLNext]_mlVars => AdmissionInv'
  BY StepAdmission
<1>2. AdmissionInv /\ [MLNext]_mlVars =>
        [\A c \in MLCallers : attempt[c] = 0 /\ attempt'[c] # 0 =>
             \A t \in trips : mlTime - t > Cooldown]_mlVars
  BY StepAdmission
<1> QED
  BY <1>1, <1>2, InitAdmission, PTL DEF MLSpec, CooldownKept
=============================================================================
