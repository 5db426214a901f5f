------------------------------ MODULE MLClient ------------------------------
(***************************************************************************)
(* internal/ml/client.go: the client of the ML service, with retries and a *)
(* circuit breaker.  Inspect asks the breaker once, before its first       *)
(* attempt; each failed attempt counts, and an attempt that succeeds       *)
(* clears the count but leaves an open breaker open.                       *)
(***************************************************************************)
EXTENDS Integers, FiniteSets

CONSTANTS MLCallers, MaxRetries, Threshold, Cooldown,
          FallbackMode, MaxMLTime

ASSUME MLAssumption ==
    /\ MaxRetries \in Nat /\ Threshold \in Nat \ {0} /\ Cooldown \in Nat /\ MaxMLTime \in Nat
    /\ FallbackMode \in {"block", "monitor", "allow"}

VARIABLES
    available,   \* c.available
    mlFailures, mlOpen, mlLastError, \* c.cbState
    attempt,     \* caller -> number of its attempt, or 0 when it is not in Inspect
    verdictML,   \* caller -> what Inspect returned last
    trips,       \* history: the times of the failures that found the threshold reached
    mlTime

mlVars == <<available, mlFailures, mlOpen, mlLastError, attempt, verdictML, trips, mlTime>>

\* NewClient
MLInit ==
    /\ available = TRUE
    /\ mlFailures = 0 /\ mlOpen = FALSE /\ mlLastError = 0
    /\ attempt = [c \in MLCallers |-> 0]
    /\ verdictML = [c \in MLCallers |-> "none"]
    /\ trips = {} /\ mlTime = 0

fallbackResult ==
    CASE FallbackMode = "block" -> "malicious" [] FallbackMode = "monitor" -> "suspicious"
      [] OTHER -> "clean"

Cooled == mlTime - mlLastError > Cooldown

\* Mutant: an open breaker lets a caller try, whenever that is.
MLInspectAnytime(c) ==
    /\ attempt[c] = 0 /\ available
    /\ attempt' = [attempt EXCEPT ![c] = 1]
    /\ verdictML' = [verdictML EXCEPT ![c] = "none"]
    /\ mlOpen' = FALSE
    /\ mlFailures' = IF mlOpen THEN 0 ELSE mlFailures
    /\ UNCHANGED <<available, mlLastError, trips, mlTime>>

\* Inspect, and isAvailable under both locks: after the cooldown the breaker
\* closes for everybody at once.
MLInspect(c) ==
    /\ attempt[c] = 0
    /\ \/ /\ ~available \/ (mlOpen /\ ~Cooled)
          /\ verdictML' = [verdictML EXCEPT ![c] = fallbackResult]
          /\ UNCHANGED <<mlFailures, mlOpen, attempt>>
       \/ /\ available /\ (mlOpen => Cooled)
          /\ attempt' = [attempt EXCEPT ![c] = 1]
          /\ verdictML' = [verdictML EXCEPT ![c] = "none"]
          /\ mlOpen' = FALSE
          /\ mlFailures' = IF mlOpen THEN 0 ELSE mlFailures
    /\ UNCHANGED <<available, mlLastError, trips, mlTime>>

\* what the service answers, when it answers
callInspect == {"malicious", "clean"}

\* Mutant: a success closes the breaker.
recordSuccessCloses(c) ==
    /\ attempt[c] # 0
    /\ mlFailures' = 0 /\ mlOpen' = FALSE
    /\ attempt' = [attempt EXCEPT ![c] = 0]
    /\ \E r \in callInspect : verdictML' = [verdictML EXCEPT ![c] = r]
    /\ UNCHANGED <<available, mlLastError, trips, mlTime>>

\* callInspect returns a result; recordSuccess
recordSuccess(c) ==
    /\ attempt[c] # 0
    /\ mlFailures' = 0
    /\ attempt' = [attempt EXCEPT ![c] = 0]
    /\ \E r \in callInspect : verdictML' = [verdictML EXCEPT ![c] = r]
    /\ UNCHANGED <<available, mlOpen, mlLastError, trips, mlTime>>

\* callInspect fails (time-out, status, body); recordFailure, then the next
\* attempt or the fallback
recordFailure(c) ==
    /\ attempt[c] # 0
    /\ mlFailures' = mlFailures + 1
    /\ mlOpen' = (mlOpen \/ mlFailures' >= Threshold)
    /\ mlLastError' = IF mlFailures' >= Threshold THEN mlTime ELSE mlLastError
    /\ IF attempt[c] <= MaxRetries
       THEN /\ attempt' = [attempt EXCEPT ![c] = @ + 1]
            /\ verdictML' = verdictML
       ELSE /\ attempt' = [attempt EXCEPT ![c] = 0]
            /\ verdictML' = [verdictML EXCEPT ![c] = fallbackResult]
    /\ trips' = IF mlFailures' >= Threshold THEN trips \cup {mlTime} ELSE trips
    /\ UNCHANGED <<available, mlTime>>

SetAvailable(a) ==
    /\ a # available
    /\ available' = a
    /\ UNCHANGED <<mlFailures, mlOpen, mlLastError, attempt, verdictML, trips, mlTime>>

MLTick ==
    /\ mlTime < MaxMLTime
    /\ mlTime' = mlTime + 1
    /\ UNCHANGED <<available, mlFailures, mlOpen, mlLastError, attempt, verdictML, trips>>

MLNext ==
    \/ \E c \in MLCallers : MLInspect(c) \/ recordSuccess(c) \/ recordFailure(c)
    \/ \E a \in BOOLEAN : SetAvailable(a)
    \/ MLTick

MLSpec == MLInit /\ [][MLNext]_mlVars

-----------------------------------------------------------------------------
\* Once the failures have reached the threshold, no call is admitted until more than
\* the cooldown has passed since the last of them, whatever the calls that were admitted
\* before do meanwhile: their retries prolong the wait, and one that succeeds, or that
\* fails after the count was cleared, does not end it.
CooldownKept ==
    [][\A c \in MLCallers : attempt[c] = 0 /\ attempt'[c] # 0 =>
           \A t \in trips : mlTime - t > Cooldown]_mlVars
=============================================================================
