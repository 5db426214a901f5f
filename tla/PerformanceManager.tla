------------------------- MODULE PerformanceManager -------------------------
(***************************************************************************)
(* internal/engine/performance.go: the isolation layer the engine puts     *)
(* around every inspector.  A call of PerformanceManager.Inspect asks the  *)
(* inspector's circuit breaker, takes a worker slot, starts a goroutine    *)
(* that runs the inspector, and waits for its decision, its error or a     *)
(* timeout, whichever select picks.  After a timeout the goroutine lives   *)
(* on: it may finish, fail or panic while later calls run.                 *)
(*                                                                         *)
(* A call is an element of Calls; it is used again once its goroutine has  *)
(* ended.  Time is the age of the two timestamps a breaker keeps, which    *)
(* the code only compares with recoveryTime: ages stop at Recovery + 1,    *)
(* which also stands for the zero time.Time.                               *)
(***************************************************************************)
EXTENDS Integers, FiniteSets

CONSTANTS Calls,        \* calls of Inspect that may be alive at once
          Inspectors,   \* inspector names, the keys of circuitBreakers
          MaxWorkers,   \* maxWorkers, GOMAXPROCS * 4 in the code
          Threshold,    \* CircuitBreaker.threshold, 5 in the code
          Recovery      \* CircuitBreaker.recoveryTime, in ticks

ASSUME CallsAssumption == IsFiniteSet(Calls)
ASSUME BoundsAssumption == /\ MaxWorkers \in Nat \ {0}
                           /\ Threshold \in Nat \ {0}
                           /\ Recovery \in Nat \ {0}

VARIABLES
    breaker,        \* circuitBreakers: one record per inspector
    activeWorkers,  \* the atomic counter
    pc,             \* where each call is
    target,         \* the inspector each call runs
    goroutine,      \* where the goroutine of each call is
    ch,             \* decCh and errCh of each call, one buffer slot in use
    probes          \* history: admissions that CircuitBreaker.halfOpen let
                    \* through while its last trip was still recent

vars == <<breaker, activeWorkers, pc, target, goroutine, ch, probes>>

Ages == 0 .. Recovery + 1

\* The struct CircuitBreaker; exists is the presence of the map entry.
CircuitBreaker ==
    [exists : BOOLEAN, failures : Nat, halfOpen : BOOLEAN,
     sinceTrip : Ages, sinceHalfOpen : Ages]

NoBreaker ==
    [exists |-> FALSE, failures |-> 0, halfOpen |-> FALSE,
     sinceTrip |-> Recovery + 1, sinceHalfOpen |-> Recovery + 1]

PCs == {"idle", "admitted", "added", "memory", "reject",
        "select", "success", "failure"}
Goroutines == {"none", "running", "decision", "error", "panic", "recovering"}

\* The calls whose increment of activeWorkers has not been undone.
Counted == {c \in Calls : pc[c] \in {"added", "memory", "reject", "select"}}

\* The calls that passed the limit check and still hold their slot.
Holders == {c \in Calls : pc[c] \in {"memory", "select"}}

Init ==
    /\ breaker = [i \in Inspectors |-> NoBreaker]
    /\ activeWorkers = 0
    /\ pc = [c \in Calls |-> "idle"]
    /\ target \in [Calls -> Inspectors]
    /\ goroutine = [c \in Calls |-> "none"]
    /\ ch = [c \in Calls |-> "empty"]
    /\ probes = [i \in Inspectors |-> 0]

-----------------------------------------------------------------------------
(* canProceed                                                              *)

\* The first test: a half-open breaker whose probe period is over.
ProbeOver(b) == b.halfOpen /\ b.sinceHalfOpen > Recovery

\* The second test: the last trip is more than recoveryTime ago.
TripOver(b) == b.sinceTrip > Recovery

\* Mutant: only a half-open breaker is ever given another chance.
canProceedHalfOpenOnly(b) == ~b.exists \/ ProbeOver(b)

\* canProceed closes a half-open breaker whose period is over; otherwise it
\* (re)enters half-open when the last trip is old enough; otherwise it refuses.
canProceed(b) == ~b.exists \/ ProbeOver(b) \/ TripOver(b)

\* Mutant: the breaker stays half-open when its failures are reset.
AfterProceedStaysHalfOpen(b) ==
    CASE ~b.exists     -> b
      [] b.exists /\ ProbeOver(b) -> [b EXCEPT !.failures = 0]
      [] OTHER         -> [b EXCEPT !.halfOpen = TRUE, !.sinceHalfOpen = 0]

AfterProceed(b) ==
    CASE ~b.exists     -> b
      [] b.exists /\ ProbeOver(b)
                       -> [b EXCEPT !.halfOpen = FALSE, !.failures = 0]
      [] OTHER         -> [b EXCEPT !.halfOpen = TRUE, !.sinceHalfOpen = 0]

Probes(i) ==
    LET b == breaker[i]
    IN  IF b.exists /\ ProbeOver(b)
        THEN IF TripOver(b) THEN probes[i] ELSE probes[i] + 1
        ELSE IF b.exists THEN 0 ELSE probes[i]

\* Inspect, canProceed true.
Admit(c, i) ==
    /\ pc[c] = "idle" /\ goroutine[c] = "none"
    /\ canProceed(breaker[i])
    /\ breaker' = [breaker EXCEPT ![i] = AfterProceed(@)]
    /\ probes' = [probes EXCEPT ![i] = Probes(i)]
    /\ target' = [target EXCEPT ![c] = i]
    /\ pc' = [pc EXCEPT ![c] = "admitted"]
    /\ ch' = [ch EXCEPT ![c] = "empty"]
    /\ UNCHANGED <<activeWorkers, goroutine>>

\* Inspect, canProceed false: PERF_001 is returned and nothing changes.
Refuse(c, i) ==
    /\ pc[c] = "idle" /\ goroutine[c] = "none"
    /\ ~canProceed(breaker[i])
    /\ UNCHANGED vars

-----------------------------------------------------------------------------
(* The worker slot                                                         *)

AddWorker(c) ==
    /\ pc[c] = "admitted"
    /\ activeWorkers' = activeWorkers + 1
    /\ pc' = [pc EXCEPT ![c] = "added"]
    /\ UNCHANGED <<breaker, target, goroutine, ch, probes>>

\* The load is a separate atomic operation: other calls may run in between.
LoadWorkers(c) ==
    /\ pc[c] = "added"
    /\ pc' = [pc EXCEPT ![c] =
                IF activeWorkers > MaxWorkers THEN "reject" ELSE "memory"]
    /\ UNCHANGED <<breaker, activeWorkers, target, goroutine, ch, probes>>

\* PERF_003: Alloc above memoryLimit.
MemoryLimit(c) ==
    /\ pc[c] = "memory"
    /\ pc' = [pc EXCEPT ![c] = "reject"]
    /\ UNCHANGED <<breaker, activeWorkers, target, goroutine, ch, probes>>

\* Mutant: the early return forgets the decrement.
RejectKeepsSlot(c) ==
    /\ pc[c] = "reject"
    /\ pc' = [pc EXCEPT ![c] = "idle"]
    /\ UNCHANGED <<breaker, activeWorkers, target, goroutine, ch, probes>>

\* PERF_002 and PERF_003 give the slot back and return.
Reject(c) ==
    /\ pc[c] = "reject"
    /\ activeWorkers' = activeWorkers - 1
    /\ pc' = [pc EXCEPT ![c] = "idle"]
    /\ UNCHANGED <<breaker, target, goroutine, ch, probes>>

-----------------------------------------------------------------------------
(* The goroutine                                                           *)

StartGoroutine(c) ==
    /\ pc[c] = "memory"
    /\ pc' = [pc EXCEPT ![c] = "select"]
    /\ goroutine' = [goroutine EXCEPT ![c] = "running"]
    /\ UNCHANGED <<breaker, activeWorkers, target, ch, probes>>

\* The inspector returns a decision, returns an error, or panics.
RunInspector(c) ==
    /\ goroutine[c] = "running"
    /\ \E outcome \in {"decision", "error", "panic"} :
          goroutine' = [goroutine EXCEPT ![c] = outcome]
    /\ UNCHANGED <<breaker, activeWorkers, pc, target, ch, probes>>

\* Mutant: the channels have no buffer, a send waits for the select.
SendUnbuffered(c) ==
    /\ goroutine[c] \in {"decision", "error", "panic"}
    /\ ch[c] = "empty" /\ pc[c] = "select"
    /\ ch' = [ch EXCEPT ![c] =
                IF goroutine[c] = "decision" THEN "decision" ELSE "error"]
    /\ goroutine' = [goroutine EXCEPT ![c] =
                IF goroutine[c] = "panic" THEN "recovering" ELSE "none"]
    /\ UNCHANGED <<breaker, activeWorkers, pc, target, probes>>

\* The send on decCh or errCh.  The buffer has one slot, so the send does not
\* wait for a receiver.  A panic is sent by the deferred function, which then
\* records the failure.
Send(c) ==
    /\ goroutine[c] \in {"decision", "error", "panic"}
    /\ ch[c] = "empty"
    /\ ch' = [ch EXCEPT ![c] =
                IF goroutine[c] = "decision" THEN "decision" ELSE "error"]
    /\ goroutine' = [goroutine EXCEPT ![c] =
                IF goroutine[c] = "panic" THEN "recovering" ELSE "none"]
    /\ UNCHANGED <<breaker, activeWorkers, pc, target, probes>>

-----------------------------------------------------------------------------
(* recordFailure and recordSuccess                                         *)

\* The look-up that creates the breaker and the update under its own mutex
\* are one step: a canProceed between them would see a breaker without a
\* failure and leave the same state as one that ran first.
recordFailure(b) ==
    LET f == b.failures + 1
    IN  [b EXCEPT !.exists = TRUE, !.failures = f,
                  !.sinceTrip = IF f >= Threshold THEN 0 ELSE @]

\* Mutant: the counter is decremented without the test for zero.
recordSuccessUnguarded(b) ==
    IF b.exists THEN [b EXCEPT !.failures = @ - 1] ELSE b

recordSuccess(b) ==
    IF b.exists /\ b.failures > 0 THEN [b EXCEPT !.failures = @ - 1] ELSE b

\* The deferred function's own recordFailure.  The receiver of the error
\* records the same panic a second time.
RecoverFailure(c) ==
    /\ goroutine[c] = "recovering"
    /\ breaker' = [breaker EXCEPT ![target[c]] = recordFailure(@)]
    /\ goroutine' = [goroutine EXCEPT ![c] = "none"]
    /\ UNCHANGED <<activeWorkers, pc, target, ch, probes>>

-----------------------------------------------------------------------------
(* The select of Inspect                                                   *)

\* case dec := <-decCh and case err := <-errCh.
Receive(c) ==
    /\ pc[c] = "select" /\ ch[c] # "empty"
    /\ activeWorkers' = activeWorkers - 1
    /\ pc' = [pc EXCEPT ![c] =
                IF ch[c] = "decision" THEN "success" ELSE "failure"]
    /\ ch' = [ch EXCEPT ![c] = "empty"]
    /\ UNCHANGED <<breaker, target, goroutine, probes>>

\* Mutant: the deadline is only looked at once the inspector has returned.
TimeoutAfterReturn(c) ==
    /\ pc[c] = "select" /\ goroutine[c] # "running"
    /\ activeWorkers' = activeWorkers - 1
    /\ pc' = [pc EXCEPT ![c] = "failure"]
    /\ UNCHANGED <<breaker, target, goroutine, ch, probes>>

\* Mutant: the slot is returned by the timeout and again on behalf of the
\* abandoned goroutine.
TimeoutReturnsTwice(c) ==
    /\ pc[c] = "select"
    /\ activeWorkers' = activeWorkers - 2
    /\ pc' = [pc EXCEPT ![c] = "failure"]
    /\ UNCHANGED <<breaker, target, goroutine, ch, probes>>

\* case <-time.After(timeout): the goroutine is abandoned, not stopped.
Timeout(c) ==
    /\ pc[c] = "select"
    /\ activeWorkers' = activeWorkers - 1
    /\ pc' = [pc EXCEPT ![c] = "failure"]
    /\ UNCHANGED <<breaker, target, goroutine, ch, probes>>

\* recordSuccess or recordFailure, then return.
Record(c) ==
    /\ pc[c] \in {"success", "failure"}
    /\ breaker' = [breaker EXCEPT ![target[c]] =
                     IF pc[c] = "success" THEN recordSuccess(@)
                                          ELSE recordFailure(@)]
    /\ pc' = [pc EXCEPT ![c] = "idle"]
    /\ UNCHANGED <<activeWorkers, target, goroutine, ch, probes>>

-----------------------------------------------------------------------------
(* Time                                                                    *)

Older(age) == IF age > Recovery THEN age ELSE age + 1

\* One tick of the wall clock.
Tick ==
    /\ \E i \in Inspectors : \/ breaker[i].sinceTrip <= Recovery
                             \/ breaker[i].sinceHalfOpen <= Recovery
    /\ breaker' = [i \in Inspectors |->
                     [breaker[i] EXCEPT !.sinceTrip = Older(@),
                                        !.sinceHalfOpen = Older(@)]]
    /\ UNCHANGED <<activeWorkers, pc, target, goroutine, ch, probes>>

CallStep(c) ==
    \/ AddWorker(c)
    \/ LoadWorkers(c)
    \/ MemoryLimit(c)
    \/ Reject(c)
    \/ StartGoroutine(c)
    \/ Receive(c)
    \/ Timeout(c)
    \/ Record(c)

GoroutineStep(c) == RunInspector(c) \/ Send(c) \/ RecoverFailure(c)

Next ==
    \/ \E c \in Calls : \/ \E i \in Inspectors : Admit(c, i) \/ Refuse(c, i)
                        \/ CallStep(c)
                        \/ GoroutineStep(c)
    \/ Tick

Spec == Init /\ [][Next]_vars

\* A started call is run by the Go scheduler and its timer fires; the clock
\* advances; a goroutine whose inspector has returned is scheduled.  Nothing
\* makes an inspector return, and nothing makes a client call again.
Fairness ==
    /\ \A c \in Calls : /\ WF_vars(CallStep(c))
                        /\ WF_vars(Send(c))
                        /\ WF_vars(RecoverFailure(c))
    /\ WF_vars(Tick)

FairSpec == Spec /\ Fairness

-----------------------------------------------------------------------------
(* Properties                                                              *)

\* Every variable has its type.
TypeOK ==
    /\ breaker \in [Inspectors -> CircuitBreaker]
    /\ activeWorkers \in Int
    /\ pc \in [Calls -> PCs]
    /\ target \in [Calls -> Inspectors]
    /\ goroutine \in [Calls -> Goroutines]
    /\ ch \in [Calls -> {"empty", "decision", "error"}]
    /\ probes \in [Inspectors -> Nat]

\* activeWorkers counts exactly the calls between their increment and their
\* decrement: no early return (PERF_002, PERF_003), error or timeout leaks a
\* slot or returns one twice.
WorkerAccounting == activeWorkers = Cardinality(Counted)

\* At most MaxWorkers calls are past the limit check at once, although the
\* increment and the load of activeWorkers are separate atomic operations.
SlotsBounded == Cardinality(Holders) <= MaxWorkers

\* After a trip the breaker lets at most one call through before recoveryTime
\* has passed: the half-open period may end earlier than the trip's (the
\* probe that tripped it started before), and that reset admits one call.
OpenCircuitAdmitsAtMostOne == \A i \in Inspectors : probes[i] <= 1

\* Every call of Inspect returns, even if its inspector hangs for ever.
CallReturns == \A c \in Calls : pc[c] # "idle" ~> pc[c] = "idle"

\* A goroutine whose inspector has returned ends, also when its call has
\* timed out and nobody receives any more.
GoroutineEnds ==
    \A c \in Calls :
        goroutine[c] \in {"decision", "error", "panic", "recovering"}
            ~> goroutine[c] = "none"

\* Nothing that Inspect starts stays behind: the call returns and its goroutine ends.
CallEnds == CallReturns /\ GoroutineEnds

\* A breaker that refuses calls lets calls through again after a while.
CircuitReadmits ==
    \A i \in Inspectors : ~canProceed(breaker[i]) ~> canProceed(breaker[i])

\* The layer implements the bulkhead it stands for.
B == INSTANCE Bulkhead WITH holders <- Holders
BulkheadSpec == B!BSpec
=============================================================================
