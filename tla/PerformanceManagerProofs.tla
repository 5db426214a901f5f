---------------------- MODULE PerformanceManagerProofs ----------------------
(***************************************************************************)
(* Theorems about PerformanceManager for every set of calls and inspectors *)
(* and every value of MaxWorkers, Threshold and Recovery.                  *)
(***************************************************************************)
EXTENDS PerformanceManager, FiniteSetTheorems, TLAPS

\* Only the primed pc and the counter matter for the accounting of slots.
LEMMA CountedIn ==
    ASSUME TypeOK, NEW c \in Calls, NEW x \in PCs,
           pc' = [pc EXCEPT ![c] = x]
    PROVE  /\ x \in {"added", "memory", "reject", "select"}
                => Counted' = Counted \cup {c}
           /\ x \notin {"added", "memory", "reject", "select"}
                => Counted' = Counted \ {c}
           /\ x \in {"memory", "select"} => Holders' = Holders \cup {c}
           /\ x \notin {"memory", "select"} => Holders' = Holders \ {c}
BY DEF TypeOK, Counted, Holders

\* The sets of calls that are counted are finite, and the holders are among
\* the counted calls.
LEMMA CountedFinite ==
    /\ IsFiniteSet(Counted) /\ Cardinality(Counted) \in Nat
    /\ IsFiniteSet(Holders) /\ Cardinality(Holders) \in Nat
    /\ Holders \subseteq Counted
    /\ Cardinality(Holders) <= Cardinality(Counted)
<1>1. IsFiniteSet(Counted)
  <2>1. Counted \subseteq Calls
    BY DEF Counted
  <2> QED
    BY <2>1, CallsAssumption, FS_Subset
<1>2. Holders \subseteq Counted
  BY DEF Holders, Counted
<1>3. IsFiniteSet(Holders) /\ Cardinality(Holders) <= Cardinality(Counted)
  BY <1>1, <1>2, FS_Subset
<1> QED
  BY <1>1, <1>2, <1>3, FS_CardinalityType

-----------------------------------------------------------------------------
(* Type correctness                                                        *)

\* The breaker operations map breakers to breakers; recordSuccess never
\* makes the failure count negative.
LEMMA BreakerTypes ==
    ASSUME NEW b \in CircuitBreaker
    PROVE  /\ AfterProceed(b) \in CircuitBreaker
           /\ recordFailure(b) \in CircuitBreaker
           /\ recordSuccess(b) \in CircuitBreaker
<1>0. 0 \in Ages
  BY BoundsAssumption DEF Ages
<1>1. AfterProceed(b) \in CircuitBreaker
  <2>1. CASE ~b.exists
    BY <2>1 DEF AfterProceed
  <2>2. CASE b.exists /\ ProbeOver(b)
    BY <2>2 DEF AfterProceed, CircuitBreaker
  <2>3. CASE b.exists /\ ~ProbeOver(b)
    <3>1. AfterProceed(b) = [b EXCEPT !.halfOpen = TRUE, !.sinceHalfOpen = 0]
      BY <2>3 DEF AfterProceed
    <3> QED
      BY <1>0, <3>1 DEF CircuitBreaker
  <2> QED
    BY <2>1, <2>2, <2>3
<1>2. recordFailure(b) \in CircuitBreaker
  <2> DEFINE age == IF b.failures + 1 >= Threshold THEN 0 ELSE b.sinceTrip
  <2>1. b.failures + 1 \in Nat /\ age \in Ages
    BY <1>0 DEF CircuitBreaker
  <2>2. recordFailure(b) = [b EXCEPT !.exists = TRUE,
                                     !.failures = b.failures + 1,
                                     !.sinceTrip = age]
    BY DEF recordFailure
  <2> HIDE DEF age
  <2> QED
    BY <2>1, <2>2 DEF CircuitBreaker
<1>3. recordSuccess(b) \in CircuitBreaker
  BY DEF recordSuccess, CircuitBreaker
<1> QED
  BY <1>1, <1>2, <1>3

\* NewPerformanceManager builds well-typed state.
LEMMA InitType == Init => TypeOK
BY BoundsAssumption
DEF Init, TypeOK, NoBreaker, CircuitBreaker, Ages, PCs, Goroutines

\* Every step of Inspect, its goroutine and the clock keeps the types.
LEMMA StepType == TypeOK /\ [Next]_vars => TypeOK'
<1> SUFFICES ASSUME TypeOK, [Next]_vars PROVE TypeOK'
  OBVIOUS
<1> USE DEF TypeOK
<1>1. ASSUME NEW c \in Calls, NEW i \in Inspectors, Admit(c, i)
      PROVE  TypeOK'
  <2>1. AfterProceed(breaker[i]) \in CircuitBreaker
    BY BreakerTypes
  <2>2. Probes(i) \in Nat
    BY DEF Probes
  <2> QED
    BY <1>1, <2>1, <2>2 DEF Admit, PCs
<1>2. ASSUME NEW c \in Calls, CallStep(c)
      PROVE  TypeOK'
  <2>1. recordFailure(breaker[target[c]]) \in CircuitBreaker
    BY BreakerTypes
  <2>2. recordSuccess(breaker[target[c]]) \in CircuitBreaker
    BY BreakerTypes
  <2>3. CASE AddWorker(c)
    BY <2>3 DEF AddWorker, PCs
  <2>4. CASE LoadWorkers(c)
    BY <2>4 DEF LoadWorkers, PCs
  <2>5. CASE MemoryLimit(c)
    BY <2>5 DEF MemoryLimit, PCs
  <2>6. CASE Reject(c)
    BY <2>6 DEF Reject, PCs
  <2>7. CASE StartGoroutine(c)
    BY <2>7 DEF StartGoroutine, PCs, Goroutines
  <2>8. CASE Receive(c)
    BY <2>8 DEF Receive, PCs
  <2>9. CASE Timeout(c)
    BY <2>9 DEF Timeout, PCs
  <2>10. CASE Record(c)
    BY <2>10, <2>1, <2>2 DEF Record, PCs
  <2> QED
    BY <1>2, <2>3, <2>4, <2>5, <2>6, <2>7, <2>8, <2>9, <2>10 DEF CallStep
<1>3. ASSUME NEW c \in Calls, GoroutineStep(c)
      PROVE  TypeOK'
  <2>1. recordFailure(breaker[target[c]]) \in CircuitBreaker
    BY BreakerTypes
  <2>2. CASE RunInspector(c)
    BY <2>2 DEF RunInspector, Goroutines
  <2>3. CASE Send(c)
    BY <2>3 DEF Send, Goroutines
  <2>4. CASE RecoverFailure(c)
    BY <2>4, <2>1 DEF RecoverFailure, Goroutines
  <2> QED
    BY <1>3, <2>2, <2>3, <2>4 DEF GoroutineStep
<1>4. CASE Tick
  <2>1. \A age \in Ages : Older(age) \in Ages
    BY BoundsAssumption DEF Older, Ages
  <2>2. ASSUME NEW b \in CircuitBreaker
        PROVE  [b EXCEPT !.sinceTrip = Older(@), !.sinceHalfOpen = Older(@)]
                  \in CircuitBreaker
    BY <2>1 DEF CircuitBreaker
  <2> QED
    BY <1>4, <2>2 DEF Tick
<1>5. CASE UNCHANGED vars
  BY <1>5 DEF vars
<1> QED
  BY <1>1, <1>2, <1>3, <1>4, <1>5 DEF Next, Refuse

\* Type correctness: in particular no success drives a breaker's failure
\* count below zero.
THEOREM TypeCorrect == Spec => []TypeOK
BY InitType, StepType, PTL DEF Spec

-----------------------------------------------------------------------------
(* The worker slots                                                        *)

SlotInv == TypeOK /\ WorkerAccounting /\ SlotsBounded

\* No slot is taken at the start.
LEMMA InitSlots == Init => SlotInv
<1> SUFFICES ASSUME Init PROVE SlotInv
  OBVIOUS
<1>1. Counted = {} /\ Holders = {}
  BY DEF Init, Counted, Holders
<1>2. Cardinality({}) = 0
  BY FS_EmptySet
<1> QED
  BY <1>1, <1>2, InitType, BoundsAssumption
  DEF Init, SlotInv, WorkerAccounting, SlotsBounded

\* Every path through Inspect returns the slot it took exactly once.
LEMMA StepSlots == SlotInv /\ [Next]_vars => SlotInv'
<1> SUFFICES ASSUME SlotInv, [Next]_vars PROVE SlotInv'
  OBVIOUS
<1>t. TypeOK /\ TypeOK'
  BY StepType DEF SlotInv
<1>f. /\ IsFiniteSet(Counted) /\ Cardinality(Counted) \in Nat
      /\ IsFiniteSet(Holders) /\ Cardinality(Holders) \in Nat
      /\ Holders \subseteq Counted
      /\ Cardinality(Holders) <= Cardinality(Counted)
  BY CountedFinite
<1> USE <1>t, <1>f, BoundsAssumption DEF SlotInv
\* Steps that leave the counter and both sets alone.
<1>1. ASSUME activeWorkers' = activeWorkers, Counted' = Counted,
             Holders' = Holders
      PROVE  SlotInv'
  BY <1>1 DEF WorkerAccounting, SlotsBounded
\* Steps that give a slot back.
<1>2. ASSUME NEW c \in Counted, activeWorkers' = activeWorkers - 1,
             Counted' = Counted \ {c}, Holders' = Holders \ {c}
      PROVE  SlotInv'
  <2>1. Cardinality(Counted') = Cardinality(Counted) - 1
    BY <1>2, FS_RemoveElement
  <2>2. Cardinality(Holders') <= Cardinality(Holders)
    BY <1>2, FS_Subset
  <2>3. Cardinality(Holders') \in Nat
    BY <1>2, FS_Subset, FS_CardinalityType
  <2> QED
    BY <1>2, <2>1, <2>2, <2>3 DEF WorkerAccounting, SlotsBounded
<1>3. ASSUME NEW c \in Calls, NEW i \in Inspectors, Admit(c, i)
      PROVE  SlotInv'
  <2>1. Counted' = Counted \ {c} /\ Holders' = Holders \ {c}
    BY <1>3, CountedIn DEF Admit, PCs
  <2>2. c \notin Counted
    BY <1>3 DEF Admit, Counted
  <2> QED
    BY <1>1, <1>3, <2>1, <2>2 DEF Admit
<1>4. ASSUME NEW c \in Calls, CallStep(c)
      PROVE  SlotInv'
  <2>1. CASE AddWorker(c)
    <3>1. Counted' = Counted \cup {c} /\ Holders' = Holders \ {c}
      BY <2>1, CountedIn DEF AddWorker, PCs
    <3>2. c \notin Counted
      BY <2>1 DEF AddWorker, Counted
    <3>3. Cardinality(Counted') = Cardinality(Counted) + 1
      BY <3>1, <3>2, FS_AddElement
    <3>4. Holders' = Holders
      BY <3>1, <3>2
    <3> QED
      BY <2>1, <3>3, <3>4 DEF AddWorker, WorkerAccounting, SlotsBounded
  <2>2. CASE LoadWorkers(c)
    <3>1. c \in Counted
      BY <2>2 DEF LoadWorkers, Counted
    <3>2. CASE activeWorkers > MaxWorkers
      <4>1. Counted' = Counted \cup {c} /\ Holders' = Holders \ {c}
        BY <2>2, <3>2, CountedIn DEF LoadWorkers, PCs
      <4>2. c \notin Holders
        BY <2>2 DEF LoadWorkers, Holders
      <4> QED
        BY <1>1, <2>2, <3>1, <4>1, <4>2 DEF LoadWorkers
    <3>3. CASE ~(activeWorkers > MaxWorkers)
      <4>0. pc' = [pc EXCEPT ![c] = "memory"]
        BY <2>2, <3>3 DEF LoadWorkers
      <4>1. Counted' = Counted /\ Holders' = Holders \cup {c}
        <5>1. Counted' = Counted \cup {c} /\ Holders' = Holders \cup {c}
          BY <4>0, CountedIn DEF PCs
        <5> QED
          BY <5>1, <3>1
      <4>2. Holders' \subseteq Counted
        BY <3>1, <4>1
      <4>3. Cardinality(Holders') <= Cardinality(Counted)
        BY <4>2, FS_Subset
      <4>4. Cardinality(Holders') \in Nat
        BY <4>2, FS_Subset, FS_CardinalityType
      <4>5. activeWorkers <= MaxWorkers
        BY <3>3 DEF TypeOK
      <4> QED
        BY <2>2, <4>1, <4>3, <4>4, <4>5
        DEF LoadWorkers, WorkerAccounting, SlotsBounded
    <3> QED
      BY <3>2, <3>3
  <2>3. CASE MemoryLimit(c)
    <3>1. Counted' = Counted \cup {c} /\ Holders' = Holders \ {c}
      BY <2>3, CountedIn DEF MemoryLimit, PCs
    <3>2. Counted' = Counted
      BY <2>3, <3>1 DEF MemoryLimit, Counted
    <3>3. Cardinality(Holders') <= Cardinality(Holders)
      BY <3>1, FS_Subset
    <3>4. Cardinality(Holders') \in Nat
      BY <3>1, FS_Subset, FS_CardinalityType
    <3> QED
      BY <2>3, <3>2, <3>3, <3>4 DEF MemoryLimit, WorkerAccounting, SlotsBounded
  <2>4. CASE Reject(c)
    <3>1. c \in Counted
      BY <2>4 DEF Reject, Counted
    <3>2. Counted' = Counted \ {c} /\ Holders' = Holders \ {c}
      BY <2>4, CountedIn DEF Reject, PCs
    <3> QED
      BY <1>2, <2>4, <3>1, <3>2 DEF Reject
  <2>5. CASE StartGoroutine(c)
    <3>1. Counted' = Counted \cup {c} /\ Holders' = Holders \cup {c}
      BY <2>5, CountedIn DEF StartGoroutine, PCs
    <3>2. c \in Counted /\ c \in Holders
      BY <2>5 DEF StartGoroutine, Counted, Holders
    <3> QED
      BY <1>1, <2>5, <3>1, <3>2 DEF StartGoroutine
  <2>6. CASE Receive(c)
    <3>1. c \in Counted
      BY <2>6 DEF Receive, Counted
    <3>2. Counted' = Counted \ {c} /\ Holders' = Holders \ {c}
      BY <2>6, CountedIn DEF Receive, PCs
    <3> QED
      BY <1>2, <2>6, <3>1, <3>2 DEF Receive
  <2>7. CASE Timeout(c)
    <3>1. c \in Counted
      BY <2>7 DEF Timeout, Counted
    <3>2. Counted' = Counted \ {c} /\ Holders' = Holders \ {c}
      BY <2>7, CountedIn DEF Timeout, PCs
    <3> QED
      BY <1>2, <2>7, <3>1, <3>2 DEF Timeout
  <2>8. CASE Record(c)
    <3>1. Counted' = Counted \ {c} /\ Holders' = Holders \ {c}
      BY <2>8, CountedIn DEF Record, PCs
    <3>2. c \notin Counted
      BY <2>8 DEF Record, Counted
    <3> QED
      BY <1>1, <2>8, <3>1, <3>2 DEF Record
  <2> QED
    BY <1>4, <2>1, <2>2, <2>3, <2>4, <2>5, <2>6, <2>7, <2>8 DEF CallStep
<1>5. ASSUME UNCHANGED <<pc, activeWorkers>>
      PROVE  SlotInv'
  BY <1>1, <1>5 DEF Counted, Holders
<1>6. ASSUME NEW c \in Calls, GoroutineStep(c)
      PROVE  SlotInv'
  BY <1>5, <1>6 DEF GoroutineStep, RunInspector, Send, RecoverFailure
<1>7. CASE Tick
  BY <1>5, <1>7 DEF Tick
<1>8. CASE UNCHANGED vars
  BY <1>5, <1>8 DEF vars
<1> QED
  BY <1>3, <1>4, <1>6, <1>7, <1>8 DEF Next, Refuse

\* activeWorkers equals the number of calls between increment and decrement,
\* whatever the interleaving of calls, goroutines and timeouts.
THEOREM SlotsAccounted == Spec => []WorkerAccounting
<1>1. SlotInv => WorkerAccounting
  BY DEF SlotInv
<1> QED
  BY InitSlots, StepSlots, <1>1, PTL DEF Spec

\* No more than MaxWorkers calls are ever past the limit check.
THEOREM SlotsNeverExceeded == Spec => []SlotsBounded
<1>1. SlotInv => SlotsBounded
  BY DEF SlotInv
<1> QED
  BY InitSlots, StepSlots, <1>1, PTL DEF Spec

-----------------------------------------------------------------------------
(* The breaker                                                             *)

\* A probe counted against a recent trip has cleared the half-open flag, and
\* only the branch that resets the count sets the flag again.
ProbeInv ==
    \A i \in Inspectors : /\ probes[i] <= 1
                          /\ probes[i] = 1 => ~breaker[i].halfOpen

BreakerInv == TypeOK /\ ProbeInv

\* canProceed, recordFailure, recordSuccess and the clock keep the number of
\* early admissions of an open breaker at one or below.
LEMMA StepProbes == BreakerInv /\ [Next]_vars => BreakerInv'
<1> SUFFICES ASSUME BreakerInv, [Next]_vars PROVE ProbeInv'
  BY StepType DEF BreakerInv
<1>t. TypeOK /\ TypeOK' /\ ProbeInv
  BY StepType DEF BreakerInv
\* Steps that touch neither the history nor a half-open flag.
<1>1. ASSUME probes' = probes,
             \A i \in Inspectors : breaker'[i].halfOpen = breaker[i].halfOpen
      PROVE  ProbeInv'
  BY <1>1, <1>t DEF ProbeInv
<1>2. ASSUME NEW b \in CircuitBreaker
      PROVE  /\ recordFailure(b).halfOpen = b.halfOpen
             /\ recordSuccess(b).halfOpen = b.halfOpen
  BY DEF recordFailure, recordSuccess, CircuitBreaker
<1>3. ASSUME NEW c \in Calls, NEW i \in Inspectors, Admit(c, i)
      PROVE  ProbeInv'
  <2> SUFFICES ASSUME NEW j \in Inspectors
               PROVE  /\ probes'[j] <= 1
                      /\ probes'[j] = 1 => ~breaker'[j].halfOpen
    BY DEF ProbeInv
  <2> DEFINE b == breaker[i]
  <2>b. b \in CircuitBreaker /\ probes[i] \in Nat
    BY <1>t DEF TypeOK
  <2>1. CASE j # i
    <3>1. probes'[j] = probes[j] /\ breaker'[j] = breaker[j]
      BY <1>3, <1>t, <2>1 DEF Admit, TypeOK
    <3> QED
      BY <3>1, <1>t DEF ProbeInv
  <2>2. CASE j = i
    <3>1. probes'[j] = Probes(i) /\ breaker'[j] = AfterProceed(b)
      BY <1>3, <1>t, <2>2 DEF Admit, TypeOK
    <3>2. probes[i] <= 1 /\ (probes[i] = 1 => ~b.halfOpen)
      BY <1>t DEF ProbeInv
    <3>3. CASE ~b.exists
      <4>1. Probes(i) = probes[i] /\ AfterProceed(b) = b
        BY <3>3 DEF Probes, AfterProceed
      <4> QED
        BY <3>1, <3>2, <4>1
    <3>4. CASE b.exists /\ ProbeOver(b)
      <4>1. probes[i] = 0
        BY <2>b, <3>2, <3>4 DEF ProbeOver
      <4>2. Probes(i) \in {0, 1}
        BY <3>4, <4>1 DEF Probes
      <4>3. AfterProceed(b) = [b EXCEPT !.halfOpen = FALSE, !.failures = 0]
        BY <3>4 DEF AfterProceed
      <4>4. ~AfterProceed(b).halfOpen
        BY <4>3, <2>b DEF CircuitBreaker
      <4> QED
        BY <3>1, <4>2, <4>4
    <3>5. CASE b.exists /\ ~ProbeOver(b)
      <4>1. Probes(i) = 0
        BY <3>5 DEF Probes
      <4> QED
        BY <3>1, <4>1
    <3> QED
      BY <3>3, <3>4, <3>5
  <2> QED
    BY <2>1, <2>2
<1>4. ASSUME NEW c \in Calls, CallStep(c)
      PROVE  ProbeInv'
  <2>1. CASE Record(c)
    <3>1. breaker[target[c]] \in CircuitBreaker
      BY <1>t DEF TypeOK
    <3>2. \A i \in Inspectors : breaker'[i].halfOpen = breaker[i].halfOpen
      BY <1>t, <1>2, <2>1, <3>1 DEF Record, TypeOK
    <3> QED
      BY <1>1, <2>1, <3>2 DEF Record
  <2>2. CASE ~Record(c)
    <3>1. breaker' = breaker /\ probes' = probes
      BY <1>4, <2>2 DEF CallStep, AddWorker, LoadWorkers, MemoryLimit, Reject,
                        StartGoroutine, Receive, Timeout
    <3> QED
      BY <1>1, <3>1
  <2> QED
    BY <2>1, <2>2
<1>5. ASSUME NEW c \in Calls, GoroutineStep(c)
      PROVE  ProbeInv'
  <2>1. breaker[target[c]] \in CircuitBreaker
    BY <1>t DEF TypeOK
  <2>2. \A i \in Inspectors : breaker'[i].halfOpen = breaker[i].halfOpen
    BY <1>t, <1>2, <1>5, <2>1
    DEF GoroutineStep, RunInspector, Send, RecoverFailure, TypeOK
  <2>3. probes' = probes
    BY <1>5 DEF GoroutineStep, RunInspector, Send, RecoverFailure
  <2> QED
    BY <1>1, <2>2, <2>3
<1>6. CASE Tick
  <2>1. \A i \in Inspectors : breaker'[i].halfOpen = breaker[i].halfOpen
    BY <1>6, <1>t DEF Tick, TypeOK, CircuitBreaker
  <2> QED
    BY <1>1, <1>6, <2>1 DEF Tick
<1>7. CASE UNCHANGED vars
  BY <1>1, <1>7 DEF vars
<1> QED
  BY <1>3, <1>4, <1>5, <1>6, <1>7 DEF Next, Refuse

\* Between a trip and the end of its recovery time a breaker lets at most one
\* call through, however calls, late panics and the clock interleave.
THEOREM OpenCircuit == Spec => []OpenCircuitAdmitsAtMostOne
<1>1. Init => BreakerInv
  BY InitType DEF Init, BreakerInv, ProbeInv
<1>2. BreakerInv => OpenCircuitAdmitsAtMostOne
  BY DEF BreakerInv, ProbeInv, OpenCircuitAdmitsAtMostOne
<1> QED
  BY <1>1, <1>2, StepProbes, PTL DEF Spec

-----------------------------------------------------------------------------
(* Refinement                                                              *)

\* Initial states map to the empty bulkhead.
LEMMA InitBulkhead == Init => B!BInit
BY DEF Init, B!BInit, Holders

\* Every step of Inspect takes a permit, returns one, or leaves them alone.
LEMMA StepBulkhead == SlotInv /\ SlotInv' /\ [Next]_vars => [B!BNext]_Holders
<1> SUFFICES ASSUME SlotInv, SlotInv', [Next]_vars, Holders' # Holders
             PROVE  B!BNext
  OBVIOUS
<1>t. TypeOK
  BY DEF SlotInv
<1>f. IsFiniteSet(Holders) /\ Cardinality(Holders) \in Nat
  BY CountedFinite
<1>1. PICK c \in Calls : CallStep(c) \/ (\E i \in Inspectors : Admit(c, i))
  BY DEF Next, Refuse, GoroutineStep, RunInspector, Send, RecoverFailure, Tick, vars,
         Holders
<1>2. PICK x \in PCs : pc' = [pc EXCEPT ![c] = x]
  BY <1>1 DEF CallStep, Admit, AddWorker, LoadWorkers, MemoryLimit, Reject,
              StartGoroutine, Receive, Timeout, Record, PCs
<1>3. CASE x \in {"memory", "select"}
  <2>1. Holders' = Holders \cup {c}
    BY <1>t, <1>2, <1>3, CountedIn
  <2>2. c \notin Holders
    BY <2>1
  <2>3. Cardinality(Holders') = Cardinality(Holders) + 1
    BY <1>f, <2>1, <2>2, FS_AddElement
  <2>4. Cardinality(Holders') <= MaxWorkers
    BY DEF SlotInv, SlotsBounded
  <2>5. Cardinality(Holders) < MaxWorkers
    BY <1>f, <2>3, <2>4, BoundsAssumption
  <2>6. B!Cardinality(Holders) = Cardinality(Holders)
    BY DEF B!Cardinality, Cardinality, B!IsFiniteSet, IsFiniteSet
  <2> QED
    BY <2>1, <2>2, <2>5, <2>6 DEF B!BNext, B!Acquire
<1>4. CASE x \notin {"memory", "select"}
  <2>1. Holders' = Holders \ {c}
    BY <1>t, <1>2, <1>4, CountedIn
  <2>2. c \in Holders
    BY <2>1
  <2> QED
    BY <2>1, <2>2 DEF B!BNext, B!Release
<1> QED
  BY <1>3, <1>4

\* The increment-then-load protocol of Inspect implements a bulkhead of
\* MaxWorkers permits.
THEOREM ImplementsBulkhead == Spec => BulkheadSpec
<1>1. Init => SlotInv
  BY InitSlots
<1> QED
  BY <1>1, StepSlots, InitBulkhead, StepBulkhead, PTL
  DEF Spec, BulkheadSpec, B!BSpec
=============================================================================
