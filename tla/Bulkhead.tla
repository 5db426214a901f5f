------------------------------ MODULE Bulkhead ------------------------------
(***************************************************************************)
(* What PerformanceManager promises about concurrency, and nothing else: a *)
(* set of calls holds permits, never more than MaxWorkers of them at once. *)
(* PerformanceManager implements it with an atomic counter that is first   *)
(* incremented and then read.                                              *)
(***************************************************************************)
EXTENDS Naturals, FiniteSets

CONSTANTS Calls,        \* the calls of Inspect that may be alive at once
          MaxWorkers    \* the number of permits

VARIABLE holders        \* the calls that hold a permit

BInit == holders = {}

Acquire(c) ==
    /\ c \notin holders
    /\ Cardinality(holders) < MaxWorkers
    /\ holders' = holders \cup {c}

Release(c) ==
    /\ c \in holders
    /\ holders' = holders \ {c}

BNext == \E c \in Calls : Acquire(c) \/ Release(c)

BSpec == BInit /\ [][BNext]_holders
=============================================================================
