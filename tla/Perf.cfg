\* Two calls, either of which may hang, share one slot and one breaker, under
\* the fairness of the Go runtime.
SPECIFICATION FairSpec
CONSTANTS
    Calls = {c1, c2}
    Inspectors = {waf}
    MaxWorkers = 1
    Threshold = 2
    Recovery = 1
INVARIANTS TypeOK WorkerAccounting OpenCircuitAdmitsAtMostOne
PROPERTIES BulkheadSpec CallEnds CircuitReadmits
