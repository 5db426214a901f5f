------------------------------- MODULE Engine -------------------------------
(***************************************************************************)
(* internal/engine/engine.go: the inspection pipeline.  Requests run the   *)
(* inspectors of one slice in order under the read lock of Engine.mu;      *)
(* UpdateInspector replaces one of them under the write lock.              *)
(*                                                                         *)
(* What an inspector answers is an input: an error, nothing, or a decision *)
(* with an action and a score.  With performance isolation on, the answers *)
(* of PerformanceManager.Inspect (its PERF_00x monitor decisions) are      *)
(* answers of the same kind.  Logging, explanations and confidence figures *)
(* do not influence the outcome and are left out.                          *)
(***************************************************************************)
EXTENDS Naturals, Sequences

CONSTANTS Requests,        \* connections; each carries one request at a time
          Inspectors,      \* inspector objects
          Nil,             \* a nil Inspector: the feature is off
          NameOf,          \* Inspector.Name() of each object
          InitialPipeline, \* the slice New builds
          UpdateNames,     \* the names UpdateInspector is called with
          Replacements,    \* for each such name, the objects it is called with
          Answers,         \* what inspectors may answer
          BlockScore,      \* 90 in the code
          ChallengeScore,  \* 50 in the code
          ShadowModes,     \* the settings of Engine.shadowMode
          PerformanceIsolation  \* Engine.perfMgmt is set

NoAnswer == [kind |-> "nil", action |-> "none", score |-> 0]
ErrAnswer == [kind |-> "error", action |-> "none", score |-> 0]

Actions == {"block", "allow", "challenge", "monitor", "rate_limit"}

\* type Decision, reduced to what the pipeline reads.
Decision == [kind : {"decision"}, action : Actions, score : Nat]

ASSUME EngineAssumption ==
    /\ Nil \notin Inspectors
    /\ InitialPipeline \in Seq(Inspectors \cup {Nil})
    /\ NameOf \in [Inspectors -> STRING]
    /\ Replacements \in [UpdateNames -> SUBSET Inspectors]
    /\ Answers \subseteq Decision \cup {NoAnswer, ErrAnswer}
    /\ ChallengeScore \in Nat /\ BlockScore \in Nat
    /\ ChallengeScore <= BlockScore
    /\ ShadowModes \subseteq BOOLEAN /\ PerformanceIsolation \in BOOLEAN

\* The entry of the slice New builds that UpdateInspector finds under a name.
\* There is none for most names of its switch: "ddos" is called
\* "ddos_protection" in the slice.
Place(name) ==
    {k \in DOMAIN InitialPipeline :
        /\ InitialPipeline[k] # Nil
        /\ NameOf[InitialPipeline[k]] = name
        /\ \A j \in 1 .. k - 1 :
              InitialPipeline[j] # Nil => NameOf[InitialPipeline[j]] # name}

\* What replaces an entry is an object of the same kind, so it has its name.
ASSUME NamesAssumption ==
    \A n \in UpdateNames : Place(n) # {} => \A i \in Replacements[n] : NameOf[i] = n

VARIABLES
    shadowMode,   \* Engine.shadowMode, fixed when the engine is built
    inspectors,   \* Engine.inspectors
    updating,     \* the UpdateInspector call that waits for the write lock
    status,       \* where the request of each connection is
    next,         \* index of the inspector the request runs next
    decisions,    \* RequestContext.Decisions
    threat,       \* RequestContext.ThreatScore
    result,       \* the action of the Decision that Inspect returned
    pipeline,     \* history: the slice when the request got its read lock
    ran,          \* history: the inspectors the request ran, and where they stood
    latest        \* history: the last inspector given for each name, or Nil

vars == <<shadowMode, inspectors, updating, status, next, decisions, threat,
          result, pipeline, ran, latest>>

request == <<next, decisions, threat, result, pipeline, ran>>

NoUpdate == [name |-> "none", inspector |-> Nil]
Updates == {[name |-> n, inspector |-> i] : n \in UpdateNames, i \in Inspectors}

Init ==
    /\ shadowMode \in ShadowModes
    /\ inspectors = InitialPipeline
    /\ updating = NoUpdate
    /\ status = [r \in Requests |-> "idle"]
    /\ next = [r \in Requests |-> 1]
    /\ decisions = [r \in Requests |-> <<>>]
    /\ threat = [r \in Requests |-> 0]
    /\ result = [r \in Requests |-> "none"]
    /\ pipeline = [r \in Requests |-> <<>>]
    /\ ran = [r \in Requests |-> <<>>]
    /\ latest = [n \in UpdateNames |-> Nil]

Running == {r \in Requests : status[r] = "running"}

-----------------------------------------------------------------------------
(* Engine.mu                                                               *)

\* Mutant: a reader does not queue behind a waiting writer.
RLockBarging == "running"

\* A waiting writer makes new readers wait (sync.RWMutex).
RLock == IF updating = NoUpdate THEN "running" ELSE "blocked"

\* InspectRequest: a new RequestContext, then the read lock.
Arrive(r) ==
    /\ status[r] \in {"idle", "done"}
    /\ status' = [status EXCEPT ![r] = RLock]
    /\ next' = [next EXCEPT ![r] = 1]
    /\ decisions' = [decisions EXCEPT ![r] = <<>>]
    /\ threat' = [threat EXCEPT ![r] = 0]
    /\ result' = [result EXCEPT ![r] = "none"]
    /\ pipeline' = [pipeline EXCEPT ![r] = inspectors]
    /\ ran' = [ran EXCEPT ![r] = <<>>]
    /\ UNCHANGED <<shadowMode, inspectors, updating, latest>>

\* UpdateInspector: Lock announces the writer.
UpdateLock(u) ==
    /\ updating = NoUpdate
    /\ u.inspector \in Replacements[u.name]
    /\ updating' = u
    /\ UNCHANGED <<shadowMode, inspectors, status, latest>> /\ UNCHANGED request

\* The slice entry UpdateInspector replaces: the first whose Name() is the
\* given name, if there is one.
Matches(name) ==
    {k \in 1 .. Len(inspectors) :
        /\ inspectors[k] # Nil
        /\ NameOf[inspectors[k]] = name
        /\ \A j \in 1 .. k - 1 :
              inspectors[j] # Nil => NameOf[inspectors[j]] # name}

\* Mutant: only the named field is assigned.
ReplacedFieldOnly(u) == inspectors

\* The slice after UpdateInspector.  The named field that its switch assigns
\* as well (e.ddos and so on) is never read.
Replaced(u) ==
    [k \in 1 .. Len(inspectors) |->
        IF k \in Matches(u.name) THEN u.inspector ELSE inspectors[k]]

\* Mutant: the slice is changed without waiting for the readers.
WriterMayEnterAlways == TRUE

WriterMayEnter == Running = {}

\* Mutant: the readers that wait are not woken.
WokenNone == {}

\* Unlock hands the read lock to every reader that waits.
Woken == {r \in Requests : status[r] = "blocked"}

\* The body of UpdateInspector and its Unlock, once no reader is left.
UpdateInspector ==
    /\ updating # NoUpdate
    /\ WriterMayEnter
    /\ inspectors' = Replaced(updating)
    /\ latest' = [latest EXCEPT ![updating.name] = updating.inspector]
    /\ updating' = NoUpdate
    /\ status' = [r \in Requests |->
                    IF r \in Woken THEN "running" ELSE status[r]]
    /\ pipeline' = [r \in Requests |->
                    IF r \in Woken THEN inspectors' ELSE pipeline[r]]
    /\ UNCHANGED <<shadowMode, next, decisions, threat, result, ran>>

-----------------------------------------------------------------------------
(* Engine.Inspect                                                          *)

\* A nil inspector is skipped.
SkipNil(r) ==
    /\ status[r] = "running"
    /\ next[r] <= Len(inspectors) /\ inspectors[next[r]] = Nil
    /\ next' = [next EXCEPT ![r] = @ + 1]
    /\ UNCHANGED <<shadowMode, inspectors, updating, status, decisions, threat,
                   result, pipeline, ran, latest>>

\* Mutant: a monitor decision (a skipped inspector, say) ends the loop too.
ReturnsOnMonitor(d) == d.action \in {"block", "monitor"}

\* A decision that ends the loop: a block outside shadow mode.
Returns(d) == d.action = "block" /\ ~shadowMode

\* Errors and nil answers are passed over.
Recorded(d) == d.kind = "decision"

\* One iteration of the loop with a non-nil inspector that answers d.  A
\* decision is recorded, with the action the inspector gave it, and its score
\* added; a block returns, releasing the read lock, unless shadow mode turns
\* it into a monitor decision.
Inspect(r, d) ==
    /\ status[r] = "running"
    /\ next[r] <= Len(inspectors) /\ inspectors[next[r]] # Nil
    /\ ran' = [ran EXCEPT ![r] =
                  Append(@, [at |-> next[r], inspector |-> inspectors[next[r]]])]
    /\ next' = [next EXCEPT ![r] = @ + 1]
    /\ IF Recorded(d)
       THEN /\ decisions' = [decisions EXCEPT ![r] = Append(@, d)]
            /\ threat' = [threat EXCEPT ![r] = @ + d.score]
       ELSE UNCHANGED <<decisions, threat>>
    /\ IF Returns(d)
       THEN /\ status' = [status EXCEPT ![r] = "done"]
            /\ result' = [result EXCEPT ![r] = "block"]
       ELSE UNCHANGED <<status, result>>
    /\ UNCHANGED <<shadowMode, inspectors, updating, pipeline, latest>>

\* An inspector panics and no PerformanceManager recovers it: the deferred
\* RUnlock runs, net/http drops the connection, no decision is returned.
InspectPanics(r) ==
    /\ ~PerformanceIsolation
    /\ status[r] = "running"
    /\ next[r] <= Len(inspectors) /\ inspectors[next[r]] # Nil
    /\ status' = [status EXCEPT ![r] = "idle"]
    /\ UNCHANGED <<shadowMode, inspectors, updating, latest>> /\ UNCHANGED request

\* Mutant: the rate limit test comes before the score tests.
finalDecisionRateFirst(score, ds) ==
    CASE \E k \in DOMAIN ds : ds[k].action = "rate_limit" -> "rate_limit"
      [] score >= BlockScore -> "block"
      [] score >= ChallengeScore -> "challenge"
      [] OTHER -> "allow"

\* finalDecision: thresholds on the cumulative score, then rate limiting.
finalDecision(score, ds) ==
    CASE score >= BlockScore -> "block"
      [] score < BlockScore /\ score >= ChallengeScore -> "challenge"
      [] /\ score < ChallengeScore /\ score < BlockScore
         /\ \E k \in DOMAIN ds : ds[k].action = "rate_limit" -> "rate_limit"
      [] OTHER -> "allow"

\* The loop is over: finalDecision, then RUnlock.
Finish(r) ==
    /\ status[r] = "running" /\ next[r] > Len(inspectors)
    /\ result' = [result EXCEPT ![r] = finalDecision(threat[r], decisions[r])]
    /\ status' = [status EXCEPT ![r] = "done"]
    /\ UNCHANGED <<shadowMode, inspectors, updating, next, decisions, threat,
                   pipeline, ran, latest>>

RequestStep(r) ==
    \/ SkipNil(r)
    \/ \E d \in Answers : Inspect(r, d)
    \/ InspectPanics(r)
    \/ Finish(r)

Next ==
    \/ \E r \in Requests : Arrive(r) \/ RequestStep(r)
    \/ \E u \in Updates : UpdateLock(u)
    \/ UpdateInspector

Spec == Init /\ [][Next]_vars

\* Inspectors answer (PerformanceManager sees to it) and the goroutine of a
\* request and that of an update are scheduled.
FairSpec ==
    /\ Spec
    /\ \A r \in Requests : WF_vars(RequestStep(r))
    /\ WF_vars(UpdateInspector)

-----------------------------------------------------------------------------
(* Properties                                                              *)

\* An inspector that ran, and its place in the slice
Run == [at : Nat, inspector : Inspectors]

\* Every variable has its type.
TypeOK ==
    /\ shadowMode \in BOOLEAN
    /\ inspectors \in Seq(Inspectors \cup {Nil})
    /\ updating \in Updates \cup {NoUpdate}
    /\ status \in [Requests -> {"idle", "blocked", "running", "done"}]
    /\ next \in [Requests -> Nat \ {0}]
    /\ decisions \in [Requests -> Seq(Decision)]
    /\ threat \in [Requests -> Nat]
    /\ result \in [Requests -> Actions \cup {"none"}]
    /\ latest \in [UpdateNames -> Inspectors \cup {Nil}]
    /\ pipeline \in [Requests -> Seq(Inspectors \cup {Nil})]
    /\ ran \in [Requests -> Seq(Run)]

\* A request runs against one version of the pipeline: while it runs, the
\* slice is the one it found when it got the read lock, so no inspector is
\* skipped or run twice because of a concurrent UpdateInspector.
OnePipelinePerRequest ==
    \A r \in Running : inspectors = pipeline[r]

\* A request is only let through untouched when no recorded decision speaks
\* against it: none limits its rate, none blocks it (outside shadow mode),
\* and its score is below both thresholds.
AllowIsJustified ==
    \A r \in Requests :
        result[r] = "allow" =>
            /\ threat[r] < ChallengeScore
            /\ \A k \in DOMAIN decisions[r] :
                  /\ decisions[r][k].action # "rate_limit"
                  /\ ~shadowMode => decisions[r][k].action # "block"

\* A refusal names its cause: a request is blocked because its last recorded
\* decision blocks it or because its score reached the threshold.
BlockIsJustified ==
    \A r \in Requests :
        result[r] = "block" =>
            \/ threat[r] >= BlockScore
            \/ /\ decisions[r] # <<>>
               /\ decisions[r][Len(decisions[r])].action = "block"

\* The sum of the scores of the decisions
Total(ds) ==
    LET sum[k \in 0 .. Len(ds)] == IF k = 0 THEN 0 ELSE sum[k - 1] + ds[k].score
    IN  sum[Len(ds)]

\* The outcome of a request as a function of what its inspectors said
Reference(ds) ==
    IF ~shadowMode /\ \E k \in DOMAIN ds : ds[k].action = "block"
    THEN "block"
    ELSE LET t == Total(ds)
         IN  IF t >= BlockScore THEN "block"
             ELSE IF t >= ChallengeScore THEN "challenge"
             ELSE IF \E k \in DOMAIN ds : ds[k].action = "rate_limit"
             THEN "rate_limit" ELSE "allow"

\* The action Inspect returns is the one the reference gives for the recorded
\* decisions, and the threat score is the sum of theirs; the inspectors of the one
\* pipeline the request found ran in its order, none left out before the last that
\* ran, and all of them unless a block ended the run, which it does at once.
OutcomeMatchesReference ==
    \A r \in Requests :
        status[r] = "done" =>
            LET ds == decisions[r]
                blocks == {k \in DOMAIN ds : ds[k].action = "block"}
                due == {k \in DOMAIN pipeline[r] : pipeline[r][k] # Nil}
                met == {ran[r][i].at : i \in DOMAIN ran[r]}
            IN  /\ result[r] = Reference(ds)
                /\ threat[r] = Total(ds)
                /\ \A i, j \in DOMAIN ran[r] : i < j => ran[r][i].at < ran[r][j].at
                /\ \A i \in DOMAIN ran[r] : ran[r][i].inspector = pipeline[r][ran[r][i].at]
                /\ met \subseteq due
                /\ \A k \in due, m \in met : k < m => k \in met
                /\ (shadowMode \/ blocks = {}) => met = due
                /\ ~shadowMode => blocks \subseteq {Len(ds)}

\* In shadow mode nothing is blocked: a block is turned into a monitor
\* decision, and "ActionMonitor logs the event without blocking".
ShadowNeverBlocks == shadowMode => \A r \in Requests : result[r] # "block"

\* However many updates there have been, the pipeline is the one New built with,
\* at the place of each name that was updated, the inspector last given for it;
\* an update under a name no entry answers to changes nothing.
UpdateTakesEffect ==
    /\ DOMAIN inspectors = DOMAIN InitialPipeline
    /\ \A k \in DOMAIN InitialPipeline :
          \/ /\ inspectors[k] = InitialPipeline[k]
             /\ \A n \in UpdateNames : k \in Place(n) => latest[n] = Nil
          \/ \E n \in UpdateNames :
                k \in Place(n) /\ latest[n] # Nil /\ inspectors[k] = latest[n]

\* A replacement reaches the place of its name in the pipeline and no other, but no
\* request that is already running sees it.
PipelineConsistent == OnePipelinePerRequest /\ UpdateTakesEffect

\* Every request gets its decision, or is dropped by a panic, also when
\* inspectors are replaced all the time.
RequestDecided ==
    \A r \in Requests :
        status[r] \in {"blocked", "running"} ~> status[r] \in {"done", "idle"}

\* Every UpdateInspector call returns, also under continuous traffic.
UpdateReturns == updating # NoUpdate ~> updating = NoUpdate

\* Requests and updates share the lock without either starving the other.
NobodyStarves == RequestDecided /\ UpdateReturns
=============================================================================
