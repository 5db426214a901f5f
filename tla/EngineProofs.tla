---------------------------- MODULE EngineProofs ----------------------------
(***************************************************************************)
(* Theorems about Engine for every pipeline, every set of requests and     *)
(* every set of answers.                                                   *)
(***************************************************************************)
EXTENDS Engine, WellFoundedInduction, TLAPS

\* Only decisions are recorded, and a decision that returns was recorded.
LEMMA AnswerTypes ==
    ASSUME NEW d \in Answers
    PROVE  /\ Recorded(d) => d \in Decision
           /\ d.score \in Nat
           /\ Returns(d) => Recorded(d)
BY EngineAssumption DEF Decision, NoAnswer, ErrAnswer, Recorded, Returns, Actions

\* New builds a well-typed engine.
LEMMA InitType == Init => TypeOK
BY EngineAssumption DEF Init, TypeOK, Actions

\* Every step of Inspect and of UpdateInspector keeps the types.
LEMMA StepType == TypeOK /\ [Next]_vars => TypeOK'
<1> SUFFICES ASSUME TypeOK, [Next]_vars PROVE TypeOK'
  OBVIOUS
<1>0. ran \in [Requests -> Seq(Run)]
  BY DEF TypeOK
<1>1. ASSUME NEW r \in Requests, Arrive(r) PROVE TypeOK'
  <2>1. ran' \in [Requests -> Seq(Run)]
    BY <1>0, <1>1 DEF Arrive
  <2> QED
    <3>2. /\ status' \in [Requests -> {"idle", "blocked", "running", "done"}]
          /\ next' \in [Requests -> Nat \ {0}] /\ decisions' \in [Requests -> Seq(Decision)]
          /\ threat' \in [Requests -> Nat] /\ result' \in [Requests -> Actions \cup {"none"}]
          /\ pipeline' \in [Requests -> Seq(Inspectors \cup {Nil})]
      BY <1>1 DEF Arrive, RLock, TypeOK
    <3>3. UNCHANGED <<shadowMode, inspectors, updating, latest>>
      BY <1>1 DEF Arrive
    <3> QED
      BY <2>1, <3>2, <3>3 DEF TypeOK
<1>2. ASSUME NEW r \in Requests, SkipNil(r) PROVE TypeOK'
  <2>1. ran' \in [Requests -> Seq(Run)]
    BY <1>0, <1>2 DEF SkipNil
  <2> QED
    <3>2. next' \in [Requests -> Nat \ {0}]
      BY <1>2 DEF SkipNil, TypeOK
    <3> QED
      BY <1>2, <2>1, <3>2 DEF SkipNil, TypeOK
<1> USE DEF TypeOK
<1>3. ASSUME NEW r \in Requests, NEW d \in Answers, Inspect(r, d)
      PROVE  TypeOK'
  <2>1. Recorded(d) => d \in Decision
    BY AnswerTypes
  <2>2. d.score \in Nat
    BY AnswerTypes
  <2>3. decisions' \in [Requests -> Seq(Decision)]
    <3>1. CASE Recorded(d)
      <4>1. decisions' = [decisions EXCEPT ![r] = Append(decisions[r], d)]
        BY <1>3, <3>1 DEF Inspect
      <4>2. Append(decisions[r], d) \in Seq(Decision)
        BY <2>1, <3>1
      <4> QED
        BY <4>1, <4>2
    <3>2. CASE ~Recorded(d)
      BY <1>3, <3>2 DEF Inspect
    <3> QED
      BY <3>1, <3>2
  <2>4. threat' \in [Requests -> Nat]
    <3>1. CASE Recorded(d)
      <4>1. threat' = [threat EXCEPT ![r] = threat[r] + d.score]
        BY <1>3, <3>1 DEF Inspect
      <4> QED
        BY <2>2, <4>1
    <3>2. CASE ~Recorded(d)
      BY <1>3, <3>2 DEF Inspect
    <3> QED
      BY <3>1, <3>2
  <2>5. /\ status' \in [Requests -> {"idle", "blocked", "running", "done"}]
        /\ result' \in [Requests -> Actions \cup {"none"}]
    <3>1. CASE Returns(d)
      BY <1>3, <3>1 DEF Inspect, Actions
    <3>2. CASE ~Returns(d)
      BY <1>3, <3>2 DEF Inspect
    <3> QED
      BY <3>1, <3>2
  <2>6. inspectors[next[r]] \in Inspectors
    BY <1>3 DEF Inspect
  <2>7. ran' \in [Requests -> Seq(Run)]
    <3>1. [at |-> next[r], inspector |-> inspectors[next[r]]] \in Run
      BY <2>6 DEF Run
    <3>2. PICK e \in Run : ran' = [ran EXCEPT ![r] = Append(ran[r], e)]
      BY <1>3, <3>1 DEF Inspect
    <3> QED
      BY <1>0, <3>2
  <2>8. next' \in [Requests -> Nat \ {0}]
    BY <1>3, SMTT(30) DEF Inspect
  <2>9. UNCHANGED <<shadowMode, inspectors, updating, pipeline, latest>>
    BY <1>3 DEF Inspect
  <2> QED
    BY <2>3, <2>4, <2>5, <2>7, <2>8, <2>9
<1>4. ASSUME NEW r \in Requests, InspectPanics(r) PROVE TypeOK'
  BY <1>4 DEF InspectPanics, request
<1>5. ASSUME NEW r \in Requests, Finish(r) PROVE TypeOK'
  <2>1. finalDecision(threat[r], decisions[r]) \in Actions
    BY DEF finalDecision, Actions
  <2> QED
    BY <1>5, <2>1 DEF Finish
<1>6. ASSUME NEW u \in Updates, UpdateLock(u) PROVE TypeOK'
  BY <1>6 DEF UpdateLock, request
<1>7. CASE UpdateInspector
  <2>1. updating \in Updates
    BY <1>7 DEF UpdateInspector
  <2>2. updating.inspector \in Inspectors
    BY <2>1 DEF Updates
  <2>3. Replaced(updating) \in Seq(Inspectors \cup {Nil})
    BY <2>2 DEF Replaced
  <2>4. latest' \in [UpdateNames -> Inspectors \cup {Nil}]
    BY <1>7, <2>1, <2>2 DEF UpdateInspector, Updates
  <2> QED
    BY <1>7, <2>1, <2>3, <2>4 DEF UpdateInspector
<1>8. CASE UNCHANGED vars
  BY <1>8 DEF vars
<1> QED
  BY <1>1, <1>2, <1>3, <1>4, <1>5, <1>6, <1>7, <1>8 DEF Next, RequestStep

\* Every variable of the engine keeps its type.
THEOREM TypeCorrect == Spec => []TypeOK
BY InitType, StepType, PTL DEF Spec

-----------------------------------------------------------------------------
(* The read lock                                                           *)

\* UpdateInspector waits for the write lock, so no step changes the slice
\* under a request that holds the read lock.
LEMMA StepPipeline ==
    TypeOK /\ OnePipelinePerRequest /\ [Next]_vars => OnePipelinePerRequest'
<1> SUFFICES ASSUME TypeOK, OnePipelinePerRequest, [Next]_vars,
                    NEW r \in Running'
             PROVE  inspectors' = pipeline'[r]
  BY DEF OnePipelinePerRequest
<1>0. r \in Requests /\ status'[r] = "running"
  BY DEF Running
<1> USE <1>0 DEF TypeOK, OnePipelinePerRequest, Running
<1>1. ASSUME NEW q \in Requests, Arrive(q) PROVE inspectors' = pipeline'[r]
  BY <1>1 DEF Arrive
<1>2. ASSUME NEW q \in Requests, RequestStep(q)
      PROVE  inspectors' = pipeline'[r]
  <2>1. /\ inspectors' = inspectors /\ pipeline' = pipeline
        /\ status[r] = "running"
    BY <1>2 DEF RequestStep, SkipNil, Inspect, InspectPanics, Finish, request
  <2> QED
    BY <2>1
<1>3. ASSUME NEW u \in Updates, UpdateLock(u)
      PROVE  inspectors' = pipeline'[r]
  BY <1>3 DEF UpdateLock, request
<1>4. CASE UpdateInspector
  <2>1. status[r] # "running"
    BY <1>4 DEF UpdateInspector, WriterMayEnter
  <2>2. r \in Woken
    BY <1>4, <2>1 DEF UpdateInspector
  <2> QED
    BY <1>4, <2>2 DEF UpdateInspector
<1>5. CASE UNCHANGED vars
  BY <1>5 DEF vars
<1> QED
  BY <1>1, <1>2, <1>3, <1>4, <1>5 DEF Next

\* No UpdateInspector changes the pipeline under a running request.
THEOREM PipelineStable == Spec => []OnePipelinePerRequest
<1>1. Init => OnePipelinePerRequest
  BY DEF Init, OnePipelinePerRequest, Running
<1> QED
  BY <1>1, InitType, StepType, StepPipeline, PTL DEF Spec

-----------------------------------------------------------------------------
(* The outcome                                                             *)

\* A request that still runs has no result, and outside shadow mode it has
\* recorded no block: that is what makes the two justifications inductive.
Undecided ==
    \A r \in Requests :
        status[r] \in {"blocked", "running"} =>
            /\ result[r] = "none"
            /\ ~shadowMode => \A k \in DOMAIN decisions[r] :
                                 decisions[r][k].action # "block"

OutcomeInv == TypeOK /\ Undecided /\ AllowIsJustified /\ BlockIsJustified

\* What one request contributes to OutcomeInv.
Outcome(r, st, res, ds, th) ==
    /\ st \in {"blocked", "running"} =>
          /\ res = "none"
          /\ ~shadowMode => \A k \in DOMAIN ds : ds[k].action # "block"
    /\ res = "allow" =>
          /\ th < ChallengeScore
          /\ \A k \in DOMAIN ds :
                /\ ds[k].action # "rate_limit"
                /\ ~shadowMode => ds[k].action # "block"
    /\ res = "block" =>
          \/ th >= BlockScore
          \/ ds # <<>> /\ ds[Len(ds)].action = "block"

\* The inductive invariant, request by request.
LEMMA OutcomeParts ==
    OutcomeInv <=>
        /\ TypeOK
        /\ \A r \in Requests :
              Outcome(r, status[r], result[r], decisions[r], threat[r])
BY DEF OutcomeInv, Undecided, AllowIsJustified, BlockIsJustified, Outcome

\* Every step of Inspect, its early return and finalDecision keep decisions,
\* score and result of every request in agreement.
LEMMA StepOutcome == OutcomeInv /\ [Next]_vars => OutcomeInv'
<1> SUFFICES ASSUME OutcomeInv, [Next]_vars PROVE OutcomeInv'
  OBVIOUS
<1>s. shadowMode' = shadowMode
  BY DEF Next, RequestStep, Arrive, SkipNil, Inspect, InspectPanics, Finish,
         UpdateLock, UpdateInspector, vars
<1>p. ASSUME \A r \in Requests :
                Outcome(r, status'[r], result'[r], decisions'[r], threat'[r])
      PROVE  OutcomeInv'
  <2>1. TypeOK'
    BY StepType DEF OutcomeInv
  <2>2. Undecided'
    BY <1>p, <1>s DEF Undecided, Outcome
  <2>3. AllowIsJustified'
    BY <1>p, <1>s DEF AllowIsJustified, Outcome
  <2>4. BlockIsJustified'
    BY <1>p DEF BlockIsJustified, Outcome
  <2> QED
    BY <2>1, <2>2, <2>3, <2>4 DEF OutcomeInv
<1> SUFFICES ASSUME NEW r \in Requests
             PROVE  Outcome(r, status'[r], result'[r], decisions'[r], threat'[r])
  BY <1>p
<1> DEFINE Post(q) == Outcome(q, status'[q], result'[q], decisions'[q], threat'[q])
<1>t. TypeOK /\ Outcome(r, status[r], result[r], decisions[r], threat[r])
  BY OutcomeParts DEF OutcomeInv
<1>n. ChallengeScore \in Nat /\ BlockScore \in Nat
      /\ ChallengeScore <= BlockScore
  BY EngineAssumption
\* Nothing of this request changes.
<1>1. ASSUME status'[r] = status[r], result'[r] = result[r],
             decisions'[r] = decisions[r], threat'[r] = threat[r]
      PROVE  Post(r)
  BY <1>1, <1>t DEF Outcome
<1>2. ASSUME NEW q \in Requests, Arrive(q) PROVE Post(r)
  <2>1. CASE q = r
    <3>1. result'[r] = "none" /\ decisions'[r] = <<>>
      BY <1>2, <1>t, <2>1 DEF Arrive, TypeOK
    <3> QED
      BY <3>1 DEF Outcome
  <2>2. CASE q # r
    BY <1>1, <1>2, <1>t, <2>2 DEF Arrive, TypeOK
  <2> QED
    BY <2>1, <2>2
<1>3. ASSUME NEW q \in Requests, SkipNil(q) PROVE Post(r)
  BY <1>1, <1>3 DEF SkipNil
<1>4. ASSUME NEW q \in Requests, NEW d \in Answers, Inspect(q, d) PROVE Post(r)
  <2>1. CASE q # r
    BY <1>1, <1>4, <1>t, <2>1 DEF Inspect, TypeOK
  <2>2. CASE q = r /\ ~Recorded(d)
    <3>1. ~Returns(d)
      BY <2>2, AnswerTypes
    <3> QED
      BY <1>1, <1>4, <2>2, <3>1 DEF Inspect
  <2>3. CASE q = r /\ Recorded(d) /\ Returns(d)
    <3>1. /\ status'[r] = "done" /\ result'[r] = "block"
          /\ decisions'[r] = Append(decisions[r], d)
      BY <1>4, <1>t, <2>3 DEF Inspect, TypeOK
    <3>2. decisions[r] \in Seq(Decision) /\ d \in Decision
      BY <1>t, <2>3, AnswerTypes DEF TypeOK
    <3>3. /\ decisions'[r] # <<>>
          /\ decisions'[r][Len(decisions'[r])] = d
      BY <3>1, <3>2
    <3>4. d.action = "block"
      BY <2>3 DEF Returns
    <3> QED
      BY <3>1, <3>3, <3>4 DEF Outcome
  <2>4. CASE q = r /\ Recorded(d) /\ ~Returns(d)
    <3>1. /\ status'[r] = "running" /\ result'[r] = result[r]
          /\ decisions'[r] = Append(decisions[r], d)
          /\ status[r] = "running"
      BY <1>4, <1>t, <2>4 DEF Inspect, TypeOK
    <3>2. result'[r] = "none"
      BY <1>t, <3>1 DEF Outcome
    <3>3. decisions[r] \in Seq(Decision) /\ d \in Decision
      BY <1>t, <2>4, AnswerTypes DEF TypeOK
    <3>4. ~shadowMode => \A k \in DOMAIN decisions'[r] :
                            decisions'[r][k].action # "block"
      <4> SUFFICES ASSUME ~shadowMode, NEW k \in DOMAIN decisions'[r]
                   PROVE  decisions'[r][k].action # "block"
        OBVIOUS
      <4>1. d.action # "block"
        BY <2>4 DEF Returns
      <4>2. \A j \in DOMAIN decisions[r] : decisions[r][j].action # "block"
        BY <1>t, <3>1 DEF Outcome
      <4>3. k = Len(decisions[r]) + 1 \/ k \in DOMAIN decisions[r]
        BY <3>1, <3>3
      <4> QED
        BY <3>1, <3>3, <4>1, <4>2, <4>3
    <3> QED
      BY <3>1, <3>2, <3>4 DEF Outcome
  <2> QED
    BY <2>1, <2>2, <2>3, <2>4
<1>5. ASSUME NEW q \in Requests, InspectPanics(q) PROVE Post(r)
  <2>1. UNCHANGED <<result, decisions, threat>>
    BY <1>5 DEF InspectPanics, request
  <2>2. status'[r] = status[r] \/ status'[r] = "idle"
    BY <1>5, <1>t DEF InspectPanics, TypeOK
  <2> QED
    BY <1>t, <2>1, <2>2 DEF Outcome
<1>6. ASSUME NEW q \in Requests, Finish(q) PROVE Post(r)
  <2>1. CASE q # r
    BY <1>1, <1>6, <1>t, <2>1 DEF Finish, TypeOK
  <2>2. CASE q = r
    <3> DEFINE ds == decisions[r]  th == threat[r]
    <3>1. /\ status'[r] = "done" /\ decisions'[r] = ds /\ threat'[r] = th
          /\ result'[r] = finalDecision(th, ds)
          /\ status[r] = "running"
      BY <1>6, <1>t, <2>2 DEF Finish, TypeOK
    <3>2. ~shadowMode => \A k \in DOMAIN ds : ds[k].action # "block"
      BY <1>t, <3>1 DEF Outcome
    <3>3. th \in Nat
      BY <1>t DEF TypeOK
    <3>4. finalDecision(th, ds) = "block" => th >= BlockScore
      BY <1>n, <3>3 DEF finalDecision
    <3>5. finalDecision(th, ds) = "allow" =>
             /\ th < ChallengeScore
             /\ \A k \in DOMAIN ds : ds[k].action # "rate_limit"
      BY <1>n, <3>3 DEF finalDecision
    <3> QED
      BY <3>1, <3>2, <3>4, <3>5 DEF Outcome
  <2> QED
    BY <2>1, <2>2
<1>7. ASSUME NEW u \in Updates, UpdateLock(u) PROVE Post(r)
  BY <1>1, <1>7 DEF UpdateLock, request
<1>8. CASE UpdateInspector
  <2>1. UNCHANGED <<result, decisions, threat>>
    BY <1>8 DEF UpdateInspector
  <2>2. \/ status'[r] = status[r]
        \/ status[r] = "blocked" /\ status'[r] = "running"
    BY <1>8 DEF UpdateInspector, Woken
  <2> QED
    BY <1>t, <2>1, <2>2 DEF Outcome
<1>9. CASE UNCHANGED vars
  BY <1>1, <1>9 DEF vars
<1> QED
  BY <1>2, <1>3, <1>4, <1>5, <1>6, <1>7, <1>8, <1>9 DEF Next, RequestStep

\* No request has an outcome when the engine is built.
LEMMA InitOutcome == Init => OutcomeInv
BY InitType DEF Init, OutcomeInv, Undecided, AllowIsJustified, BlockIsJustified

\* Whatever the inspectors answer and however updates interleave, a request
\* that is let through has nothing recorded against it.
THEOREM AllowJustified == Spec => []AllowIsJustified
<1>1. OutcomeInv => AllowIsJustified
  BY DEF OutcomeInv
<1> QED
  BY <1>1, InitOutcome, StepOutcome, PTL DEF Spec

\* A request that is blocked has a recorded cause.
THEOREM BlockJustified == Spec => []BlockIsJustified
<1>1. OutcomeInv => BlockIsJustified
  BY DEF OutcomeInv
<1> QED
  BY <1>1, InitOutcome, StepOutcome, PTL DEF Spec

-----------------------------------------------------------------------------
(* The replacement of an inspector                                         *)

\* A nonempty set of positions has a first one.
LEMMA FirstPosition ==
    ASSUME NEW S \in SUBSET Nat, S # {}
    PROVE  \E k \in S : \A j \in S : ~(j < k)
<1>1. \E k \in S : \A j \in S : <<j, k>> \notin OpToRel(<, Nat)
  BY NatLessThanWellFounded, WFMin
<1> QED
  BY <1>1 DEF OpToRel

\* No update moves a name: each entry keeps the Name() it had, nil entries stay
\* nil, and the update that waits is one of those its name admits.
EffectInv ==
    /\ TypeOK
    /\ DOMAIN inspectors = DOMAIN InitialPipeline
    /\ \A k \in DOMAIN InitialPipeline :
          IF InitialPipeline[k] = Nil THEN inspectors[k] = Nil
          ELSE /\ inspectors[k] # Nil
               /\ NameOf[inspectors[k]] = NameOf[InitialPipeline[k]]
    /\ updating # NoUpdate => updating.inspector \in Replacements[updating.name]
    /\ UpdateTakesEffect

\* So UpdateInspector finds a name where New put it.
LEMMA NamesStay == EffectInv => \A n : Matches(n) = Place(n)
<1> SUFFICES ASSUME EffectInv, NEW n PROVE Matches(n) = Place(n)
  OBVIOUS
<1>1. /\ 1 .. Len(inspectors) = DOMAIN InitialPipeline
      /\ Len(inspectors) \in Nat
  BY DEF EffectInv, TypeOK
<1>2. \A k \in DOMAIN InitialPipeline :
          /\ (inspectors[k] # Nil) <=> (InitialPipeline[k] # Nil)
          /\ InitialPipeline[k] # Nil =>
                 NameOf[inspectors[k]] = NameOf[InitialPipeline[k]]
  BY DEF EffectInv
<1>3. \A k \in DOMAIN InitialPipeline : \A j \in 1 .. k - 1 : j \in DOMAIN InitialPipeline
  BY <1>1
<1> QED
  BY <1>1, <1>2, <1>3 DEF Matches, Place

\* UpdateInspector replaces the entry of its name, if there is one, and keeps the
\* names where they are.
LEMMA StepEffect == EffectInv /\ [Next]_vars => EffectInv'
<1> SUFFICES ASSUME EffectInv, [Next]_vars PROVE EffectInv'
  OBVIOUS
<1>0. TypeOK'
  BY StepType DEF EffectInv
<1>1. CASE UpdateInspector
  <2>1. PICK n \in UpdateNames, i \in Inspectors :
            updating.name = n /\ updating.inspector = i
    BY <1>1 DEF UpdateInspector, EffectInv, TypeOK, Updates
  <2>2. i \in Replacements[n] /\ i # Nil
    BY <1>1, <2>1, EngineAssumption DEF UpdateInspector, EffectInv
  <2>3. Place(n) # {} => NameOf[i] = n
    BY <2>2, NamesAssumption
  <2>4. 1 .. Len(inspectors) = DOMAIN InitialPipeline
    BY DEF EffectInv, TypeOK
  <2>5. /\ inspectors' = [j \in DOMAIN InitialPipeline |->
                            IF j \in Place(n) THEN i ELSE inspectors[j]]
        /\ latest' = [latest EXCEPT ![n] = i] /\ updating' = NoUpdate
    BY <1>1, <2>1, <2>4, NamesStay DEF UpdateInspector, Replaced
  <2>6. \A m \in UpdateNames : latest'[m] = IF m = n THEN i ELSE latest[m]
    BY <2>5 DEF EffectInv, TypeOK
  <2>7. \A k \in Place(n) : /\ k \in DOMAIN InitialPipeline /\ InitialPipeline[k] # Nil
                            /\ NameOf[InitialPipeline[k]] = n
    BY DEF Place
  <2>8. \A m \in UpdateNames, k \in Place(n) : k \in Place(m) => m = n
    BY DEF Place
  <2>9. UpdateTakesEffect'
    <3> SUFFICES ASSUME NEW k \in DOMAIN InitialPipeline
                 PROVE  \/ /\ inspectors'[k] = InitialPipeline[k]
                           /\ \A m \in UpdateNames : k \in Place(m) => latest'[m] = Nil
                        \/ \E m \in UpdateNames :
                             /\ k \in Place(m) /\ latest'[m] # Nil
                             /\ inspectors'[k] = latest'[m]
      BY <2>5 DEF UpdateTakesEffect
    <3>1. CASE k \in Place(n)
      BY <2>2, <2>5, <2>6, <3>1
    <3>2. CASE k \notin Place(n)
      <4>1. inspectors'[k] = inspectors[k]
        BY <2>5, <3>2
      <4>2. \A m \in UpdateNames : k \in Place(m) => latest'[m] = latest[m]
        BY <2>6, <3>2
      <4> QED
        BY <4>1, <4>2 DEF EffectInv, UpdateTakesEffect
    <3> QED
      BY <3>1, <3>2
  <2>10. ASSUME NEW k \in DOMAIN InitialPipeline
         PROVE  IF InitialPipeline[k] = Nil THEN inspectors'[k] = Nil
                ELSE /\ inspectors'[k] # Nil
                     /\ NameOf[inspectors'[k]] = NameOf[InitialPipeline[k]]
    <3>1. CASE k \in Place(n)
      <4>1. inspectors'[k] = i /\ NameOf[i] = n
        BY <2>3, <2>5, <3>1
      <4> QED
        BY <2>2, <2>7, <3>1, <4>1
    <3>2. CASE k \notin Place(n)
      BY <2>5, <3>2 DEF EffectInv
    <3> QED
      BY <3>1, <3>2
  <2> QED
    BY <1>0, <2>5, <2>9, <2>10 DEF EffectInv
<1>2. ASSUME NEW u \in Updates, UpdateLock(u) PROVE EffectInv'
  BY <1>0, <1>2 DEF UpdateLock, EffectInv, UpdateTakesEffect
<1>3. CASE UNCHANGED <<inspectors, updating, latest>>
  BY <1>0, <1>3 DEF EffectInv, UpdateTakesEffect
<1> QED
  BY <1>1, <1>2, <1>3
  DEF Next, RequestStep, Arrive, SkipNil, Inspect, InspectPanics, Finish, vars

\* A replacement reaches the entry that answers to its name, whatever was replaced
\* before, one under another name changes nothing, and no running request sees the
\* pipeline change.
THEOREM PipelineKeeps == Spec => []PipelineConsistent
<1>1. Init => EffectInv
  <2> SUFFICES ASSUME Init PROVE EffectInv
    OBVIOUS
  <2>1. inspectors = InitialPipeline /\ updating = NoUpdate
    BY DEF Init
  <2>2. \A n \in UpdateNames : latest[n] = Nil
    BY DEF Init
  <2> QED
    BY <2>1, <2>2, InitType DEF EffectInv, UpdateTakesEffect
<1>2. EffectInv => UpdateTakesEffect
  BY DEF EffectInv
<1> QED
  BY <1>1, <1>2, StepEffect, PipelineStable, PTL DEF Spec, PipelineConsistent

-----------------------------------------------------------------------------
(* The reference                                                           *)

\* p holds the partial sums of the scores of ds.
Sums(p, ds) ==
    /\ p \in [0 .. Len(ds) -> Nat]
    /\ p = [k \in 0 .. Len(ds) |-> IF k = 0 THEN 0 ELSE p[k - 1] + ds[k].score]

\* The recursive definition of Total has one solution: two of them would differ at a
\* first position, and agree on the one before.
LEMMA TotalIsSum ==
    ASSUME NEW ds \in Seq(Decision), NEW p, Sums(p, ds)
    PROVE  Total(ds) = p[Len(ds)]
<1> DEFINE n == Len(ds)
           Eq(f) == f = [k \in 0 .. n |-> IF k = 0 THEN 0 ELSE f[k - 1] + ds[k].score]
           q == CHOOSE f : Eq(f)
           Differ == {k \in 0 .. n : q[k] # p[k]}
<1> HIDE DEF q
<1>1. n \in Nat
  OBVIOUS
<1>2. Eq(p)
  BY DEF Sums
<1>3. Eq(q)
  BY <1>2 DEF q
<1>4. Differ = {}
  <2> SUFFICES ASSUME Differ # {} PROVE FALSE
    OBVIOUS
  <2>1. PICK k \in Differ : \A j \in Differ : ~(j < k)
    <3>1. Differ \in SUBSET Nat
      BY <1>1
    <3> HIDE DEF Differ
    <3> QED
      BY <3>1, FirstPosition
  <2>2. k \in 0 .. n /\ q[k] # p[k]
    OBVIOUS
  <2>3. k # 0
    BY <1>2, <1>3, <2>2
  <2>4. k - 1 \in 0 .. n /\ k - 1 < k
    BY <1>1, <2>2, <2>3
  <2>5. q[k - 1] = p[k - 1]
    BY <2>1, <2>4
  <2>6. q[k] = q[k - 1] + ds[k].score
    BY <1>3, <2>2, <2>3
  <2>7. p[k] = p[k - 1] + ds[k].score
    BY <1>2, <2>2, <2>3
  <2> QED
    BY <2>2, <2>5, <2>6, <2>7
<1>5. q[n] = p[n]
  BY <1>1, <1>4
<1>6. Total(ds) = q[n]
  BY DEF Total, q
<1> QED
  BY <1>5, <1>6

\* The partial sums go on with every decision that is recorded.
LEMMA SumsAppend ==
    ASSUME NEW ds \in Seq(Decision), NEW d \in Decision, NEW p, Sums(p, ds)
    PROVE  \E q : Sums(q, Append(ds, d)) /\ q[Len(Append(ds, d))] = p[Len(ds)] + d.score
<1> DEFINE n == Len(ds)
           es == Append(ds, d)
           q == [k \in 0 .. n + 1 |-> IF k <= n THEN p[k] ELSE p[n] + d.score]
<1>1. /\ n \in Nat /\ Len(es) = n + 1 /\ es[n + 1] = d
      /\ \A k \in 1 .. n : es[k] = ds[k]
  OBVIOUS
<1>2. /\ p \in [0 .. n -> Nat] /\ p[0] = 0 /\ d.score \in Nat
      /\ \A k \in 1 .. n : p[k] = p[k - 1] + ds[k].score
  <2>1. p \in [0 .. n -> Nat]
    BY DEF Sums
  <2>2. p = [k \in 0 .. n |-> IF k = 0 THEN 0 ELSE p[k - 1] + ds[k].score]
    BY DEF Sums
  <2>3. d.score \in Nat
    BY DEF Decision
  <2>4. p[0] = 0
    BY <1>1, <2>2
  <2>5. ASSUME NEW k \in 1 .. n PROVE p[k] = p[k - 1] + ds[k].score
    <3>1. k \in 0 .. n /\ k # 0
      BY <1>1
    <3> QED
      BY <2>2, <3>1
  <2> QED
    BY <2>1, <2>3, <2>4, <2>5
<1>3. q \in [0 .. n + 1 -> Nat]
  BY <1>1, <1>2
<1>4. ASSUME NEW k \in 0 .. n + 1
      PROVE  q[k] = IF k = 0 THEN 0 ELSE q[k - 1] + es[k].score
  <2>1. CASE k = 0
    BY <1>1, <1>2, <2>1
  <2>2. CASE k \in 1 .. n
    <3>1. q[k] = p[k] /\ q[k - 1] = p[k - 1]
      BY <1>1, <2>2
    <3> QED
      BY <1>1, <1>2, <2>2, <3>1
  <2>3. CASE k = n + 1
    <3>1. q[k] = p[n] + d.score /\ q[k - 1] = p[n]
      BY <1>1, <2>3
    <3> QED
      BY <1>1, <2>3, <3>1
  <2> QED
    BY <1>1, <2>1, <2>2, <2>3
<1>5. q = [k \in 0 .. n + 1 |-> IF k = 0 THEN 0 ELSE q[k - 1] + es[k].score]
  <2> HIDE DEF q, es
  <2>1. DOMAIN q = 0 .. n + 1
    BY <1>3
  <2> DEFINE h == [k \in 0 .. n + 1 |-> IF k = 0 THEN 0 ELSE q[k - 1] + es[k].score]
  <2>2. \A k \in 0 .. n + 1 : q[k] = h[k]
    BY <1>4
  <2> HIDE DEF h
  <2>3. DOMAIN h = 0 .. n + 1
    BY DEF h
  <2>4. h = [k \in DOMAIN h |-> h[k]]
    BY DEF h
  <2>5. q = [k \in DOMAIN q |-> q[k]]
    BY <1>3
  <2>6. q = h
    BY <2>1, <2>2, <2>3, <2>4, <2>5
  <2> QED
    BY <2>6 DEF h
<1>6. Sums(q, es) /\ q[Len(es)] = p[n] + d.score
  <2>1. q[n + 1] = p[n] + d.score
    BY <1>1
  <2> HIDE DEF q, es
  <2>2. n = Len(ds) /\ Len(es) = n + 1
    BY <1>1
  <2> QED
    BY <1>3, <1>5, <2>1, <2>2 DEF Sums
<1> QED
  BY <1>6

\* The threat score of a request is the last of the partial sums.
SumOK(ds, score) == \E p : Sums(p, ds) /\ p[Len(ds)] = score

\* The request has run the inspectors of pl that stand before n, in order.
RunOK(run, pl, n) ==
    /\ \A i, j \in DOMAIN run : i < j => run[i].at < run[j].at
    /\ \A i \in DOMAIN run : /\ run[i].at \in DOMAIN pl /\ run[i].at < n
                             /\ run[i].inspector = pl[run[i].at] /\ pl[run[i].at] # Nil
    /\ \A k \in DOMAIN pl : k < n /\ pl[k] # Nil => \E i \in DOMAIN run : run[i].at = k

\* A block is the last decision, and only a block ends a run before its pipeline does.
EndOK(res, ds, pl, n) ==
    /\ res = Reference(ds)
    /\ ~shadowMode => \A k \in DOMAIN ds : ds[k].action = "block" => k = Len(ds)
    /\ n > Len(pl) \/ (~shadowMode /\ \E k \in DOMAIN ds : ds[k].action = "block")

\* What the reference needs of one request: where it is, what it recorded and what it ran.
RequestOK(st, n, ds, score, res, pl, run) ==
    /\ SumOK(ds, score)
    /\ st = "blocked" => n = 1 /\ run = <<>>
    /\ st \in {"running", "done"} => RunOK(run, pl, n)
    /\ st = "done" => EndOK(res, ds, pl, n)

ReferenceInv ==
    /\ OutcomeInv
    /\ OnePipelinePerRequest
    /\ \A r \in Requests : RequestOK(status[r], next[r], decisions[r], threat[r], result[r],
                                     pipeline[r], ran[r])

\* A request that has done nothing has run everything before the first inspector.
LEMMA NothingRun ==
    ASSUME NEW pl \in Seq(Inspectors \cup {Nil})
    PROVE  RunOK(<<>>, pl, 1) /\ SumOK(<<>>, 0)
<1>1. RunOK(<<>>, pl, 1)
  BY DEF RunOK
<1>2. Sums([k \in 0 .. 0 |-> 0], <<>>)
  BY DEF Sums
<1>3. [k \in 0 .. 0 |-> 0][Len(<<>>)] = 0
  OBVIOUS
<1> QED
  BY <1>1, <1>2, <1>3 DEF SumOK

\* The next inspector, at the place the request has reached.
LEMMA OneMoreRun ==
    ASSUME NEW pl \in Seq(Inspectors \cup {Nil}), NEW n \in 1 .. Len(pl), pl[n] # Nil,
           NEW run \in Seq(Run), RunOK(run, pl, n)
    PROVE  RunOK(Append(run, [at |-> n, inspector |-> pl[n]]), pl, n + 1)
<1> DEFINE e == [at |-> n, inspector |-> pl[n]]
           new == Append(run, e)
           m == Len(run)
<1>1. e.at = n /\ e.inspector = pl[n] /\ n \in DOMAIN pl /\ n \in Nat /\ pl[n] \in Inspectors
  <2>1. n \in DOMAIN pl /\ n \in Nat
    OBVIOUS
  <2>2. pl[n] \in Inspectors
    BY <2>1
  <2> QED
    BY <2>1, <2>2
<1>2. /\ m \in Nat /\ DOMAIN run = 1 .. m /\ Len(new) = m + 1 /\ DOMAIN new = 1 .. m + 1
      /\ new[m + 1] = e /\ \A i \in 1 .. m : new[i] = run[i]
  <2>1. e \in Run
    BY <1>1 DEF Run
  <2> HIDE DEF e
  <2> QED
    BY <2>1
<1>3. new[m + 1] = e /\ \A i \in 1 .. m : new[i] = run[i]
  BY <1>2
<1>4. ASSUME NEW i \in 1 .. m PROVE run[i].at \in Nat
  <2>1. run[i] \in Run
    BY <1>2
  <2> QED
    BY <2>1 DEF Run
<1> HIDE DEF new, e
<1>5. ASSUME NEW i \in DOMAIN new, NEW j \in DOMAIN new, i < j
      PROVE  new[i].at < new[j].at
  <2>1. i \in 1 .. m
    BY <1>2, <1>5
  <2>2. CASE j \in 1 .. m
    BY <1>2, <1>3, <1>5, <2>1, <2>2 DEF RunOK
  <2>3. CASE j = m + 1
    BY <1>1, <1>2, <1>3, <2>1, <2>3 DEF RunOK
  <2> QED
    BY <1>2, <2>2, <2>3
<1>6. ASSUME NEW i \in DOMAIN new
      PROVE  /\ new[i].at \in DOMAIN pl /\ new[i].at < n + 1
             /\ new[i].inspector = pl[new[i].at] /\ pl[new[i].at] # Nil
  <2>1. CASE i \in 1 .. m
    <3>1. /\ run[i].at \in DOMAIN pl /\ run[i].at < n
          /\ run[i].inspector = pl[run[i].at] /\ pl[run[i].at] # Nil
      BY <1>2, <2>1 DEF RunOK
    <3> QED
      BY <1>1, <1>3, <1>4, <2>1, <3>1
  <2>2. CASE i = m + 1
    BY <1>1, <1>3, <2>2
  <2> QED
    BY <1>2, <2>1, <2>2
<1>7. ASSUME NEW k \in DOMAIN pl, k < n + 1, pl[k] # Nil
      PROVE  \E i \in DOMAIN new : new[i].at = k
  <2>1. CASE k = n
    BY <1>1, <1>2, <1>3, <2>1
  <2>2. CASE k < n
    <3>1. PICK i \in 1 .. m : run[i].at = k
      BY <1>2, <1>7, <2>2 DEF RunOK
    <3> QED
      BY <1>2, <1>3, <3>1
  <2> QED
    BY <1>1, <1>7, <2>1, <2>2
<1> QED
  BY <1>5, <1>6, <1>7 DEF RunOK, new, e

\* A nil entry is nothing to run.
LEMMA NilSkipped ==
    ASSUME NEW pl \in Seq(Inspectors \cup {Nil}), NEW n \in 1 .. Len(pl), pl[n] = Nil,
           NEW run \in Seq(Run), RunOK(run, pl, n)
    PROVE  RunOK(run, pl, n + 1)
<1>1. ASSUME NEW k \in DOMAIN pl, k < n + 1, pl[k] # Nil PROVE k < n
  <2>1. k \in Nat /\ n \in Nat /\ k # n
    BY <1>1
  <2> QED
    BY <1>1, <2>1
<1>2. ASSUME NEW i \in DOMAIN run PROVE run[i].at \in Nat
  <2>1. run[i] \in Run
    OBVIOUS
  <2> QED
    BY <2>1 DEF Run
<1>3. \A i \in DOMAIN run : run[i].at < n + 1
  BY <1>2 DEF RunOK
<1> QED
  BY <1>1, <1>3 DEF RunOK

\* finalDecision is the reference when no block has ended the run.
LEMMA FinalIsReference ==
    ASSUME NEW ds \in Seq(Decision), NEW score \in Nat, SumOK(ds, score),
           ~shadowMode => \A k \in DOMAIN ds : ds[k].action # "block"
    PROVE  finalDecision(score, ds) = Reference(ds) /\ score = Total(ds)
<1>1. score = Total(ds)
  BY TotalIsSum DEF SumOK
<1>2. ChallengeScore \in Nat /\ BlockScore \in Nat /\ ChallengeScore <= BlockScore
  BY EngineAssumption
<1>3. ~(~shadowMode /\ \E k \in DOMAIN ds : ds[k].action = "block")
  OBVIOUS
<1>4. Reference(ds) = IF score >= BlockScore THEN "block"
                      ELSE IF score >= ChallengeScore THEN "challenge"
                      ELSE IF \E k \in DOMAIN ds : ds[k].action = "rate_limit"
                      THEN "rate_limit" ELSE "allow"
  BY <1>1, <1>3 DEF Reference
<1> QED
  BY <1>1, <1>2, <1>4 DEF finalDecision

\* What Inspect does to its own request, with the answer recorded or passed over.
LEMMA InspectKeeps ==
    ASSUME ReferenceInv, NEW r \in Requests, NEW d \in Answers, Inspect(r, d)
    PROVE  RequestOK(status[r], next[r], decisions[r], threat[r], result[r], pipeline[r], ran[r])'
<1> DEFINE ds == decisions[r]  n == next[r]  pl == pipeline[r]
<1>1. /\ TypeOK /\ ds \in Seq(Decision) /\ threat[r] \in Nat /\ pl \in Seq(Inspectors \cup {Nil})
      /\ n \in Nat \ {0} /\ ran[r] \in Seq(Run) /\ result \in [Requests -> Actions \cup {"none"}]
  BY DEF ReferenceInv, OutcomeInv, TypeOK
<1>2. status[r] = "running" /\ inspectors = pl /\ n \in 1 .. Len(pl) /\ pl[n] # Nil
  BY <1>1 DEF Inspect, ReferenceInv, OnePipelinePerRequest, Running
<1>3. /\ pipeline'[r] = pl /\ next'[r] = n + 1
      /\ ran'[r] = Append(ran[r], [at |-> n, inspector |-> pl[n]])
  BY <1>1, <1>2 DEF Inspect, TypeOK
<1>4. SumOK(ds, threat[r]) /\ RunOK(ran[r], pl, n)
  BY <1>2 DEF ReferenceInv, RequestOK
<1>5. RunOK(ran'[r], pipeline'[r], next'[r])
  BY <1>1, <1>2, <1>3, <1>4, OneMoreRun
<1>6. ~shadowMode => \A k \in DOMAIN ds : ds[k].action # "block"
  BY <1>2 DEF ReferenceInv, OutcomeInv, Undecided
<1>7. SumOK(decisions'[r], threat'[r])
  <2>1. CASE Recorded(d)
    <3>1. decisions'[r] = Append(ds, d) /\ threat'[r] = threat[r] + d.score
      BY <1>1, <2>1 DEF Inspect, TypeOK
    <3>2. d \in Decision
      BY <2>1, AnswerTypes
    <3> QED
      BY <1>1, <1>4, <3>1, <3>2, SumsAppend, SMTT(30) DEF SumOK
  <2>2. CASE ~Recorded(d)
    BY <1>4, <2>2 DEF Inspect
  <2> QED
    BY <2>1, <2>2
<1>8. CASE Returns(d)
  <2>1. /\ status'[r] = "done" /\ result'[r] = "block" /\ decisions'[r] = Append(ds, d)
        /\ d \in Decision /\ d.action = "block" /\ ~shadowMode /\ shadowMode' = shadowMode
    BY <1>1, <1>8, AnswerTypes DEF Inspect, TypeOK, Returns
  <2>0. PICK es \in Seq(Decision) : es = Append(ds, d) /\ decisions'[r] = es
    <3>1. Append(ds, d) \in Seq(Decision)
      BY <1>1, <2>1
    <3> QED
      BY <2>1, <3>1, Zenon
  <2>2. /\ Len(es) = Len(ds) + 1 /\ DOMAIN es = 1 .. Len(ds) + 1 /\ es[Len(ds) + 1] = d
        /\ \A k \in 1 .. Len(ds) : es[k] = ds[k] /\ k \in DOMAIN ds
        /\ Len(ds) \in Nat
    BY <1>1, <2>0, <2>1
  <2>3. \E k \in DOMAIN es : es[k].action = "block"
    BY <2>1, <2>2
  <2>4. \A k \in DOMAIN es : es[k].action = "block" => k = Len(es)
    BY <1>6, <2>1, <2>2
  <2>5. Reference(decisions[r])' = "block"
    BY <2>0, <2>1, <2>3 DEF Reference
  <2>6. EndOK(result[r], decisions[r], pipeline[r], next[r])'
    BY <2>0, <2>1, <2>3, <2>4, <2>5 DEF EndOK
  <2> QED
    BY <1>5, <1>7, <2>1, <2>6 DEF RequestOK
<1>9. CASE ~Returns(d)
  <2>1. status'[r] = "running"
    BY <1>2, <1>9 DEF Inspect
  <2> QED
    BY <1>5, <1>7, <2>1 DEF RequestOK
<1> QED
  BY <1>8, <1>9

\* Every step of Inspect, its early return and finalDecision agree with the reference,
\* and the write lock keeps the pipeline from changing under a request.
LEMMA StepReference == ReferenceInv /\ [Next]_vars => ReferenceInv'
<1> SUFFICES ASSUME ReferenceInv, [Next]_vars PROVE ReferenceInv'
  OBVIOUS
<1>t. TypeOK /\ OutcomeInv' /\ OnePipelinePerRequest'
  BY StepOutcome, StepPipeline DEF ReferenceInv, OutcomeInv
<1>s. shadowMode' = shadowMode
  BY DEF Next, RequestStep, Arrive, SkipNil, Inspect, InspectPanics, Finish,
         UpdateLock, UpdateInspector, vars
<1> DEFINE OK(r) == RequestOK(status[r], next[r], decisions[r], threat[r], result[r],
                              pipeline[r], ran[r])
<1> SUFFICES ASSUME NEW r \in Requests PROVE OK(r)'
  BY <1>t DEF ReferenceInv
<1>o. OK(r)
  BY DEF ReferenceInv
<1>y. /\ decisions[r] \in Seq(Decision) /\ threat[r] \in Nat /\ next[r] \in Nat \ {0}
      /\ pipeline[r] \in Seq(Inspectors \cup {Nil}) /\ ran[r] \in Seq(Run)
      /\ inspectors \in Seq(Inspectors \cup {Nil})
  BY <1>t DEF TypeOK
<1>e. ASSUME NEW res, NEW ds, NEW pl, NEW n, EndOK(res, ds, pl, n) PROVE EndOK(res, ds, pl, n)'
  BY <1>s, <1>e DEF EndOK, Reference
\* Nothing of this request changes.
<1>1. ASSUME status'[r] = status[r], next'[r] = next[r], decisions'[r] = decisions[r],
             threat'[r] = threat[r], result'[r] = result[r], pipeline'[r] = pipeline[r],
             ran'[r] = ran[r]
      PROVE  OK(r)'
  <2>1. status[r] = "done" => EndOK(result[r], decisions[r], pipeline[r], next[r])'
    BY <1>e, <1>o, <1>s, <1>1 DEF RequestOK, EndOK, Reference
  <2> QED
    BY <1>o, <1>1, <2>1 DEF RequestOK
<1>2. ASSUME NEW q \in Requests, Arrive(q) PROVE OK(r)'
  <2>1. CASE q = r
    <3>1. /\ status'[r] \in {"running", "blocked"} /\ next'[r] = 1 /\ decisions'[r] = <<>>
          /\ threat'[r] = 0 /\ pipeline'[r] = inspectors /\ ran'[r] = <<>>
      BY <1>t, <1>2, <2>1 DEF Arrive, RLock, TypeOK
    <3> QED
      BY <1>y, <3>1, NothingRun DEF RequestOK
  <2>2. CASE q # r
    BY <1>t, <1>1, <1>2, <2>2 DEF Arrive, TypeOK
  <2> QED
    BY <2>1, <2>2
<1>3. ASSUME NEW q \in Requests, SkipNil(q) PROVE OK(r)'
  <2>1. CASE q = r
    <3>1. /\ status[r] = "running" /\ status'[r] = "running" /\ inspectors = pipeline[r]
          /\ next[r] \in 1 .. Len(pipeline[r]) /\ pipeline[r][next[r]] = Nil
          /\ next'[r] = next[r] + 1
          /\ UNCHANGED <<decisions, threat, pipeline, ran>>
      BY <1>t, <1>y, <1>3, <2>1 DEF SkipNil, TypeOK, ReferenceInv, OnePipelinePerRequest, Running
    <3>2. RunOK(ran[r], pipeline[r], next[r] + 1)
      BY <1>o, <1>y, <3>1, NilSkipped DEF RequestOK
    <3> QED
      BY <1>o, <3>1, <3>2 DEF RequestOK
  <2>2. CASE q # r
    BY <1>t, <1>1, <1>3, <2>2 DEF SkipNil, TypeOK
  <2> QED
    BY <2>1, <2>2
<1>4. ASSUME NEW q \in Requests, NEW d \in Answers, Inspect(q, d) PROVE OK(r)'
  <2>1. CASE q = r
    BY <1>4, <2>1, InspectKeeps
  <2>2. CASE q # r
    BY <1>t, <1>1, <1>4, <2>2 DEF Inspect, TypeOK
  <2> QED
    BY <2>1, <2>2
<1>5. ASSUME NEW q \in Requests, InspectPanics(q) PROVE OK(r)'
  <2>1. CASE q = r
    <3>1. status'[r] = "idle" /\ UNCHANGED <<decisions, threat>>
      BY <1>t, <1>5, <2>1 DEF InspectPanics, TypeOK, request
    <3> QED
      BY <1>o, <3>1 DEF RequestOK
  <2>2. CASE q # r
    BY <1>t, <1>1, <1>5, <2>2 DEF InspectPanics, TypeOK, request
  <2> QED
    BY <2>1, <2>2
<1>6. ASSUME NEW q \in Requests, Finish(q) PROVE OK(r)'
  <2>1. CASE q = r
    <3> DEFINE ds == decisions[r]
    <3>1. /\ status[r] = "running" /\ status'[r] = "done" /\ inspectors = pipeline[r]
          /\ next[r] > Len(pipeline[r])
          /\ result'[r] = finalDecision(threat[r], ds)
          /\ UNCHANGED <<decisions, threat, pipeline, ran, next>>
      BY <1>t, <1>y, <1>6, <2>1 DEF Finish, TypeOK, ReferenceInv, OnePipelinePerRequest, Running
    <3>2. ~shadowMode => \A k \in DOMAIN ds : ds[k].action # "block"
      BY <3>1 DEF ReferenceInv, OutcomeInv, Undecided
    <3>3. SumOK(ds, threat[r]) /\ RunOK(ran[r], pipeline[r], next[r])
      BY <1>o, <3>1 DEF RequestOK
    <3>4. result'[r] = Reference(ds)
      BY <1>y, <3>1, <3>2, <3>3, FinalIsReference
    <3>5. EndOK(result'[r], ds, pipeline[r], next[r])
      BY <3>1, <3>2, <3>4 DEF EndOK
    <3>6. EndOK(result[r], decisions[r], pipeline[r], next[r])'
      BY <1>s, <3>1, <3>5 DEF EndOK, Reference
    <3> QED
      BY <3>1, <3>3, <3>6 DEF RequestOK
  <2>2. CASE q # r
    BY <1>t, <1>1, <1>6, <2>2 DEF Finish, TypeOK
  <2> QED
    BY <2>1, <2>2
<1>7. ASSUME NEW u \in Updates, UpdateLock(u) PROVE OK(r)'
  BY <1>1, <1>7 DEF UpdateLock, request
<1>8. CASE UpdateInspector
  <2>1. UNCHANGED <<next, decisions, threat, result, ran>>
    BY <1>8 DEF UpdateInspector
  <2>2. CASE r \in Woken
    <3>1. /\ status[r] = "blocked" /\ status'[r] = "running"
          /\ pipeline'[r] \in Seq(Inspectors \cup {Nil})
      BY <1>t, <1>8, <2>2 DEF UpdateInspector, Woken, OutcomeInv, TypeOK
    <3>2. next[r] = 1 /\ ran[r] = <<>>
      BY <1>o, <3>1 DEF RequestOK
    <3>3. RunOK(ran'[r], pipeline'[r], next'[r])
      BY <2>1, <3>1, <3>2, NothingRun
    <3> QED
      BY <1>o, <2>1, <3>1, <3>3 DEF RequestOK
  <2>3. CASE r \notin Woken
    <3>1. status'[r] = status[r] /\ pipeline'[r] = pipeline[r]
      BY <1>8, <2>3 DEF UpdateInspector
    <3> QED
      BY <1>1, <2>1, <3>1
  <2> QED
    BY <2>2, <2>3
<1>9. CASE UNCHANGED vars
  BY <1>1, <1>9 DEF vars
<1> QED
  BY <1>2, <1>3, <1>4, <1>5, <1>6, <1>7, <1>8, <1>9 DEF Next, RequestStep

\* For every pipeline, every set of concurrent requests and every answer, the action
\* Inspect returns is the one the reference gives for the recorded decisions, and every
\* inspector of one version of the pipeline ran, in its order, up to the first block.
THEOREM OutcomeRight == Spec => []OutcomeMatchesReference
<1>1. Init => ReferenceInv
  <2> SUFFICES ASSUME Init PROVE ReferenceInv
    OBVIOUS
  <2>1. OutcomeInv /\ OnePipelinePerRequest
    BY InitOutcome DEF Init, OnePipelinePerRequest, Running
  <2>2. SumOK(<<>>, 0)
    BY NothingRun, EngineAssumption
  <2>3. \A r \in Requests : status[r] = "idle" /\ decisions[r] = <<>> /\ threat[r] = 0
    BY DEF Init
  <2> QED
    BY <2>1, <2>2, <2>3 DEF ReferenceInv, RequestOK
<1>2. ReferenceInv => OutcomeMatchesReference
  <2> SUFFICES ASSUME ReferenceInv PROVE OutcomeMatchesReference
    OBVIOUS
  <2>1. ASSUME NEW r \in Requests, status[r] = "done"
        PROVE  /\ SumOK(decisions[r], threat[r]) /\ RunOK(ran[r], pipeline[r], next[r])
               /\ EndOK(result[r], decisions[r], pipeline[r], next[r])
               /\ decisions[r] \in Seq(Decision) /\ pipeline[r] \in Seq(Inspectors \cup {Nil})
               /\ ran[r] \in Seq(Run) /\ next[r] \in Nat
    BY <2>1 DEF ReferenceInv, RequestOK, OutcomeInv, TypeOK
  <2>2. ASSUME NEW r \in Requests, status[r] = "done"
        PROVE  LET ds == decisions[r]
                   blocks == {k \in DOMAIN ds : ds[k].action = "block"}
                   due == {k \in DOMAIN pipeline[r] : pipeline[r][k] # Nil}
                   met == {ran[r][i].at : i \in DOMAIN ran[r]}
               IN  /\ met \subseteq due
                   /\ \A k \in due, m \in met : k < m => k \in met
                   /\ (shadowMode \/ blocks = {}) => met = due
                   /\ ~shadowMode => blocks \subseteq {Len(ds)}
    <3> DEFINE ds == decisions[r]
               blocks == {k \in DOMAIN ds : ds[k].action = "block"}
               due == {k \in DOMAIN pipeline[r] : pipeline[r][k] # Nil}
               met == {ran[r][i].at : i \in DOMAIN ran[r]}
    <3>1. met = {k \in due : k < next[r]}
      <4>1. RunOK(ran[r], pipeline[r], next[r])
        BY <2>1, <2>2
      <4>2. ASSUME NEW i \in DOMAIN ran[r] PROVE ran[r][i].at \in due /\ ran[r][i].at < next[r]
        BY <4>1 DEF RunOK
      <4>3. ASSUME NEW k \in due, k < next[r] PROVE k \in met
        BY <4>1, <4>3 DEF RunOK
      <4> QED
        BY <4>2, <4>3
    <3>2. \A k \in due : k \in Nat /\ k <= Len(pipeline[r])
      BY <2>1, <2>2
    <3> HIDE DEF met, due
    <3>3. \A k \in due, m \in met : k < m => k \in met
      BY <2>1, <2>2, <3>1, <3>2
    <3>4. (shadowMode \/ blocks = {}) => met = due
      <4> SUFFICES ASSUME shadowMode \/ blocks = {} PROVE met = due
        OBVIOUS
      <4>1. next[r] > Len(pipeline[r])
        BY <2>1, <2>2 DEF EndOK
      <4>2. Len(pipeline[r]) \in Nat
        BY <2>1, <2>2
      <4> QED
        BY <2>1, <2>2, <3>1, <3>2, <4>1, <4>2
    <3>5. ~shadowMode => blocks \subseteq {Len(ds)}
      BY <2>1, <2>2 DEF EndOK
    <3> QED
      BY <3>1, <3>3, <3>4, <3>5 DEF met, due
  <2>3. ASSUME NEW r \in Requests, status[r] = "done"
        PROVE  /\ result[r] = Reference(decisions[r]) /\ threat[r] = Total(decisions[r])
               /\ \A i, j \in DOMAIN ran[r] : i < j => ran[r][i].at < ran[r][j].at
               /\ \A i \in DOMAIN ran[r] : ran[r][i].inspector = pipeline[r][ran[r][i].at]
    BY <2>1, <2>3, TotalIsSum DEF EndOK, RunOK, SumOK
  <2> QED
    BY <2>2, <2>3 DEF OutcomeMatchesReference
<1> QED
  BY <1>1, <1>2, StepReference, PTL DEF Spec
=============================================================================
