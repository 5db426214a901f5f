-------------------------- MODULE WafHandlerProofs --------------------------
(***************************************************************************)
(* Theorems about WafHandler for any number of connections, sites,         *)
(* requests and reloads.                                                   *)
(***************************************************************************)
EXTENDS WafHandler, FiniteSetTheorems, SequenceTheorems, WellFoundedInduction, TLAPS

\* A non-empty set of naturals has a least element.
LEMMA Least ==
    ASSUME NEW T \in SUBSET Nat, T # {}
    PROVE  \E x \in T : \A y \in T : x <= y
<1> DEFINE R == OpToRel(<, Nat)
<1>1. IsWellFoundedOn(R, Nat)
  BY NatLessThanWellFounded
<1>2. \A x, y \in Nat : <<y, x>> \in R <=> y < x
  BY DEF OpToRel
<1> HIDE DEF R
<1>3. PICK x \in T : \A y \in T : <<y, x>> \notin R
  BY <1>1, WFMin
<1>4. ASSUME NEW y \in T PROVE x <= y
  <2>1. x \in Nat /\ y \in Nat
    OBVIOUS
  <2>2. ~(y < x)
    BY <1>2, <1>3, <2>1
  <2> QED
    BY <2>1, <2>2
<1> QED
  BY <1>4

\* A set of positions of a sequence, if not empty, has a first and a last.
LEMMA Ends ==
    ASSUME NEW n \in Nat, NEW T \in SUBSET (1 .. n), T # {}
    PROVE  /\ \E x \in T : \A y \in T : x <= y
           /\ \E x \in T : \A y \in T : y <= x
<1>1. \E x \in T : \A y \in T : x <= y
  <2>1. T \in SUBSET Nat
    OBVIOUS
  <2> QED
    BY <2>1, Least
<1>2. \E x \in T : \A y \in T : y <= x
  <2> DEFINE U == {n - x : x \in T}
  <2>0. \A x \in T : x \in Nat /\ x <= n /\ n - x \in Nat
    OBVIOUS
  <2>1. U \in SUBSET Nat /\ U # {}
    BY <2>0
  <2>2. PICK u \in U : \A v \in U : u <= v
    BY <2>1, Least
  <2>3. PICK x \in T : u = n - x
    BY <2>2
  <2>4. \A y \in T : n - x <= n - y
    BY <2>2, <2>3
  <2>5. \A y \in T : y <= x
    BY <2>0, <2>4
  <2> QED
    BY <2>5
<1> QED
  BY <1>1, <1>2

\* The entries of a configuration are sites.
LEMMA Entry ==
    ASSUME NEW c \in Seq(Site), NEW i \in DOMAIN c
    PROVE  c[i] \in Site /\ c[i].name \in Names
<1>1. i \in 1 .. Len(c)
  OBVIOUS
<1>2. c[i] \in Site
  BY <1>1, ElementOfSeq
<1> QED
  BY <1>2 DEF Site

\* What the two loops of newWAFHandler leave in h.proxies.
LEMMA BuiltFacts ==
    ASSUME NEW c \in Seq(Site), NEW n \in Names,
           NEW px \in [Names -> Parsable \cup {None}]
    PROVE  /\ BuiltAll(c)[n] \in Parsable \cup {None}
           /\ BuiltNew(px, c)[n] \in Parsable \cup {None}
           /\ px[n] # None => BuiltNew(px, c)[n] # None
           /\ Buildable(c, n) # {} => /\ BuiltAll(c)[n] # None
                                     /\ BuiltNew(px, c)[n] # None
<1> DEFINE T == Buildable(c, n)
<1>0. None \notin Parsable
  BY HandlerAssumption
<1>1. T \in SUBSET (1 .. Len(c)) /\ Len(c) \in Nat
  BY DEF Buildable
<1>2. \A i \in T : c[i].upstream \in Parsable
  BY DEF Buildable
<1>3. CASE T = {}
  <2>1. BuiltAll(c)[n] = None /\ BuiltNew(px, c)[n] = px[n]
    BY <1>3 DEF BuiltAll, BuiltNew
  <2> QED
    BY <1>3, <2>1
<1>4. CASE T # {}
  <2> DEFINE first == CHOOSE i \in T : \A j \in T : i <= j
             last == CHOOSE i \in T : \A j \in T : j <= i
  <2>1. first \in T /\ last \in T
    <3> HIDE DEF T
    <3> QED
      BY <1>1, <1>4, Ends
  <2>2. BuiltAll(c)[n] = c[last].upstream
    BY <1>4 DEF BuiltAll
  <2>3. BuiltNew(px, c)[n] = IF px[n] # None THEN px[n] ELSE c[first].upstream
    BY <1>4 DEF BuiltNew
  <2>4. c[first].upstream \in Parsable /\ c[last].upstream \in Parsable
    BY <1>2, <2>1
  <2> HIDE DEF T, first, last
  <2> QED
    BY <1>0, <2>2, <2>3, <2>4
<1> QED
  BY <1>3, <1>4

\* The site a request selects is a site of the configuration.
LEMMA SelectedType ==
    ASSUME NEW c \in Seq(Site), NEW d
    PROVE  Selected(c, d) \in Site \cup {None}
<1> DEFINE hits == {i \in DOMAIN c : d \in c[i].domains}
<1>1. CASE c = <<>>
  BY <1>1 DEF Selected
<1>2. CASE c # <<>> /\ hits = {}
  <2>1. Selected(c, d) = c[1]
    BY <1>2 DEF Selected
  <2>2. Len(c) \in Nat \ {0}
    BY <1>2, EmptySeq
  <2>3. 1 \in 1 .. Len(c)
    BY <2>2
  <2> QED
    BY <2>1, <2>3, ElementOfSeq
<1>3. CASE c # <<>> /\ hits # {}
  <2> DEFINE i == CHOOSE k \in hits : \A j \in hits : k <= j
  <2>1. Selected(c, d) = c[i]
    BY <1>3 DEF Selected
  <2>2. hits \in SUBSET (1 .. Len(c)) /\ Len(c) \in Nat
    OBVIOUS
  <2> HIDE DEF hits
  <2>3. i \in hits
    BY <1>3, <2>2, Ends
  <2> HIDE DEF i
  <2>4. c[i] \in Site
    BY <2>2, <2>3, ElementOfSeq
  <2> QED
    BY <2>1, <2>4
<1> QED
  BY <1>1, <1>2, <1>3

\* The live configuration is a sequence of sites.
LEMMA ConfigType == TypeOK => config \in Seq(Site)
BY HandlerAssumption DEF TypeOK

-----------------------------------------------------------------------------
(* Types                                                                   *)

\* newWAFHandler builds well-typed state.
LEMMA InitType == Init => TypeOK
<1> SUFFICES ASSUME Init PROVE TypeOK
  OBVIOUS
<1> USE HandlerAssumption
<1>1. proxies \in [Names -> Parsable \cup {None}]
  <2>1. [n \in Names |-> None] \in [Names -> Parsable \cup {None}]
    OBVIOUS
  <2>2. \A n \in Names : BuiltAll(Initial)[n] \in Parsable \cup {None}
    BY <2>1, BuiltFacts
  <2>3. BuiltAll(Initial) = [n \in Names |-> BuiltAll(Initial)[n]]
    BY DEF BuiltAll
  <2> QED
    BY <2>2, <2>3 DEF Init
<1>2. known \subseteq Names \X Upstreams
  <2>1. \A i \in DOMAIN Initial : Initial[i] \in Site
    BY ElementOfSeq
  <2> QED
    BY <2>1 DEF Init, Said, Site
<1>3. counts \in [Counters -> Nat]
  BY DEF Init
<1>4. /\ config \in Configs \cup {Initial}
      /\ callback \in [Reloaders -> Configs \cup {None}]
      /\ mu \in Conns \cup Reloaders \cup {None}
      /\ reloads \in 0 .. MaxReloads /\ total \in 0 .. MaxRequests
      /\ active \in Int /\ uncounted \in Nat
  BY DEF Init
<1>5. /\ pc \in [Conns -> PCs] /\ site \in [Conns -> Site \cup {None}]
      /\ verdict \in [Conns -> Verdicts \cup {"none"}]
      /\ target \in [Conns -> Parsable \cup {None}]
      /\ \A r \in Conns : pc[r] = "idle"
  BY DEF Init, PCs
<1> QED
  BY <1>1, <1>2, <1>3, <1>4, <1>5 DEF TypeOK

\* Every step of ServeHTTP, forwardRequest and the OnChange callback keeps the
\* types.
LEMMA StepType == TypeOK /\ [Next]_vars => TypeOK'
<1> SUFFICES ASSUME TypeOK, [Next]_vars PROVE TypeOK'
  OBVIOUS
<1> USE HandlerAssumption DEF TypeOK
<1>1. ASSUME NEW p \in Reloaders, NEW c \in Configs, Reload(p, c) PROVE TypeOK'
  <2>1. c \in Seq(Site) /\ \A i \in DOMAIN c : c[i] \in Site
    BY ElementOfSeq
  <2>2. Said(c) \subseteq Names \X Upstreams
    BY <2>1 DEF Said, Site
  <2>3. reloads' \in 0 .. MaxReloads
    BY <1>1 DEF Reload
  <2>4. callback' \in [Reloaders -> Configs \cup {None}]
    BY <1>1 DEF Reload
  <2> QED
    BY <1>1, <2>1, <2>2, <2>3, <2>4 DEF Reload, reqVars, statVars
<1>2. ASSUME NEW p \in Reloaders, OnChange(p) PROVE TypeOK'
  <2>1. callback[p] \in Seq(Site)
    BY <1>2 DEF OnChange
  <2>2. \A n \in Names : BuiltNew(proxies, callback[p])[n] \in Parsable \cup {None}
    BY <2>1, BuiltFacts
  <2>3. BuiltNew(proxies, callback[p]) =
            [n \in Names |-> BuiltNew(proxies, callback[p])[n]]
    BY DEF BuiltNew
  <2>4. proxies' \in [Names -> Parsable \cup {None}]
    BY <1>2, <2>2, <2>3 DEF OnChange
  <2>5. callback' \in [Reloaders -> Configs \cup {None}]
    BY <1>2 DEF OnChange
  <2> QED
    BY <1>2, <2>4, <2>5 DEF OnChange, reqVars, statVars
<1>3. ASSUME NEW r \in Conns, Arrive(r) PROVE TypeOK'
  BY <1>3 DEF Arrive, Go, PCs
<1>4. ASSUME NEW r \in Conns, NEW d \in Domains, Route(r, d) PROVE TypeOK'
  <2> DEFINE s == Selected(config, d)
  <2>1. s \in Site \cup {None}
    BY ConfigType, SelectedType
  <2> HIDE DEF s
  <2>2. site' = [site EXCEPT ![r] = s]
    BY <1>4 DEF Route, s
  <2>3. CASE s = None
    <3>1. pc' = [pc EXCEPT ![r] = "return"] /\ uncounted' = uncounted
      BY <1>4, <2>3 DEF Route, s, Go
    <3>2. counts' \in [Counters -> Nat]
      BY <1>4, <2>3 DEF Route, s, Count, Counters
    <3> QED
      BY <1>4, <2>1, <2>2, <3>1, <3>2 DEF Route, PCs
  <2>4. CASE s # None
    <3>1. /\ pc' = [pc EXCEPT ![r] = "inspect"] \/ pc' = [pc EXCEPT ![r] = "forward"]
          /\ uncounted' \in Nat /\ counts' = counts
      BY <1>4, <2>4 DEF Route, s, Go, NoCount
    <3>2. site'[r] \in Site /\ \A q \in Conns \ {r} : site'[q] = site[q]
      BY <2>1, <2>2, <2>4
    <3>3. pc' \in [Conns -> PCs] /\ \A q \in Conns \ {r} : pc'[q] = pc[q]
      BY <3>1 DEF PCs
    <3>4. site' \in [Conns -> Site \cup {None}]
      BY <2>1, <2>2
    <3>5. \A q \in Conns :
            pc'[q] \in {"inspect", "forward", "proxy"} => site'[q] \in Site
      BY <3>2, <3>3
    <3> QED
      BY <1>4, <3>1, <3>3, <3>4, <3>5 DEF Route
  <2> QED
    BY <2>3, <2>4
<1>5. ASSUME NEW r \in Conns, NEW v \in Verdicts, Inspect(r, v) PROVE TypeOK'
  <2>0. v # "error" => CounterOf[v] \in Counters
    BY DEF CounterOf, Counters
  <2>1. counts' \in [Counters -> Nat] /\ uncounted' \in Nat
    <3>1. CASE v = "error"
      BY <1>5, <3>1 DEF Inspect, NoCount
    <3>2. CASE v # "error"
      <4>1. counts' = [counts EXCEPT ![CounterOf[v]] = @ + 1] /\ uncounted' = uncounted
        BY <1>5, <3>2 DEF Inspect, Count
      <4>2. counts[CounterOf[v]] + 1 \in Nat
        BY <2>0, <3>2
      <4> QED
        BY <4>1, <4>2
    <3> QED
      BY <3>1, <3>2
  <2>2. pc' = [pc EXCEPT ![r] = "forward"] \/ pc' = [pc EXCEPT ![r] = "return"]
    BY <1>5 DEF Inspect, Go
  <2> QED
    BY <1>5, <2>1, <2>2 DEF Inspect, PCs
<1>6. ASSUME NEW r \in Conns, InspectPanics(r) PROVE TypeOK'
  BY <1>6 DEF InspectPanics, NoCount, Go, PCs
<1>7. ASSUME NEW r \in Conns, forwardRequest(r) PROVE TypeOK'
  <2>1. site[r] \in Site
    BY <1>7 DEF forwardRequest
  <2>2. PICK built \in Parsable \cup {None} :
          /\ proxies' = [proxies EXCEPT ![site[r].name] = built]
          /\ target' = [target EXCEPT ![r] = built]
          /\ pc' = [pc EXCEPT ![r] = IF built = None THEN "return" ELSE "proxy"]
    BY <1>7, <2>1 DEF forwardRequest, Go, Site
  <2>3. proxies' \in [Names -> Parsable \cup {None}]
    BY <2>2
  <2>4. pc' \in [Conns -> PCs] /\ target' \in [Conns -> Parsable \cup {None}]
    BY <2>2 DEF PCs
  <2>5. \A q \in Conns :
          pc'[q] \in {"inspect", "forward", "proxy"} => site'[q] \in Site
    BY <1>7, <2>1, <2>2 DEF forwardRequest
  <2> QED
    BY <1>7, <2>3, <2>4, <2>5 DEF forwardRequest, statVars
<1>8. ASSUME NEW r \in Conns, Return(r) \/ UpstreamDone(r) PROVE TypeOK'
  <2>0. Leave(r)
    BY <1>8 DEF Return, UpstreamDone
  <2>1. /\ pc' \in [Conns -> PCs] /\ pc'[r] = "idle"
        /\ \A q \in Conns \ {r} : pc'[q] = pc[q]
    BY <2>0 DEF Leave, Go, PCs
  <2>2. /\ site' \in [Conns -> Site \cup {None}]
        /\ verdict' \in [Conns -> Verdicts \cup {"none"}]
        /\ target' \in [Conns -> Parsable \cup {None}]
        /\ \A q \in Conns \ {r} : site'[q] = site[q]
    BY <2>0 DEF Leave, Forget
  <2>3. \A q \in Conns : pc'[q] \in {"inspect", "forward", "proxy"} => site'[q] \in Site
    BY <2>1, <2>2
  <2> QED
    BY <2>0, <2>1, <2>2, <2>3 DEF Leave
<1>9. ASSUME NEW m \in Conns \cup Reloaders, Lock(m) PROVE TypeOK'
  BY <1>9 DEF Lock, reqVars, statVars
<1>10. CASE UNCHANGED vars
  BY <1>10 DEF vars, reqVars, statVars
<1> QED
  BY <1>1, <1>2, <1>3, <1>4, <1>5, <1>6, <1>7, <1>8, <1>9, <1>10
  DEF Next, Handle, AtRest

\* Every variable of the handler keeps its type, whatever the reloads bring.
THEOREM TypeCorrect == Spec => []TypeOK
BY InitType, StepType, PTL DEF Spec

-----------------------------------------------------------------------------
(* Accounting                                                              *)

Accounting == ActiveIsInFlight /\ EveryRequestCounted

\* Adding one to a counter adds one to their sum.
LEMMA CountOne ==
    ASSUME TypeOK, NEW k \in Counters, Count(k)
    PROVE  Counted' = Counted + 1
<1>1. \A j \in Counters : counts[j] \in Nat
  BY DEF TypeOK
<1>2. \A j \in Counters : counts'[j] = IF j = k THEN counts[j] + 1 ELSE counts[j]
  BY DEF Count, TypeOK
<1> QED
  BY <1>1, <1>2 DEF Counted, Counters

\* The sum of the counters is a natural number.
LEMMA CountedType == TypeOK => Counted \in Nat
<1> SUFFICES ASSUME TypeOK PROVE Counted \in Nat
  OBVIOUS
<1>1. \A j \in Counters : counts[j] \in Nat
  BY DEF TypeOK
<1> QED
  BY <1>1 DEF Counted, Counters

\* How the two sets change when one request moves on.
LEMMA OneMoves ==
    ASSUME TypeOK, NEW r \in Conns, NEW w \in PCs, Go(r, w)
    PROVE  /\ InFlight' = IF w = "idle" THEN InFlight \ {r} ELSE InFlight \cup {r}
           /\ Undecided' = IF w \in {"route", "inspect"} THEN Undecided \cup {r}
                          ELSE Undecided \ {r}
<1>1. \A q \in Conns : pc'[q] = IF q = r THEN w ELSE pc[q]
  BY DEF Go, TypeOK
<1>2. InFlight' = {q \in Conns : pc'[q] # "idle"}
  BY DEF InFlight
<1>3. Undecided' = {q \in Conns : pc'[q] \in {"route", "inspect"}}
  BY DEF Undecided
<1> QED
  BY <1>1, <1>2, <1>3 DEF InFlight, Undecided

\* The requests in flight are finitely many.
LEMMA Finite ==
    /\ IsFiniteSet(InFlight) /\ Cardinality(InFlight) \in Nat
    /\ IsFiniteSet(Undecided) /\ Cardinality(Undecided) \in Nat
<1>1. IsFiniteSet(InFlight)
  BY HandlerAssumption, FS_Subset DEF InFlight
<1>2. IsFiniteSet(Undecided)
  BY HandlerAssumption, FS_Subset DEF Undecided
<1> QED
  BY <1>1, <1>2, FS_CardinalityType

\* What a step does to the two cardinalities, by where it takes a request.
LEMMA Moved ==
    ASSUME TypeOK, NEW r \in Conns, NEW w \in PCs, Go(r, w)
    PROVE  /\ (pc[r] = "idle" /\ w = "route") =>
                 /\ Cardinality(InFlight') = Cardinality(InFlight) + 1
                 /\ Cardinality(Undecided') = Cardinality(Undecided) + 1
           /\ (pc[r] = "route" /\ w = "inspect") =>
                 /\ Cardinality(InFlight') = Cardinality(InFlight)
                 /\ Cardinality(Undecided') = Cardinality(Undecided)
           /\ (pc[r] \in {"route", "inspect"} /\ w \in {"forward", "return"}) =>
                 /\ Cardinality(InFlight') = Cardinality(InFlight)
                 /\ Cardinality(Undecided') = Cardinality(Undecided) - 1
           /\ (pc[r] = "forward" /\ w \in {"proxy", "return"}) =>
                 /\ Cardinality(InFlight') = Cardinality(InFlight)
                 /\ Cardinality(Undecided') = Cardinality(Undecided)
           /\ (pc[r] \in {"proxy", "return"} /\ w = "idle") =>
                 /\ Cardinality(InFlight') = Cardinality(InFlight) - 1
                 /\ Cardinality(Undecided') = Cardinality(Undecided)
<1>1. /\ r \in InFlight <=> pc[r] # "idle"
      /\ r \in Undecided <=> pc[r] \in {"route", "inspect"}
  BY DEF InFlight, Undecided
<1>2. /\ Cardinality(InFlight \cup {r}) =
            IF r \in InFlight THEN Cardinality(InFlight) ELSE Cardinality(InFlight) + 1
      /\ Cardinality(Undecided \cup {r}) =
            IF r \in Undecided THEN Cardinality(Undecided) ELSE Cardinality(Undecided) + 1
  BY Finite, FS_AddElement
<1>3. /\ Cardinality(InFlight \ {r}) =
            IF r \in InFlight THEN Cardinality(InFlight) - 1 ELSE Cardinality(InFlight)
      /\ Cardinality(Undecided \ {r}) =
            IF r \in Undecided THEN Cardinality(Undecided) - 1 ELSE Cardinality(Undecided)
  BY Finite, FS_RemoveElement
<1> QED
  BY <1>1, <1>2, <1>3, OneMoves, Finite

\* All counters start at zero.
LEMMA InitAccounting == Init => Accounting
<1> SUFFICES ASSUME Init PROVE Accounting
  OBVIOUS
<1>1. InFlight = {} /\ Undecided = {}
  BY DEF Init, InFlight, Undecided
<1>2. Cardinality({}) = 0
  BY FS_EmptySet
<1>3. Counted = 0
  BY DEF Init, Counted, Counters
<1> QED
  BY <1>1, <1>2, <1>3 DEF Init, Accounting, ActiveIsInFlight, EveryRequestCounted

\* Every way through ServeHTTP counts its request once and decrements
\* activeConns once.
LEMMA StepAccounting == TypeOK /\ Accounting /\ [Next]_vars => Accounting'
<1> SUFFICES ASSUME TypeOK, Accounting, [Next]_vars PROVE Accounting'
  OBVIOUS
<1>0. /\ active = Cardinality(InFlight)
      /\ total = Counted + uncounted + Cardinality(Undecided)
      /\ Counted \in Nat /\ uncounted \in Nat /\ total \in Nat
  BY CountedType, HandlerAssumption
  DEF Accounting, ActiveIsInFlight, EveryRequestCounted, TypeOK
<1> SUFFICES /\ active' = Cardinality(InFlight')
             /\ total' = Counted' + uncounted' + Cardinality(Undecided')
  BY DEF Accounting, ActiveIsInFlight, EveryRequestCounted
<1> DEFINE Good == /\ active' = Cardinality(InFlight')
                   /\ total' = Counted' + uncounted' + Cardinality(Undecided')
<1>1. ASSUME UNCHANGED <<pc, total, active, counts, uncounted>> PROVE Good
  BY <1>0, <1>1 DEF InFlight, Undecided, Counted
<1>2. ASSUME NEW r \in Conns, Arrive(r) PROVE Good
  <2>1. pc[r] = "idle" /\ Go(r, "route") /\ "route" \in PCs
    BY <1>2 DEF Arrive, PCs
  <2>2. /\ Cardinality(InFlight') = Cardinality(InFlight) + 1
        /\ Cardinality(Undecided') = Cardinality(Undecided) + 1
    BY <2>1, Moved
  <2>3. /\ active' = active + 1 /\ total' = total + 1
        /\ Counted' = Counted /\ uncounted' = uncounted
    BY <1>2 DEF Arrive, Counted
  <2> QED
    BY <1>0, <2>2, <2>3, Finite
<1>3. ASSUME NEW r \in Conns, NEW w \in {"forward", "return"}, Go(r, w),
             pc[r] \in {"route", "inspect"},
             UNCHANGED <<active, total>>,
             NoCount \/ (uncounted' = uncounted /\ \E k \in Counters : Count(k))
      PROVE  Good
  <2>1. w \in PCs
    BY DEF PCs
  <2>2. /\ Cardinality(InFlight') = Cardinality(InFlight)
        /\ Cardinality(Undecided') = Cardinality(Undecided) - 1
    BY <1>3, <2>1, Moved
  <2>3. \/ Counted' = Counted /\ uncounted' = uncounted + 1
        \/ Counted' = Counted + 1 /\ uncounted' = uncounted
    <3>1. CASE NoCount
      BY <1>0, <3>1 DEF NoCount, Counted
    <3>2. CASE uncounted' = uncounted /\ \E k \in Counters : Count(k)
      BY <1>0, <3>2, CountOne
    <3> QED
      BY <1>3, <3>1, <3>2
  <2>4. active' = active /\ total' = total
    BY <1>3
  <2> QED
    BY <1>0, <2>2, <2>3, <2>4, Finite
<1>4. ASSUME NEW r \in Conns, NEW d \in Domains, Route(r, d) PROVE Good
  <2> DEFINE s == Selected(config, d)
  <2>1. pc[r] = "route" /\ UNCHANGED <<active, total>>
    BY <1>4 DEF Route
  <2>2. CASE s # None /\ s.waf
    <3>1. Go(r, "inspect") /\ UNCHANGED <<counts, uncounted>> /\ "inspect" \in PCs
      BY <1>4, <2>2 DEF Route, PCs
    <3>2. /\ Cardinality(InFlight') = Cardinality(InFlight)
          /\ Cardinality(Undecided') = Cardinality(Undecided)
      BY <2>1, <3>1, Moved
    <3> QED
      BY <1>0, <2>1, <3>1, <3>2 DEF Counted
  <2>3. CASE s = None
    <3>1. Go(r, "return") /\ uncounted' = uncounted /\ Count("blocked")
      BY <1>4, <2>3 DEF Route
    <3> QED
      BY <1>3, <2>1, <3>1 DEF Counters
  <2>4. CASE s # None /\ ~s.waf
    <3>1. Go(r, "forward") /\ NoCount
      BY <1>4, <2>4 DEF Route
    <3> QED
      BY <1>3, <2>1, <3>1
  <2> QED
    BY <2>2, <2>3, <2>4
<1>5. ASSUME NEW r \in Conns, NEW v \in Verdicts, Inspect(r, v) PROVE Good
  <2>1. pc[r] = "inspect" /\ UNCHANGED <<active, total>>
    BY <1>5 DEF Inspect
  <2>2. Go(r, "forward") \/ Go(r, "return")
    BY <1>5 DEF Inspect
  <2>3. NoCount \/ (uncounted' = uncounted /\ \E k \in Counters : Count(k))
    <3>1. v # "error" => CounterOf[v] \in Counters
      BY HandlerAssumption DEF CounterOf, Counters
    <3> QED
      BY <1>5, <3>1 DEF Inspect
  <2> QED
    BY <1>3, <2>1, <2>2, <2>3
<1>6. ASSUME NEW r \in Conns, InspectPanics(r) PROVE Good
  BY <1>3, <1>6 DEF InspectPanics
<1>7. ASSUME NEW r \in Conns, forwardRequest(r) PROVE Good
  <2>1. pc[r] = "forward" /\ UNCHANGED <<total, active, counts, uncounted>>
    BY <1>7 DEF forwardRequest, statVars
  <2>2. PICK w \in {"proxy", "return"} : Go(r, w)
    BY <1>7 DEF forwardRequest
  <2>3. w \in PCs
    BY DEF PCs
  <2>4. /\ Cardinality(InFlight') = Cardinality(InFlight)
        /\ Cardinality(Undecided') = Cardinality(Undecided)
    BY <2>1, <2>2, <2>3, Moved
  <2> QED
    BY <1>0, <2>1, <2>4 DEF Counted
<1>8. ASSUME NEW r \in Conns, Return(r) \/ UpstreamDone(r) PROVE Good
  <2>1. /\ pc[r] \in {"proxy", "return"} /\ Go(r, "idle") /\ "idle" \in PCs
        /\ UNCHANGED <<total, counts, uncounted>> /\ active' = active - 1
    BY <1>8 DEF Return, UpstreamDone, Leave, PCs
  <2>2. /\ Cardinality(InFlight') = Cardinality(InFlight) - 1
        /\ Cardinality(Undecided') = Cardinality(Undecided)
    BY <2>1, Moved
  <2> QED
    BY <1>0, <2>1, <2>2 DEF Counted
<1>9. ASSUME NEW p \in Reloaders, (\E c \in Configs : Reload(p, c)) \/ OnChange(p)
      PROVE  Good
  BY <1>1, <1>9 DEF Reload, OnChange, reqVars, statVars
<1>10. ASSUME NEW m \in Conns \cup Reloaders, Lock(m) PROVE Good
  BY <1>1, <1>10 DEF Lock, reqVars, statVars
<1>11. CASE UNCHANGED vars
  BY <1>1, <1>11 DEF vars, reqVars, statVars
<1> QED
  BY <1>2, <1>4, <1>5, <1>6, <1>7, <1>8, <1>9, <1>10, <1>11
  DEF Next, Handle, AtRest

\* activeConns is always the number of requests in flight.
THEOREM ActiveExact == Spec => []ActiveIsInFlight
<1>1. TypeOK /\ Accounting => ActiveIsInFlight
  BY DEF Accounting
<1> QED
  BY <1>1, InitType, StepType, InitAccounting, StepAccounting, PTL DEF Spec

\* Every request that arrived is accounted for exactly once.
THEOREM RequestsCounted == Spec => []EveryRequestCounted
<1>1. TypeOK /\ Accounting => EveryRequestCounted
  BY DEF Accounting
<1> QED
  BY <1>1, InitType, StepType, InitAccounting, StepAccounting, PTL DEF Spec

-----------------------------------------------------------------------------
(* Proxies                                                                 *)

\* The strengthening of AllSitesHaveProxies: a usable site of the live
\* configuration that has no proxy is waiting for the callback of exactly
\* that configuration.
SitesPending ==
    \A i \in DOMAIN config :
        config[i].upstream \in Parsable =>
            \/ proxies[config[i].name] # None
            \/ \E p \in Reloaders : callback[p] = config

\* The constructor builds a proxy for every usable site.
LEMMA InitPending == Init => SitesPending
<1> SUFFICES ASSUME Init, NEW i \in DOMAIN Initial, Initial[i].upstream \in Parsable
             PROVE  BuiltAll(Initial)[Initial[i].name] # None
  BY DEF Init, SitesPending
<1>1. Initial \in Seq(Site) /\ Initial[i] \in Site /\ Initial[i].name \in Names
  BY HandlerAssumption, Entry
<1>2. i \in Buildable(Initial, Initial[i].name)
  BY DEF Buildable
<1>3. [n \in Names |-> None] \in [Names -> Parsable \cup {None}]
  OBVIOUS
<1> QED
  BY <1>1, <1>2, <1>3, BuiltFacts

\* A proxy, once there, stays.
LEMMA ProxiesStay ==
    ASSUME TypeOK, [Next]_vars, NEW n \in Names, proxies[n] # None
    PROVE  proxies'[n] # None
<1>1. ASSUME NEW p \in Reloaders, OnChange(p) PROVE proxies'[n] # None
  <2>1. callback[p] \in Seq(Site)
    BY <1>1, HandlerAssumption DEF OnChange, TypeOK
  <2> QED
    BY <1>1, <2>1, BuiltFacts DEF OnChange, TypeOK
<1>2. ASSUME NEW r \in Conns, forwardRequest(r) PROVE proxies'[n] # None
  <2>1. PICK b : /\ proxies' = [proxies EXCEPT ![site[r].name] = b]
                 /\ proxies[site[r].name] # None => b = proxies[site[r].name]
    BY <1>2 DEF forwardRequest
  <2> QED
    BY <2>1 DEF TypeOK
<1>3. CASE proxies' = proxies
  BY <1>3
<1> QED
  BY <1>1, <1>2, <1>3
  DEF Next, Handle, AtRest, Reload, Arrive, Route, Inspect, InspectPanics,
      Return, UpstreamDone, Leave, Lock, vars

\* A reload leaves a callback pending, and the callback builds the missing
\* proxies, in whatever order reloads and callbacks run.
LEMMA StepPending == TypeOK /\ SitesPending /\ [Next]_vars => SitesPending'
<1> SUFFICES ASSUME TypeOK, SitesPending, [Next]_vars PROVE SitesPending'
  OBVIOUS
<1>1. ASSUME NEW p \in Reloaders, NEW c \in Configs, Reload(p, c) PROVE SitesPending'
  <2>1. config' = c /\ callback'[p] = c
    BY <1>1 DEF Reload, TypeOK
  <2> QED
    BY <2>1 DEF SitesPending
<1>2. ASSUME NEW p \in Reloaders, OnChange(p) PROVE SitesPending'
  <2> SUFFICES ASSUME NEW i \in DOMAIN config, config[i].upstream \in Parsable
               PROVE  \/ proxies'[config[i].name] # None
                      \/ \E q \in Reloaders : callback'[q] = config
    BY <1>2 DEF OnChange, SitesPending
  <2>0. config[i].name \in Names
    BY ConfigType, Entry
  <2>1. CASE proxies[config[i].name] # None
    BY <2>0, <2>1, ProxiesStay
  <2>2. CASE callback[p] = config
    <3>1. i \in Buildable(config, config[i].name)
      BY DEF Buildable
    <3>2. proxies' = BuiltNew(proxies, config)
      BY <1>2, <2>2 DEF OnChange
    <3> QED
      BY <2>0, <3>1, <3>2, ConfigType, BuiltFacts DEF TypeOK
  <2>3. ASSUME NEW q \in Reloaders, q # p, callback[q] = config
        PROVE  \E q2 \in Reloaders : callback'[q2] = config
    BY <1>2, <2>3 DEF OnChange, TypeOK
  <2> QED
    BY <2>1, <2>2, <2>3 DEF SitesPending
<1>3. CASE UNCHANGED <<config, callback>>
  <2> SUFFICES ASSUME NEW i \in DOMAIN config, config[i].upstream \in Parsable
               PROVE  \/ proxies'[config[i].name] # None
                      \/ \E q \in Reloaders : callback[q] = config
    BY <1>3 DEF SitesPending
  <2>0. config[i].name \in Names
    BY ConfigType, Entry
  <2> QED
    BY <2>0, ProxiesStay DEF SitesPending
<1> QED
  BY <1>1, <1>2, <1>3
  DEF Next, Handle, AtRest, Arrive, Route, Inspect, InspectPanics,
      forwardRequest, Return, UpstreamDone, Leave, Lock, vars

\* Whenever no callback is pending, every usable site has a proxy.
THEOREM SitesCovered == Spec => []AllSitesHaveProxies
<1>1. TypeOK /\ SitesPending => AllSitesHaveProxies
  <2> SUFFICES ASSUME TypeOK, SitesPending,
                      \A p \in Reloaders : callback[p] = None,
                      NEW i \in DOMAIN config, config[i].upstream \in Parsable
               PROVE  proxies[config[i].name] # None
    BY DEF AllSitesHaveProxies
  <2>1. config # None
    BY HandlerAssumption DEF TypeOK
  <2> QED
    BY <2>1 DEF SitesPending
<1> QED
  BY <1>1, InitType, StepType, InitPending, StepPending, PTL DEF Spec
-----------------------------------------------------------------------------
(* Forwarding                                                              *)

\* What holds of one request at each point of ServeHTTP: it is inspected only
\* for a site whose WAF is on, it has no upstream before it is forwarded, and
\* one that ends without an upstream had no usable one or was refused.
Forwarding(r) ==
    /\ pc[r] \in {"idle", "route", "inspect", "forward"} => target[r] = None
    /\ pc[r] \in {"idle", "route", "inspect"} => verdict[r] = "none"
    /\ pc[r] = "inspect" => site[r].waf
    /\ pc[r] = "forward" => ~site[r].waf \/ Forwards(verdict[r])
    /\ target[r] # None => ~site[r].waf \/ Forwards(verdict[r])
    /\ (pc[r] = "return" /\ target[r] = None /\ site[r] \in Site)
       => \/ site[r].upstream \notin Parsable
          \/ site[r].waf /\ ~Forwards(verdict[r])

ForwardInv == \A r \in Conns : Forwarding(r)

\* No request is in progress at the start.
LEMMA InitForward == Init => ForwardInv
BY DEF Init, ForwardInv, Forwarding

\* A step of one request leaves the others where they are.
LEMMA OthersForward ==
    ASSUME ForwardInv, NEW r \in Conns, Forwarding(r)',
           \A q \in Conns \ {r} : /\ pc'[q] = pc[q] /\ site'[q] = site[q]
                                  /\ verdict'[q] = verdict[q] /\ target'[q] = target[q]
    PROVE  ForwardInv'
BY DEF ForwardInv, Forwarding

\* Every exit of ServeHTTP and forwardRequest keeps it.
LEMMA StepForward == TypeOK /\ ForwardInv /\ [Next]_vars => ForwardInv'
<1> SUFFICES ASSUME TypeOK, ForwardInv, [Next]_vars PROVE ForwardInv'
  OBVIOUS
<1> USE HandlerAssumption
<1>1. CASE UNCHANGED reqVars
  BY <1>1 DEF reqVars, ForwardInv, Forwarding
<1>2. ASSUME NEW r \in Conns, Arrive(r) PROVE ForwardInv'
  <2>1. Forwarding(r)'
    BY <1>2 DEF Arrive, Go, TypeOK, ForwardInv, Forwarding
  <2> QED
    BY <1>2, <2>1, OthersForward DEF Arrive, Go, TypeOK
<1>3. ASSUME NEW r \in Conns, NEW d \in Domains, Route(r, d) PROVE ForwardInv'
  <2> DEFINE s == Selected(config, d)
  <2>0. s \in Site \cup {None}
    BY ConfigType, SelectedType
  <2> HIDE DEF s
  <2>1. /\ pc[r] = "route" /\ site' = [site EXCEPT ![r] = s]
        /\ verdict' = verdict /\ target' = target
        /\ \/ s = None /\ pc' = [pc EXCEPT ![r] = "return"]
           \/ s # None /\ s.waf /\ pc' = [pc EXCEPT ![r] = "inspect"]
           \/ s # None /\ ~s.waf /\ pc' = [pc EXCEPT ![r] = "forward"]
    <3>1. pc[r] = "route" /\ site' = [site EXCEPT ![r] = s]
      BY <1>3 DEF Route, s
    <3>2. verdict' = verdict /\ target' = target
      BY <1>3 DEF Route
    <3>3. CASE s = None
      BY <1>3, <3>1, <3>2, <3>3, Zenon DEF Route, Go, s
    <3>4. CASE s # None /\ s.waf
      BY <1>3, <3>1, <3>2, <3>4, Zenon DEF Route, Go, s
    <3>5. CASE s # None /\ ~s.waf
      BY <1>3, <3>1, <3>2, <3>5, Zenon DEF Route, Go, s
    <3> QED
      BY <3>3, <3>4, <3>5, Zenon
  <2>2. target'[r] = None /\ site'[r] = s /\ verdict'[r] = "none"
    BY <2>1 DEF ForwardInv, Forwarding, TypeOK
  <2>3. Forwarding(r)'
    BY <2>0, <2>1, <2>2 DEF Forwarding, TypeOK, Site
  <2> QED
    BY <2>1, <2>3, OthersForward DEF TypeOK
<1>4. ASSUME NEW r \in Conns, NEW v \in Verdicts, Inspect(r, v) PROVE ForwardInv'
  <2>1. /\ pc[r] = "inspect" /\ verdict'[r] = v /\ target' = target /\ site' = site
        /\ pc'[r] = IF Forwards(v) THEN "forward" ELSE "return"
    BY <1>4 DEF Inspect, Go, TypeOK
  <2>2. target[r] = None /\ site[r].waf
    BY <2>1 DEF ForwardInv, Forwarding
  <2>3. Forwarding(r)'
    BY <2>1, <2>2 DEF Forwarding, Forwards
  <2> QED
    BY <1>4, <2>3, OthersForward DEF Inspect, Go, TypeOK
<1>5. ASSUME NEW r \in Conns, InspectPanics(r) PROVE ForwardInv'
  <2>1. Forwarding(r)'
    BY <1>5 DEF InspectPanics, Go, TypeOK, ForwardInv, Forwarding, Forwards
  <2> QED
    BY <1>5, <2>1, OthersForward DEF InspectPanics, Go, TypeOK
<1>6. ASSUME NEW r \in Conns, forwardRequest(r) PROVE ForwardInv'
  <2>1. site[r] \in Site
    BY <1>6 DEF forwardRequest, TypeOK
  <2>2. PICK built \in Parsable \cup {None} :
          /\ target' = [target EXCEPT ![r] = built]
          /\ pc' = [pc EXCEPT ![r] = IF built = None THEN "return" ELSE "proxy"]
          /\ built = None => site[r].upstream \notin Parsable
    BY <1>6, <2>1 DEF forwardRequest, Go, Site, TypeOK
  <2>3. pc[r] = "forward" /\ site' = site /\ verdict' = verdict
    BY <1>6 DEF forwardRequest
  <2>4. ~site[r].waf \/ Forwards(verdict[r])
    BY <2>3 DEF ForwardInv, Forwarding
  <2>5. target'[r] = built /\ pc'[r] = IF built = None THEN "return" ELSE "proxy"
    BY <2>2 DEF TypeOK
  <2>6. Forwarding(r)'
    BY <2>2, <2>3, <2>4, <2>5 DEF Forwarding, Forwards
  <2> QED
    BY <2>2, <2>3, <2>6, OthersForward DEF TypeOK
<1>7. ASSUME NEW r \in Conns, Return(r) \/ UpstreamDone(r) PROVE ForwardInv'
  <2>0. Leave(r)
    BY <1>7 DEF Return, UpstreamDone
  <2>1. Forwarding(r)'
    BY <2>0 DEF Leave, Forget, Go, TypeOK, ForwardInv, Forwarding, Forwards
  <2> QED
    BY <2>0, <2>1, OthersForward DEF Leave, Forget, Go, TypeOK
<1> QED
  BY <1>1, <1>2, <1>3, <1>4, <1>5, <1>6, <1>7
  DEF Next, Handle, AtRest, Reload, OnChange, Lock, vars

\* No request that was blocked, challenged or limited reaches an upstream,
\* on any way through ServeHTTP and for any number of connections.
THEOREM NoneForwardedUnpassed == Spec => []OnlyPassedForwarded
<1>1. ForwardInv => OnlyPassedForwarded
  BY DEF ForwardInv, Forwarding, OnlyPassedForwarded, Forwards
<1> QED
  BY <1>1, InitType, StepType, InitForward, StepForward, PTL DEF Spec

\* A request that passed and has a usable upstream is never turned away for
\* want of a proxy, whenever the callbacks run.
THEOREM SitesServedAtOnce == Spec => []ServedAtOnce
<1>1. ForwardInv => ServedAtOnce
  BY DEF ForwardInv, Forwarding, ServedAtOnce
<1> QED
  BY <1>1, InitType, StepType, InitForward, StepForward, PTL DEF Spec
-----------------------------------------------------------------------------
(* Where proxies come from                                                 *)

\* A proxy that the constructor or the callback builds leads where the
\* configuration they were given says.
LEMMA BuiltSaid ==
    ASSUME NEW c \in Seq(Site), NEW n \in Names, NEW px
    PROVE  /\ BuiltAll(c)[n] # None => <<n, BuiltAll(c)[n]>> \in Said(c)
           /\ BuiltNew(px, c)[n] # px[n] => <<n, BuiltNew(px, c)[n]>> \in Said(c)
<1> DEFINE T == Buildable(c, n)
<1>1. T \in SUBSET (1 .. Len(c)) /\ Len(c) \in Nat
  BY DEF Buildable
<1>2. \A i \in T : <<n, c[i].upstream>> \in Said(c)
  BY DEF Buildable, Said
<1>3. CASE T = {}
  BY <1>3 DEF BuiltAll, BuiltNew
<1>4. CASE T # {}
  <2> DEFINE first == CHOOSE i \in T : \A j \in T : i <= j
             last == CHOOSE i \in T : \A j \in T : j <= i
  <2>1. first \in T /\ last \in T
    <3> HIDE DEF T
    <3> QED
      BY <1>1, <1>4, Ends
  <2>2. BuiltAll(c)[n] = c[last].upstream
    BY <1>4 DEF BuiltAll
  <2>3. BuiltNew(px, c)[n] = IF px[n] # None THEN px[n] ELSE c[first].upstream
    BY <1>4 DEF BuiltNew
  <2> HIDE DEF T, first, last
  <2> QED
    BY <1>2, <2>1, <2>2, <2>3
<1> QED
  BY <1>3, <1>4

\* The site a request selects is one the configuration says.
LEMMA SelectedSaid ==
    ASSUME NEW c \in Seq(Site), NEW d, Selected(c, d) # None
    PROVE  <<Selected(c, d).name, Selected(c, d).upstream>> \in Said(c)
<1> DEFINE hits == {i \in DOMAIN c : d \in c[i].domains}
<1>1. c # <<>>
  BY DEF Selected
<1>2. CASE hits = {}
  <2>1. Selected(c, d) = c[1]
    BY <1>1, <1>2 DEF Selected
  <2>2. Len(c) \in Nat \ {0}
    BY <1>1, EmptySeq
  <2>3. 1 \in DOMAIN c
    BY <2>2
  <2> QED
    BY <2>1, <2>3 DEF Said
<1>3. CASE hits # {}
  <2> DEFINE i == CHOOSE k \in hits : \A j \in hits : k <= j
  <2>1. Selected(c, d) = c[i]
    BY <1>1, <1>3 DEF Selected
  <2>2. hits \in SUBSET (1 .. Len(c)) /\ Len(c) \in Nat /\ hits \subseteq DOMAIN c
    OBVIOUS
  <2> HIDE DEF hits
  <2>3. i \in DOMAIN c
    BY <1>3, <2>2, Ends
  <2> HIDE DEF i
  <2> QED
    BY <2>1, <2>3 DEF Said
<1> QED
  BY <1>2, <1>3

\* Every place a proxy can be built from holds what a configuration said: the
\* live one, those on their way to a callback, and the site of a request.
KnownInv ==
    /\ ProxiesKnown
    /\ Said(config) \subseteq known
    /\ \A p \in Reloaders : callback[p] # None => Said(callback[p]) \subseteq known
    /\ \A r \in Conns : pc[r] \in {"inspect", "forward"} =>
           <<site[r].name, site[r].upstream>> \in known

\* The constructor's proxies come from the initial configuration.
LEMMA InitKnown == Init => KnownInv
<1> SUFFICES ASSUME Init PROVE KnownInv
  OBVIOUS
<1>1. ProxiesKnown
  <2> SUFFICES ASSUME NEW n \in Names, BuiltAll(Initial)[n] # None
               PROVE  <<n, BuiltAll(Initial)[n]>> \in Said(Initial)
    BY DEF Init, ProxiesKnown
  <2> QED
    BY HandlerAssumption, BuiltSaid
<1> QED
  BY <1>1 DEF Init, KnownInv

\* Reloads, callbacks and requests build proxies from nothing else.
LEMMA StepKnown == TypeOK /\ KnownInv /\ [Next]_vars => KnownInv'
<1> SUFFICES ASSUME TypeOK, KnownInv, [Next]_vars PROVE KnownInv'
  OBVIOUS
<1> USE HandlerAssumption
<1>1. ASSUME NEW p \in Reloaders, NEW c \in Configs, Reload(p, c) PROVE KnownInv'
  <2>1. /\ config' = c /\ known' = known \cup Said(c)
        /\ proxies' = proxies /\ pc' = pc /\ site' = site
    BY <1>1 DEF Reload, reqVars
  <2>2. \A q \in Reloaders : callback'[q] = c \/ callback'[q] = callback[q]
    BY <1>1 DEF Reload, TypeOK
  <2> QED
    BY <2>1, <2>2 DEF KnownInv, ProxiesKnown
<1>2. ASSUME NEW p \in Reloaders, OnChange(p) PROVE KnownInv'
  <2> DEFINE c == callback[p]
  <2>1. c \in Seq(Site) /\ Said(c) \subseteq known
    BY <1>2 DEF OnChange, TypeOK, KnownInv
  <2>2. /\ proxies' = BuiltNew(proxies, c) /\ config' = config /\ known' = known
        /\ pc' = pc /\ site' = site
    BY <1>2 DEF OnChange, reqVars
  <2>3. \A q \in Reloaders : callback'[q] = None \/ callback'[q] = callback[q]
    BY <1>2 DEF OnChange, TypeOK
  <2> HIDE DEF c
  <2>4. ASSUME NEW n \in Names, proxies'[n] # None PROVE <<n, proxies'[n]>> \in known
    BY <2>1, <2>2, <2>4, BuiltSaid DEF KnownInv, ProxiesKnown
  <2> QED
    BY <2>2, <2>3, <2>4 DEF KnownInv, ProxiesKnown
<1>3. ASSUME NEW r \in Conns, NEW d \in Domains, Route(r, d) PROVE KnownInv'
  <2> DEFINE s == Selected(config, d)
  <2>1. /\ s # None => <<s.name, s.upstream>> \in known
        /\ site' = [site EXCEPT ![r] = s]
        /\ UNCHANGED <<config, proxies, callback, known>>
    BY <1>3, ConfigType, SelectedSaid DEF Route, KnownInv
  <2>2. \A q \in Conns \ {r} : pc'[q] = pc[q]
    BY <1>3 DEF Route, Go, TypeOK
  <2>3. s = None => pc'[r] = "return"
    BY <1>3 DEF Route, Go, TypeOK
  <2> HIDE DEF s
  <2> QED
    BY <2>1, <2>2, <2>3 DEF KnownInv, ProxiesKnown, TypeOK
<1>4. ASSUME NEW r \in Conns, forwardRequest(r) PROVE KnownInv'
  <2>1. /\ site[r] \in Site /\ <<site[r].name, site[r].upstream>> \in known
        /\ UNCHANGED <<config, callback, known, site>>
    BY <1>4 DEF forwardRequest, TypeOK, KnownInv
  <2>2. PICK b : /\ proxies' = [proxies EXCEPT ![site[r].name] = b]
                 /\ b = site[r].upstream \/ b = proxies[site[r].name]
    BY <1>4 DEF forwardRequest
  <2>3. \A q \in Conns : pc'[q] \in {"inspect", "forward"} => pc'[q] = pc[q]
    BY <1>4 DEF forwardRequest, Go, TypeOK
  <2>4. ProxiesKnown'
    BY <2>1, <2>2, ZenonT(40) DEF KnownInv, ProxiesKnown, TypeOK, Site
  <2> QED
    BY <2>1, <2>3, <2>4 DEF KnownInv
<1>5. ASSUME UNCHANGED <<config, proxies, callback, known>>,
             \A r \in Conns : pc'[r] \in {"inspect", "forward"} =>
                 pc[r] \in {"inspect", "forward"} /\ site'[r] = site[r]
      PROVE  KnownInv'
  BY <1>5 DEF KnownInv, ProxiesKnown
<1>6. ASSUME NEW r \in Conns,
             \/ Arrive(r) \/ (\E v \in Verdicts : Inspect(r, v)) \/ InspectPanics(r)
             \/ Return(r) \/ UpstreamDone(r)
      PROVE  KnownInv'
  BY <1>5, <1>6
  DEF Arrive, Inspect, InspectPanics, Return, UpstreamDone, Leave, Forget, Go, TypeOK
<1>7. CASE UNCHANGED vars \/ \E m \in Conns \cup Reloaders : Lock(m)
  BY <1>5, <1>7 DEF vars, reqVars, Lock
<1> QED
  BY <1>1, <1>2, <1>3, <1>4, <1>6, <1>7 DEF Next, Handle, AtRest

\* Every proxy leads to an upstream that some configuration named for its site.
THEOREM ProxiesFromConfigs == Spec => []ProxiesKnown
<1>1. KnownInv => ProxiesKnown
  BY DEF KnownInv
<1> QED
  BY <1>1, InitType, StepType, InitKnown, StepKnown, PTL DEF Spec

\* The proxies are exactly the ones the configurations ask for.
THEOREM ProxiesRight == Spec => []ProxiesSound
BY SitesCovered, ProxiesFromConfigs, PTL DEF ProxiesSound

\* Both statistics of the handler add up.
THEOREM StatisticsRight == Spec => []Accounted
BY ActiveExact, RequestsCounted, PTL DEF Accounted
=============================================================================
