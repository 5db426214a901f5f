------------------------- MODULE SiemManagerProofs -------------------------
(***************************************************************************)
(* Theorems about SiemManager for any number of senders, exporters and     *)
(* events and any batch size.                                              *)
(***************************************************************************)
EXTENDS SiemManager, TLAPS

\* NewManager builds well-typed state.
LEMMA InitType == Init => TypeOK
<1> SUFFICES ASSUME Init PROVE TypeOK
  OBVIOUS
<1>1. sent \in 0 .. MaxEvents /\ buffer \subseteq 1 .. sent /\ flushCh \in 0 .. 1
  BY SiemAssumption DEF Init
<1>2. done \in BOOLEAN
  BY DEF Init
<1>3. /\ sender \in [Senders -> {"idle", "signal"}]
      /\ flusher \in [Flushers -> {"select", "take", "export", "exit", "open", "closed"}]
  BY DEF Init
<1>4. /\ batch \in [Flushers -> SUBSET (1 .. sent)]
      /\ todo \in [Flushers -> SUBSET Exporters]
  BY DEF Init
<1>5. /\ delivered \in [Exporters -> SUBSET (1 .. sent)]
      /\ failed \in [Exporters -> SUBSET (1 .. sent)]
  BY DEF Init
<1> QED
  BY <1>1, <1>2, <1>3, <1>4, <1>5 DEF TypeOK

\* Every step of Send, flushLoop, flush and Close keeps the types.
LEMMA StepType == TypeOK /\ [Next]_vars => TypeOK'
<1> SUFFICES ASSUME TypeOK, [Next]_vars PROVE TypeOK'
  OBVIOUS
<1> USE SiemAssumption DEF TypeOK, Flushers
<1>1. ASSUME NEW s \in Senders, Send(s) PROVE TypeOK'
  <2>1. sent' \in 0 .. MaxEvents /\ 1 .. sent \subseteq 1 .. sent' /\ sent + 1 \in 1 .. sent'
    BY <1>1 DEF Send
  <2>2. sender' \in [Senders -> {"idle", "signal"}]
    BY <1>1 DEF Send
  <2>3. buffer' \subseteq 1 .. sent'
    BY <1>1, <2>1 DEF Send
  <2>4. /\ batch \in [Flushers -> SUBSET (1 .. sent')]
        /\ delivered \in [Exporters -> SUBSET (1 .. sent')]
        /\ failed \in [Exporters -> SUBSET (1 .. sent')]
    BY <2>1
  <2> QED
    BY <1>1, <2>1, <2>2, <2>3, <2>4 DEF Send, flushVars
<1>2. ASSUME NEW s \in Senders, Signal(s) PROVE TypeOK'
  BY <1>2 DEF Signal, flushVars
<1>3. CASE Tick \/ Receive \/ Stop \/ Close
  <2>1. PICK f \in Flushers, w \in {"take", "exit"} : Goto(f, w)
    BY <1>3 DEF Tick, Receive, Stop, Close
  <2>2. flusher' \in [Flushers -> {"select", "take", "export", "exit", "open", "closed"}]
    BY <2>1 DEF Goto
  <2>3. flushCh' \in 0 .. 1
    BY <1>3 DEF Tick, Receive, Stop, Close
  <2>4. done' \in BOOLEAN
    BY <1>3 DEF Tick, Receive, Stop, Close
  <2> QED
    BY <1>3, <2>2, <2>3, <2>4 DEF Tick, Receive, Stop, Close
<1>4. ASSUME NEW f \in Flushers, Take(f) PROVE TypeOK'
  <2>1. flusher' \in [Flushers -> {"select", "take", "export", "exit", "open", "closed"}]
    BY <1>4 DEF Take, Goto, After
  <2>2. batch' \in [Flushers -> SUBSET (1 .. sent)] /\ buffer' \subseteq 1 .. sent
    BY <1>4 DEF Take
  <2>3. todo' \in [Flushers -> SUBSET Exporters]
    BY <1>4 DEF Take
  <2> QED
    BY <1>4, <2>1, <2>2, <2>3 DEF Take
<1>5. ASSUME NEW f \in Flushers, NEW x \in Exporters, Export(f, x) \/ ExportFails(f, x)
      PROVE  TypeOK'
  <2>1. todo' \in [Flushers -> SUBSET Exporters]
    BY <1>5 DEF Export, ExportFails
  <2>2. batch[f] \subseteq 1 .. sent
    OBVIOUS
  <2>3. /\ delivered' \in [Exporters -> SUBSET (1 .. sent)]
        /\ failed' \in [Exporters -> SUBSET (1 .. sent)]
    BY <1>5, <2>2 DEF Export, ExportFails
  <2> QED
    BY <1>5, <2>1, <2>3 DEF Export, ExportFails
<1>6. ASSUME NEW f \in Flushers, Flushed(f) PROVE TypeOK'
  BY <1>6 DEF Flushed, Goto, After
<1>7. CASE UNCHANGED vars
  BY <1>7 DEF vars, flushVars
<1> QED
  BY <1>1, <1>2, <1>3, <1>4, <1>5, <1>6, <1>7 DEF Next, FlushStep, AtRest

\* Every variable of the manager keeps its type; the channel never holds more
\* than one signal.
THEOREM TypeCorrect == Spec => []TypeOK
BY InitType, StepType, PTL DEF Spec

-----------------------------------------------------------------------------
(* A full buffer is signalled: inductive as it stands, given the types     *)

\* No step of Send, flushLoop or Close leaves a full buffer unattended.
LEMMA StepSignalled ==
    TypeOK /\ FullBufferSignalled /\ [Next]_vars => FullBufferSignalled'
<1> SUFFICES ASSUME TypeOK, FullBufferSignalled, [Next]_vars
             PROVE  FullBufferSignalled'
  OBVIOUS
<1> USE DEF TypeOK, FullBufferSignalled, Flushers
<1>1. ASSUME NEW s \in Senders, Send(s) PROVE FullBufferSignalled'
  BY <1>1 DEF Send, IsFull, flushVars
<1>2. ASSUME NEW s \in Senders, Signal(s) PROVE FullBufferSignalled'
  BY <1>2 DEF Signal
<1>3. CASE Tick \/ Receive \/ Stop
  BY <1>3 DEF Tick, Receive, Stop, Goto
<1>4. CASE Close
  BY <1>4 DEF Close, Goto
<1>5. ASSUME NEW f \in Flushers, Take(f) PROVE FullBufferSignalled'
  BY <1>5 DEF Take, Goto, After
<1>6. ASSUME NEW f \in Flushers, NEW x \in Exporters, Export(f, x) \/ ExportFails(f, x)
      PROVE  FullBufferSignalled'
  BY <1>6 DEF Export, ExportFails
<1>7. ASSUME NEW f \in Flushers, Flushed(f) PROVE FullBufferSignalled'
  BY <1>7 DEF Flushed, Goto, After
<1>8. CASE UNCHANGED vars
  BY <1>8 DEF vars, flushVars
<1> QED
  BY <1>1, <1>2, <1>3, <1>4, <1>5, <1>6, <1>7, <1>8 DEF Next, FlushStep, AtRest

\* A full buffer always has a flush on its way, although signals are dropped.
THEOREM FullBufferFlushed == Spec => []FullBufferSignalled
<1>1. Init => FullBufferSignalled
  BY DEF Init, FullBufferSignalled
<1> QED
  BY <1>1, InitType, StepType, StepSignalled, PTL DEF Spec

-----------------------------------------------------------------------------
(* Exactly once                                                            *)

\* The same as ExactlyOnce, with the five places written out.
Split(x) ==
    LET l == Held("loop", x)
        c == Held("closer", x)
        d == delivered[x]
        u == failed[x]
    IN  /\ 1 .. sent = buffer \cup l \cup c \cup d \cup u
        /\ buffer \cap l = {} /\ buffer \cap c = {} /\ buffer \cap d = {}
        /\ buffer \cap u = {} /\ l \cap c = {} /\ l \cap d = {} /\ l \cap u = {}
        /\ c \cap d = {} /\ c \cap u = {} /\ d \cap u = {}

\* The pairwise form of ExactlyOnce, which the provers handle better.
LEMMA SplitIsExactlyOnce == (\A x \in Exporters : Split(x)) => ExactlyOnce
<1> SUFFICES ASSUME NEW x \in Exporters, Split(x)
             PROVE  /\ 1 .. sent = UNION {Places(x)[i] : i \in 1 .. 5}
                    /\ \A i, j \in 1 .. 5 :
                          i # j => Places(x)[i] \cap Places(x)[j] = {}
  BY DEF ExactlyOnce
<1>1. /\ Places(x)[1] = buffer /\ Places(x)[2] = Held("loop", x)
      /\ Places(x)[3] = Held("closer", x) /\ Places(x)[4] = delivered[x]
      /\ Places(x)[5] = failed[x]
  BY DEF Places
<1>2. 1 .. 5 = {1, 2, 3, 4, 5}
  OBVIOUS
<1>3. UNION {Places(x)[i] : i \in 1 .. 5} =
        Places(x)[1] \cup Places(x)[2] \cup Places(x)[3] \cup Places(x)[4]
          \cup Places(x)[5]
  BY <1>2
<1>4. \A i, j \in 1 .. 5 : i # j => Places(x)[i] \cap Places(x)[j] = {}
  BY <1>1, <1>2 DEF Split
<1> QED
  BY <1>1, <1>3, <1>4 DEF Split

\* Send, the take of the buffer and every export move events from one place to
\* another and leave no copy.
LEMMA StepSplit ==
    ASSUME TypeOK, [Next]_vars, NEW x \in Exporters, Split(x)
    PROVE  Split(x)'
<1> USE DEF Split, Flushers
<1>1. ASSUME NEW s \in Senders, Send(s) PROVE Split(x)'
  <2>1. 1 .. sent' = (1 .. sent) \cup {sent + 1} /\ sent + 1 \notin 1 .. sent
    BY <1>1 DEF Send, TypeOK
  <2>2. Held("loop", x)' = Held("loop", x) /\ Held("closer", x)' = Held("closer", x)
    BY <1>1 DEF Send, flushVars, Held
  <2> QED
    BY <1>1, <2>1, <2>2 DEF Send, flushVars
<1>2. ASSUME UNCHANGED <<sent, buffer, delivered, failed>>,
             \A f \in Flushers : Held(f, x)' = Held(f, x)
      PROVE  Split(x)'
  BY <1>2
<1>3. ASSUME NEW s \in Senders, Signal(s) PROVE Split(x)'
  BY <1>2, <1>3 DEF Signal, flushVars, Held
<1>4. CASE Tick \/ Receive \/ Stop \/ Close
  <2>1. PICK f \in Flushers, w \in {"take", "exit"} :
            Goto(f, w) /\ flusher[f] # "export"
    BY <1>4 DEF Tick, Receive, Stop, Close
  <2>2. \A g \in Flushers : Held(g, x)' = Held(g, x)
    BY <1>4, <2>1 DEF Tick, Receive, Stop, Close, Goto, Held, TypeOK
  <2> QED
    BY <1>2, <1>4, <2>2 DEF Tick, Receive, Stop, Close
<1>5. ASSUME NEW f \in Flushers, Take(f) PROVE Split(x)'
  <2>1. \A g \in Flushers \ {f} : Held(g, x)' = Held(g, x)
    BY <1>5 DEF Take, Goto, Held, TypeOK
  <2>2. Held(f, x) = {}
    BY <1>5 DEF Take, Held
  <2>3. CASE buffer = {}
    <3>1. Held(f, x)' = {}
      BY <1>5, <2>3 DEF Take, Goto, After, Held, TypeOK
    <3> QED
      BY <1>2, <1>5, <2>1, <2>2, <2>3, <3>1 DEF Take
  <2>4. CASE buffer # {}
    <3>1. Held(f, x)' = buffer /\ buffer' = {}
      BY <1>5, <2>4 DEF Take, Goto, Held, TypeOK
    <3> QED
      BY <1>5, <2>1, <2>2, <3>1 DEF Take
  <2> QED
    BY <2>3, <2>4
<1>6. ASSUME NEW f \in Flushers, NEW y \in Exporters, Export(f, y) \/ ExportFails(f, y)
      PROVE  Split(x)'
  <2>1. \A g \in Flushers \ {f} : Held(g, x)' = Held(g, x)
    BY <1>6 DEF Export, ExportFails, Held, TypeOK
  <2>2. CASE y = x
    <3>1. Held(f, x) = batch[f] /\ Held(f, x)' = {}
      BY <1>6, <2>2 DEF Export, ExportFails, Held, TypeOK
    <3>2. \/ delivered'[x] = delivered[x] \cup batch[f] /\ failed' = failed
          \/ failed'[x] = failed[x] \cup batch[f] /\ delivered' = delivered
      BY <1>6, <2>2 DEF Export, ExportFails, TypeOK
    <3> QED
      BY <1>6, <2>1, <3>1, <3>2 DEF Export, ExportFails
  <2>3. CASE y # x
    <3>1. Held(f, x)' = Held(f, x)
      BY <1>6, <2>3 DEF Export, ExportFails, Held, TypeOK
    <3>2. delivered'[x] = delivered[x] /\ failed'[x] = failed[x]
      BY <1>6, <2>3 DEF Export, ExportFails, TypeOK
    <3> QED
      BY <1>6, <2>1, <3>1, <3>2 DEF Export, ExportFails
  <2> QED
    BY <2>2, <2>3
<1>7. ASSUME NEW f \in Flushers, Flushed(f) PROVE Split(x)'
  <2>1. \A g \in Flushers : Held(g, x)' = Held(g, x)
    BY <1>7 DEF Flushed, Goto, After, Held, TypeOK
  <2> QED
    BY <1>2, <1>7, <2>1 DEF Flushed
<1>8. CASE UNCHANGED vars
  BY <1>2, <1>8 DEF vars, flushVars, Held
<1> QED
  BY <1>1, <1>3, <1>4, <1>5, <1>6, <1>7, <1>8 DEF Next, FlushStep, AtRest

\* No event is lost between the buffer and an exporter, and none is exported
\* twice, whether or not Close flushes beside the loop.
THEOREM EventsExactlyOnce == Spec => []ExactlyOnce
<1> DEFINE Inv == TypeOK /\ \A x \in Exporters : Split(x)
<1>1. Init => Inv
  <2>1. ASSUME Init, NEW x \in Exporters PROVE Split(x)
    BY <2>1 DEF Init, Split, Held, Flushers
  <2> QED
    BY <2>1, InitType
<1>2. Inv /\ [Next]_vars => Inv'
  BY StepType, StepSplit
<1>3. Inv => ExactlyOnce
  BY SplitIsExactlyOnce
<1> QED
  BY <1>1, <1>2, <1>3, PTL DEF Spec

-----------------------------------------------------------------------------
(* In order                                                                *)

Earlier(A, B) == \A a \in A, b \in B : a < b

\* Before Close there is one flush at a time, and for every exporter what it has was sent
\* before what the loop is about to give it, and that before what is still buffered.
InOrder(x) ==
    /\ Earlier(delivered[x], Held("loop", x))
    /\ Earlier(Held("loop", x), buffer)
    /\ Earlier(delivered[x], buffer)

OrderInv == ~done => flusher["closer"] = "open" /\ \A x \in Exporters : InOrder(x)

\* Before Close every step hands the events on in their order, and so does the export.
LEMMA StepOrder ==
    ASSUME TypeOK, OrderInv, [Next]_vars, ~done'
    PROVE  /\ OrderInv'
           /\ \A x \in Exporters : Earlier(delivered[x], delivered'[x] \ delivered[x])
<1> DEFINE Goal(x) == InOrder(x)' /\ Earlier(delivered[x], delivered'[x] \ delivered[x])
<1>0. /\ ~done /\ flusher["closer"] = "open" /\ \A x \in Exporters : InOrder(x)
      /\ "loop" \in Flushers /\ "closer" \in Flushers
  BY DEF OrderInv, Next, FlushStep, Send, Signal, Tick, Receive, Stop, Take, Export, ExportFails,
         Flushed, Close, AtRest, vars, Flushers
<1>1. flusher'["closer"] = "open"
  <2>1. CASE \E f \in Flushers : FlushStep(f)
    <3>1. PICK f \in Flushers : FlushStep(f)
      BY <2>1
    <3>2. f = "loop"
      BY <1>0, <3>1 DEF Flushers, FlushStep, Take, Export, ExportFails, Flushed
    <3> QED
      BY <1>0, <3>1, <3>2 DEF FlushStep, Take, Export, ExportFails, Flushed, Goto, TypeOK, Flushers
  <2>2. CASE ~ \E f \in Flushers : FlushStep(f)
    BY <1>0, <2>2 DEF Next, Send, Signal, Tick, Receive, Stop, Close, AtRest, vars, flushVars, Goto, TypeOK, Flushers
  <2> QED
    BY <2>1, <2>2
<1> SUFFICES ASSUME NEW x \in Exporters PROVE Goal(x)
  BY <1>1 DEF OrderInv
<1>2. InOrder(x)
  BY <1>0
<1>3. ASSUME UNCHANGED <<buffer, delivered>>, Held("loop", x)' = Held("loop", x) PROVE Goal(x)
  BY <1>2, <1>3 DEF InOrder, Earlier
<1>4. ASSUME NEW s \in Senders, Send(s) PROVE Goal(x)
  <2>1. Held("loop", x)' = Held("loop", x) /\ Held("loop", x) \subseteq 1 .. sent /\ delivered[x] \subseteq 1 .. sent
    BY <1>0, <1>4 DEF Send, flushVars, Held, TypeOK
  <2>2. delivered' = delivered /\ buffer' = buffer \cup {sent + 1} /\ sent \in Nat
    BY <1>4 DEF Send, flushVars, TypeOK
  <2> QED
    BY <1>2, <2>1, <2>2 DEF InOrder, Earlier
<1>5. ASSUME NEW s \in Senders, Signal(s) PROVE Goal(x)
  BY <1>3, <1>5 DEF Signal, flushVars, Held
<1>6. CASE Tick \/ Receive \/ Stop
  <2>1. PICK w \in {"take", "exit"} : Goto("loop", w) /\ flusher["loop"] # "export"
    BY <1>6 DEF Tick, Receive, Stop
  <2>2. Held("loop", x)' = Held("loop", x)
    BY <1>0, <2>1 DEF Goto, Held, TypeOK
  <2> QED
    BY <1>3, <1>6, <2>2 DEF Tick, Receive, Stop
<1>7. CASE Close
  BY <1>7 DEF Close
<1>8. ASSUME NEW f \in Flushers, FlushStep(f) PROVE Goal(x)
  <2>0. f = "loop"
    BY <1>0, <1>8 DEF Flushers, FlushStep, Take, Export, ExportFails, Flushed
  <2>1. CASE Take(f)
    <3>1. delivered' = delivered /\ Held("loop", x) = {}
      BY <2>0, <2>1 DEF Take, Held
    <3>2. \/ Held("loop", x)' = {} /\ buffer' = buffer
          \/ Held("loop", x)' = buffer /\ buffer' = {}
      BY <1>0, <2>0, <2>1 DEF Take, Goto, After, Held, TypeOK
    <3> QED
      BY <1>2, <3>1, <3>2 DEF InOrder, Earlier
  <2>2. ASSUME NEW y \in Exporters, Export(f, y) \/ ExportFails(f, y) PROVE Goal(x)
    <3>1. CASE y = x
      <4>1. Held("loop", x) = batch["loop"] /\ Held("loop", x)' = {} /\ buffer' = buffer
        BY <1>0, <2>0, <2>2, <3>1 DEF Export, ExportFails, Held, TypeOK
      <4>2. delivered'[x] \in {delivered[x], delivered[x] \cup batch["loop"]}
        BY <2>0, <2>2, <3>1 DEF Export, ExportFails, TypeOK
      <4> QED
        BY <1>2, <4>1, <4>2 DEF InOrder, Earlier
    <3>2. CASE y # x
      <4>1. Held("loop", x)' = Held("loop", x) /\ delivered'[x] = delivered[x] /\ buffer' = buffer
        BY <1>0, <2>0, <2>2, <3>2 DEF Export, ExportFails, Held, TypeOK
      <4> QED
        BY <1>2, <4>1 DEF InOrder, Earlier
    <3> QED
      BY <3>1, <3>2
  <2>3. CASE Flushed(f)
    <3>1. Held("loop", x)' = Held("loop", x) /\ UNCHANGED <<buffer, delivered>>
      BY <1>0, <2>0, <2>3 DEF Flushed, Goto, After, Held, TypeOK
    <3> QED
      BY <1>3, <3>1
  <2> QED
    BY <1>8, <2>1, <2>2, <2>3 DEF FlushStep
<1>9. CASE UNCHANGED vars
  BY <1>3, <1>9 DEF vars, flushVars, Held
<1> QED
  BY <1>4, <1>5, <1>6, <1>7, <1>8, <1>9 DEF Next, AtRest

\* Until Close is called every exporter gets the events in the order in which Send was
\* called, whichever batches it refuses in between.
THEOREM EventsInOrder == Spec => DeliveredInOrder
<1> DEFINE Inv == TypeOK /\ OrderInv
           Ordered == ~done' => \A x \in Exporters :
                          \A e \in delivered'[x] \ delivered[x] : \A d \in delivered[x] : d < e
<1>1. Init => Inv
  <2>1. Init => OrderInv
    BY DEF Init, OrderInv, InOrder, Earlier, Held, Flushers
  <2> QED
    BY <2>1, InitType
<1>2. Inv /\ [Next]_vars => Inv'
  <2>1. done' => OrderInv'
    BY DEF OrderInv
  <2> QED
    BY <2>1, StepType, StepOrder
<1>3. Inv /\ [Next]_vars => [Ordered]_vars
  BY StepOrder DEF Earlier
<1> QED
  BY <1>1, <1>2, <1>3, PTL DEF Spec, DeliveredInOrder
============================================================================
