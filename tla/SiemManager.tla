---------------------------- MODULE SiemManager ----------------------------
(***************************************************************************)
(* internal/siem/siem.go: events are appended to a buffer under m.mu; the  *)
(* flushLoop goroutine takes the whole buffer on every tick, or when a     *)
(* sender signals a full one through a channel of capacity one, and hands  *)
(* it to every exporter without the lock; Close stops the loop and flushes *)
(* once more itself.                                                       *)
(*                                                                         *)
(* Events are numbered in the order they are appended, so the buffer and   *)
(* the batches, which keep that order, are sets of numbers.                *)
(***************************************************************************)
EXTENDS Naturals, FiniteSets

CONSTANTS Senders,    \* goroutines that call Send
          Exporters,  \* the configured exporters
          BatchSize,  \* SIEMConfig.BatchSize
          MayClose,   \* whether Close is called at all
          MaxEvents   \* bound on the events sent

ASSUME SiemAssumption ==
    /\ BatchSize \in Nat /\ MaxEvents \in Nat
    /\ MayClose \in BOOLEAN

Flushers == {"loop", "closer"}

VARIABLES
    sent,       \* how many events have been appended
    buffer,     \* m.buffer
    flushCh,    \* how many signals m.flushCh holds
    done,       \* m.done is closed
    sender,     \* where each Send is
    flusher,    \* where flushLoop and Close are
    batch,      \* events of each flush
    todo,       \* exporters each flush has yet to call
    delivered,  \* what each exporter accepted
    failed      \* what each exporter refused; it is logged and dropped

flushVars == <<flusher, batch, todo, delivered, failed>>
vars == <<sent, buffer, flushCh, done, sender, flushVars>>

Init ==
    /\ sent = 0 /\ buffer = {}
    /\ flushCh = 0 /\ done = FALSE
    /\ sender = [s \in Senders |-> "idle"]
    /\ flusher = [f \in Flushers |-> IF f = "loop" THEN "select" ELSE "open"]
    /\ batch = [f \in Flushers |-> {}]
    /\ todo = [f \in Flushers |-> {}]
    /\ delivered = [x \in Exporters |-> {}]
    /\ failed = [x \in Exporters |-> {}]

-----------------------------------------------------------------------------
(* Send                                                                    *)

\* Mutant: > instead of >=.
IsFullOver(b) == Cardinality(b) > BatchSize

\* shouldFlush
IsFull(b) == Cardinality(b) >= BatchSize

\* The critical section of Send.  The test is made under the lock, the
\* signal is sent after it.
Send(s) ==
    /\ sender[s] = "idle" /\ sent < MaxEvents
    /\ sent' = sent + 1
    /\ buffer' = buffer \cup {sent + 1}
    /\ sender' = [sender EXCEPT ![s] = IF IsFull(buffer') THEN "signal" ELSE "idle"]
    /\ UNCHANGED <<flushCh, done, flushVars>>

\* A signal is dropped when one is waiting already.
Signal(s) ==
    /\ sender[s] = "signal"
    /\ flushCh' = 1
    /\ sender' = [sender EXCEPT ![s] = "idle"]
    /\ UNCHANGED <<sent, buffer, done, flushVars>>

-----------------------------------------------------------------------------
(* flushLoop                                                               *)

Goto(f, where) == flusher' = [flusher EXCEPT ![f] = where]

Tick ==
    /\ flusher["loop"] = "select"
    /\ Goto("loop", "take")
    /\ UNCHANGED <<sent, buffer, flushCh, done, sender, batch, todo, delivered,
                   failed>>

Receive ==
    /\ flusher["loop"] = "select" /\ flushCh > 0
    /\ flushCh' = flushCh - 1
    /\ Goto("loop", "take")
    /\ UNCHANGED <<sent, buffer, done, sender, batch, todo, delivered, failed>>

\* Mutant: the case of m.done breaks out of the select, not of the loop.
StopBreaks ==
    /\ flusher["loop"] = "select" /\ done
    /\ UNCHANGED vars

Stop ==
    /\ flusher["loop"] = "select" /\ done
    /\ Goto("loop", "exit")
    /\ UNCHANGED <<sent, buffer, flushCh, done, sender, batch, todo, delivered,
                   failed>>

-----------------------------------------------------------------------------
(* flush, run by the loop and by Close                                     *)

After(f) == IF f = "loop" THEN "select" ELSE "closed"

\* Mutant: the buffer is copied and not emptied.
TakeKeepsBuffer(f) ==
    /\ flusher[f] = "take"
    /\ IF buffer = {}
       THEN Goto(f, After(f)) /\ UNCHANGED <<batch, todo>>
       ELSE /\ batch' = [batch EXCEPT ![f] = buffer]
            /\ todo' = [todo EXCEPT ![f] = Exporters]
            /\ Goto(f, "export")
    /\ UNCHANGED <<sent, buffer, flushCh, done, sender, delivered, failed>>

\* Mutant: the last BatchSize events are taken, the rest stays for later.
TakeNewest(f) ==
    /\ flusher[f] = "take"
    /\ LET newest == {e \in buffer :
                         Cardinality({d \in buffer : d > e}) < BatchSize}
       IN  IF buffer = {}
           THEN Goto(f, After(f)) /\ UNCHANGED <<batch, todo, buffer>>
           ELSE /\ batch' = [batch EXCEPT ![f] = newest]
                /\ buffer' = buffer \ newest
                /\ todo' = [todo EXCEPT ![f] = Exporters]
                /\ Goto(f, "export")
    /\ UNCHANGED <<sent, flushCh, done, sender, delivered, failed>>

\* The critical section of flush.
Take(f) ==
    /\ flusher[f] = "take"
    /\ IF buffer = {}
       THEN Goto(f, After(f)) /\ UNCHANGED <<batch, todo, buffer>>
       ELSE /\ batch' = [batch EXCEPT ![f] = buffer]
            /\ buffer' = {}
            /\ todo' = [todo EXCEPT ![f] = Exporters]
            /\ Goto(f, "export")
    /\ UNCHANGED <<sent, flushCh, done, sender, delivered, failed>>

\* ex.Send accepts the batch...
Export(f, x) ==
    /\ flusher[f] = "export" /\ x \in todo[f]
    /\ todo' = [todo EXCEPT ![f] = @ \ {x}]
    /\ delivered' = [delivered EXCEPT ![x] = @ \cup batch[f]]
    /\ UNCHANGED <<sent, buffer, flushCh, done, sender, flusher, batch, failed>>

\* ... or fails, and the loop goes on with the next exporter.
ExportFails(f, x) ==
    /\ flusher[f] = "export" /\ x \in todo[f]
    /\ todo' = [todo EXCEPT ![f] = @ \ {x}]
    /\ failed' = [failed EXCEPT ![x] = @ \cup batch[f]]
    /\ UNCHANGED <<sent, buffer, flushCh, done, sender, flusher, batch, delivered>>

Flushed(f) ==
    /\ flusher[f] = "export" /\ todo[f] = {}
    /\ Goto(f, After(f))
    /\ UNCHANGED <<sent, buffer, flushCh, done, sender, batch, todo, delivered,
                   failed>>

FlushStep(f) ==
    \/ Take(f)
    \/ \E x \in Exporters : Export(f, x) \/ ExportFails(f, x)
    \/ Flushed(f)

-----------------------------------------------------------------------------
(* Close                                                                   *)

\* Mutant: Close does not flush.
CloseNoFlush ==
    /\ MayClose /\ flusher["closer"] = "open"
    /\ done' = TRUE
    /\ Goto("closer", "closed")
    /\ UNCHANGED <<sent, buffer, flushCh, sender, batch, todo, delivered, failed>>

\* close(m.done), then flush; the exporters' own Close does nothing.
Close ==
    /\ MayClose /\ flusher["closer"] = "open"
    /\ done' = TRUE
    /\ Goto("closer", "take")
    /\ UNCHANGED <<sent, buffer, flushCh, sender, batch, todo, delivered, failed>>

-----------------------------------------------------------------------------
AtRest ==
    /\ flusher["loop"] = "exit" /\ flusher["closer"] = "closed"
    /\ \A s \in Senders : sender[s] = "idle"
    /\ UNCHANGED vars

Next ==
    \/ \E s \in Senders : Send(s) \/ Signal(s)
    \/ Tick
    \/ Receive
    \/ Stop
    \/ \E f \in Flushers : FlushStep(f)
    \/ Close
    \/ AtRest

Spec == Init /\ [][Next]_vars

\* The ticker keeps ticking, an exporter's call ends (its client has a 30 s
\* timeout), and a select in which m.done is ready does not choose its other
\* cases for ever.
FairSpec ==
    /\ Spec
    /\ \A s \in Senders : WF_vars(Signal(s))
    /\ WF_vars(Tick)
    /\ SF_vars(Stop)
    /\ \A f \in Flushers : WF_vars(FlushStep(f))

-----------------------------------------------------------------------------
(* Properties                                                              *)

\* Every variable has its type.
TypeOK ==
    /\ sent \in 0 .. MaxEvents
    /\ buffer \subseteq 1 .. sent
    /\ flushCh \in 0 .. 1
    /\ done \in BOOLEAN
    /\ sender \in [Senders -> {"idle", "signal"}]
    /\ flusher \in [Flushers -> {"select", "take", "export", "exit", "open", "closed"}]
    /\ batch \in [Flushers -> SUBSET (1 .. sent)]
    /\ todo \in [Flushers -> SUBSET Exporters]
    /\ delivered \in [Exporters -> SUBSET (1 .. sent)]
    /\ failed \in [Exporters -> SUBSET (1 .. sent)]

\* What flush f still has to give to exporter x.
Held(f, x) == IF flusher[f] = "export" /\ x \in todo[f] THEN batch[f] ELSE {}

\* Where an event can be, as far as exporter x is concerned.
Places(x) == <<buffer, Held("loop", x), Held("closer", x), delivered[x], failed[x]>>

\* For every exporter each event that was sent is in exactly one place: it is
\* neither lost between the buffer and the exporter nor exported twice, also
\* when Close flushes beside the loop.
ExactlyOnce ==
    \A x \in Exporters :
        /\ 1 .. sent = UNION {Places(x)[i] : i \in 1 .. 5}
        /\ \A i, j \in 1 .. 5 : i # j => Places(x)[i] \cap Places(x)[j] = {}

\* A full buffer is never left to the next tick: once no Send is between its
\* test and its signal, a signal is waiting or a flush is about to take the
\* buffer, although signals may be dropped.
FullBufferSignalled ==
    (Cardinality(buffer) >= BatchSize /\ buffer # {} /\ \A s \in Senders : sender[s] = "idle")
    => flushCh = 1 \/ flusher["loop"] \in {"take", "exit"}

\* Until Close is called, every exporter gets the events in the order in
\* which they were sent.
DeliveredInOrder ==
    [][~done' => \A x \in Exporters :
          \A e \in delivered'[x] \ delivered[x] : \A d \in delivered[x] : d < e]_vars

\* An event that was sent before Close is offered to every exporter.
EventsOffered ==
    \A e \in 1 .. MaxEvents :
        (sent = e /\ ~done) ~> \A x \in Exporters : e \in delivered[x] \cup failed[x]

\* After Close the loop ends.
LoopEnds == done ~> flusher["loop"] = "exit"

\* Close leaves nothing behind: what was sent before it is offered and the loop ends.
CloseCompletes == EventsOffered /\ LoopEnds
============================================================================
