------------------------- MODULE WebSocketInspector -------------------------
(***************************************************************************)
(* internal/engine/websocket.go: the count of frames per address.          *)
(* getStats looks the entry up under the read lock, inserts a new one      *)
(* under the write lock without looking again, and resets an entry that    *)
(* was idle for a minute under the write lock once more; InspectMessage    *)
(* counts in a further critical section, on the entry it was given.        *)
(*                                                                         *)
(* A frame is [opcode, size, injection, nesting, lie]: what the checks see *)
(* of it; lie is an announced length that the data does not have.  nesting *)
(* is the number of opening brackets, which is what checkJSONDepth counts. *)
(***************************************************************************)
EXTENDS Integers, FiniteSets

CONSTANTS Peers, Frames, Sockets, \* addresses; frames; goroutines
          AllowedTypes, EnableClose, EnablePing, EnablePong, StrictMode,
          MaxFrameSize, MaxDepth, MaxFramesPerMin, BlockOnLimit,
          Minute, MaxWsTime, MaxFrames, MaxEntries

ASSUME WsAssumption ==
    /\ \A n \in {MaxFrameSize, MaxDepth, MaxFramesPerMin, Minute, MaxWsTime, MaxFrames, MaxEntries} : n \in Nat
    /\ {EnableClose, EnablePing, EnablePong, StrictMode, BlockOnLimit} \subseteq BOOLEAN

VARIABLES
    frameLog,   \* address -> entry, 0 if there is none
    entries,    \* entry -> [count, seen]; seen is -Minute - 1 before the first frame
    socket,     \* goroutine -> its call
    wsTime,
    frames,     \* history: address -> frames since its last idle minute
    last,       \* history: address -> time of its last frame
    replaced    \* history: the addresses whose entry another one has replaced

wsVars == <<frameLog, entries, socket, wsTime, frames, last, replaced>>

Never == -Minute - 1
IdleSocket == [pc |-> "idle"]
Upgrade == [opcode |-> "upgrade", lie |-> FALSE]
NewEntry == [count |-> 0, seen |-> Never]

\* NewWebSocketInspector
WsInit ==
    /\ frameLog = [p \in Peers |-> 0]
    /\ entries = <<>>
    /\ socket = [s \in Sockets |-> IdleSocket]
    /\ wsTime = 0
    /\ frames = [p \in Peers |-> 0] /\ last = [p \in Peers |-> Never]
    /\ replaced = {}

\* ParseFrame: the frame, or an error if the data is shorter than it says
ParseFrame(f) == ~f.lie

checkInjection(f) == f.injection          \* one of the patterns occurs
checkJSONDepth(f) == f.nesting > MaxDepth

\* The checks of one frame, in their order; the count is not one of them.
frameVerdict(f) ==
    CASE f.opcode = "close" /\ ~EnableClose -> "WS-002"
      [] f.opcode = "ping" /\ ~EnablePing -> "WS-003"
      [] f.opcode = "pong" /\ ~EnablePong -> "WS-004"
      [] f.opcode \notin AllowedTypes -> "WS-005"
      [] f.size > MaxFrameSize -> "WS-006"
      [] StrictMode /\ f.opcode = "text" /\ checkInjection(f) -> "WS-INJ-001"
      [] MaxDepth > 0 /\ f.opcode = "text" /\ checkJSONDepth(f) -> "WS-JSON-001"
      [] OTHER -> "allow"

\* Inspect of an upgrade, once it has the count
limitVerdict(count) ==
    IF MaxFramesPerMin = 0 \/ count <= MaxFramesPerMin THEN "allow"
    ELSE IF BlockOnLimit THEN "block" ELSE "monitor"

\* getStats for Inspect (frame is Upgrade, isWebSocket holds) or for
\* InspectMessage: the look-up
lookupStats(s, p, f) ==
    /\ socket[s] = IdleSocket
    /\ ParseFrame(f)
    /\ socket' = [socket EXCEPT ![s] = [peer |-> p, frame |-> f, entry |-> frameLog[p],
           verdict |-> "none", pc |-> IF frameLog[p] = 0 THEN "insert" ELSE "reset"]]
    /\ UNCHANGED <<frameLog, entries, wsTime, frames, last, replaced>>

insertStats(s) ==
    LET p == socket[s].peer e == Cardinality(DOMAIN entries) + 1 IN
    /\ socket[s].pc = "insert" /\ e <= MaxEntries
    /\ entries' = [x \in 1 .. e |-> IF x = e THEN NewEntry ELSE entries[x]]
    /\ frameLog' = [frameLog EXCEPT ![p] = e]
    /\ socket' = [socket EXCEPT ![s].pc = "reset", ![s].entry = e]
    /\ replaced' = IF frameLog[p] # 0 THEN replaced \cup {p} ELSE replaced
    /\ UNCHANGED <<wsTime, frames, last>>

\* Mutant: a full minute is not waited for.
LapsedEarly(e) == wsTime - entries[e].seen >= Minute
Lapsed(e) == wsTime - entries[e].seen > Minute

\* The reset of getStats.  Inspect then compares the count with the limit.
resetStats(s) ==
    LET c == socket[s] e == c.entry
        stats == IF Lapsed(e) THEN [entries[e] EXCEPT !.count = 0] ELSE entries[e]
    IN
    /\ c.pc = "reset"
    /\ entries' = [entries EXCEPT ![e] = stats]
    /\ socket' = [socket EXCEPT ![s] =
           IF c.frame # Upgrade THEN [c EXCEPT !.pc = "count"]
           ELSE [c EXCEPT !.pc = "done", !.verdict = limitVerdict(stats.count)]]
    /\ frames' = IF wsTime - last[c.peer] > Minute THEN [frames EXCEPT ![c.peer] = 0] ELSE frames
    /\ UNCHANGED <<frameLog, wsTime, last, replaced>>

\* InspectMessage, the count and then the checks
InspectMessage(s) ==
    LET c == socket[s] e == c.entry IN
    /\ c.pc = "count" /\ frames[c.peer] < MaxFrames
    /\ entries' = [entries EXCEPT ![e] = [count |-> @.count + 1, seen |-> wsTime]]
    /\ frames' = [frames EXCEPT ![c.peer] = @ + 1]
    /\ last' = [last EXCEPT ![c.peer] = wsTime]
    /\ socket' = [socket EXCEPT ![s].pc = "done", ![s].verdict = frameVerdict(c.frame)]
    /\ UNCHANGED <<frameLog, wsTime, replaced>>

Return(s) ==
    /\ socket[s].pc = "done"
    /\ socket' = [socket EXCEPT ![s] = IdleSocket]
    /\ UNCHANGED <<frameLog, entries, wsTime, frames, last, replaced>>

WsTick ==
    /\ wsTime < MaxWsTime
    /\ wsTime' = wsTime + 1
    /\ UNCHANGED <<frameLog, entries, socket, frames, last, replaced>>

WsNext ==
    \/ \E s \in Sockets : insertStats(s) \/ resetStats(s) \/ InspectMessage(s) \/ Return(s)
    \/ \E s \in Sockets, p \in Peers, f \in Frames \cup {Upgrade} : lookupStats(s, p, f)
    \/ WsTick

WsSpec == WsInit /\ [][WsNext]_wsVars

-----------------------------------------------------------------------------
\* The count an upgrade is judged by is the number of frames the address has
\* sent since it was last idle for a minute, however its connections
\* interleave, unless two first frames raced and one's entry replaced the
\* other's: only then are frames forgotten.
CountIsExact ==
    \A p \in Peers \ replaced :
        frames[p] = IF frameLog[p] = 0 THEN 0 ELSE entries[frameLog[p]].count
=============================================================================
