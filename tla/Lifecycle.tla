------------------------------- MODULE Lifecycle -------------------------------
(***************************************************************************)
(* func main of cmd/proxy/main.go from the start of its two servers to its *)
(* end: one goroutine per server, one for the signal, and main, which      *)
(* waits for an error of either server or the end of the context, shuts    *)
(* both servers down side by side, each within 30 seconds, and waits for   *)
(* the servers' goroutines.  Of net/http (external): ListenAndServe        *)
(* returns once Shutdown has begun, also when it had not listened yet, and *)
(* Shutdown returns when no request is left or its time is up.             *)
(***************************************************************************)
EXTENDS FiniteSets

CONSTANTS Servers, Conns

ASSUME LifeAssumption == Servers # {}

VARIABLES
    mainAt,      \* "load", "serving", "draining", "stopped", or "exit" (os.Exit)
    listener,    \* server -> what its goroutine does
    errored,     \* server -> its error is in proxyErr or adminErr
    ctxDone,     \* cancel has been called; every request's context hangs on ctx
    signalled,   \* history: the process was told to stop
    shut,        \* server -> what the goroutine that shuts it down does
    conn         \* request -> [server, state]; a state "aborted" is an unfinished answer

lifeVars == <<mainAt, listener, errored, ctxDone, signalled, shut, conn>>

LifeInit ==
    /\ mainAt = "load"
    /\ listener = [s \in Servers |-> "none"]
    /\ errored = [s \in Servers |-> FALSE]
    /\ ctxDone = FALSE /\ signalled = FALSE
    /\ shut = [s \in Servers |-> "none"]
    /\ conn = [r \in Conns |-> [server |-> CHOOSE s \in Servers : TRUE, state |-> "none"]]

Active(s) == {r \in Conns : conn[r].state = "active" /\ conn[r].server = s}

\* config.Load and NewManager, and everything that is built from the configuration
LoadConfig(ok) ==
    /\ mainAt = "load"
    /\ mainAt' = IF ok THEN "serving" ELSE "exit"
    /\ listener' = IF ok THEN [s \in Servers |-> "starting"] ELSE listener
    /\ UNCHANGED <<errored, ctxDone, signalled, shut, conn>>

Listen(s) ==
    /\ listener[s] = "starting" /\ shut[s] = "none"
    /\ listener' = [listener EXCEPT ![s] = "listening"]
    /\ UNCHANGED <<mainAt, errored, ctxDone, signalled, shut, conn>>

\* an error that is not ErrServerClosed: the port is taken, or Accept fails
ServerFails(s) ==
    /\ listener[s] \in {"starting", "listening"} /\ shut[s] = "none"
    /\ listener' = [listener EXCEPT ![s] = "returned"]
    /\ errored' = [errored EXCEPT ![s] = TRUE]
    /\ UNCHANGED <<mainAt, ctxDone, signalled, shut, conn>>

MayReturn(s) == listener[s] \in {"starting", "listening"} /\ shut[s] # "none"

ServerClosed(s) ==
    /\ MayReturn(s)
    /\ listener' = [listener EXCEPT ![s] = "returned"]
    /\ UNCHANGED <<mainAt, errored, ctxDone, signalled, shut, conn>>

Accept(r, s) ==
    /\ conn[r].state = "none" /\ listener[s] = "listening" /\ shut[s] = "none"
    /\ conn' = [conn EXCEPT ![r] = [server |-> s, state |-> "active"]]
    /\ UNCHANGED <<mainAt, listener, errored, ctxDone, signalled, shut>>

\* a request is answered in full, or given up where its handler or the proxy's transport
\* looks at its context, which is cancelled: the signal does that before Shutdown begins
Respond(r, how) ==
    /\ conn[r].state = "active"
    /\ how = "aborted" => ctxDone
    /\ conn' = [conn EXCEPT ![r].state = how]
    /\ UNCHANGED <<mainAt, listener, errored, ctxDone, signalled, shut>>

\* the goroutine that waits for SIGINT and SIGTERM
Signalled ==
    /\ mainAt \in {"serving", "draining"} /\ ~ctxDone
    /\ ctxDone' = TRUE /\ signalled' = TRUE
    /\ UNCHANGED <<mainAt, listener, errored, shut, conn>>

\* the select of main
MaySelect == mainAt = "serving" /\ (ctxDone \/ \E s \in Servers : errored[s])

\* Mutant: main cancels the context in every case before it drains.
SelectedCancels ==
    /\ MaySelect
    /\ mainAt' = "draining" /\ ctxDone' = TRUE
    /\ UNCHANGED <<listener, errored, signalled, shut, conn>>

Selected ==
    /\ MaySelect
    /\ mainAt' = "draining"
    /\ UNCHANGED <<listener, errored, ctxDone, signalled, shut, conn>>

MayBegin(s) == mainAt = "draining" /\ shut[s] = "none"

BeginShutdown(s) ==
    /\ MayBegin(s)
    /\ shut' = [shut EXCEPT ![s] = "draining"]
    /\ UNCHANGED <<mainAt, listener, errored, ctxDone, signalled, conn>>

\* Mutant: Shutdown is given no deadline.
MayEndNoDeadline(s, how) == shut[s] = "draining" /\ Active(s) = {}

MayEnd(s, how) == shut[s] = "draining" /\ (how = "drained" => Active(s) = {})

EndShutdown(s, how) ==
    /\ MayEnd(s, how)
    /\ shut' = [shut EXCEPT ![s] = how]
    /\ UNCHANGED <<mainAt, listener, errored, ctxDone, signalled, conn>>

\* Mutant: main waits only for ListenAndServe, which returns when Shutdown begins.
MayStopEarly == mainAt = "draining" /\ \A s \in Servers : listener[s] = "returned"

\* wgShutdown.Wait and wg.Wait
MayStop ==
    /\ mainAt = "draining"
    /\ \A s \in Servers : shut[s] \in {"drained", "timed_out"} /\ listener[s] = "returned"

Stop ==
    /\ MayStop
    /\ mainAt' = "stopped"
    /\ UNCHANGED <<listener, errored, ctxDone, signalled, shut, conn>>

\* what the process does by itself: its goroutines, and the deadlines it has set
ProcessNext ==
    \/ \E ok \in BOOLEAN : LoadConfig(ok)
    \/ \E s \in Servers : \/ Listen(s) \/ ServerClosed(s) \/ BeginShutdown(s)
                          \/ \E how \in {"drained", "timed_out"} : EndShutdown(s, how)
    \/ Selected \/ Stop

Running == mainAt \in {"load", "serving", "draining"}

LifeNext ==
    /\ Running
    /\ \/ ProcessNext \/ Signalled
       \/ \E s \in Servers : ServerFails(s) \/ \E r \in Conns : Accept(r, s)
       \/ \E r \in Conns, how \in {"served", "aborted"} : Respond(r, how)

LifeSpec == LifeInit /\ [][LifeNext]_lifeVars

-----------------------------------------------------------------------------
(* Properties *)

\* One of the actions that bring main to its end can be taken.
ProcessCanStep ==
    \/ mainAt = "load" \/ MaySelect \/ MayStop
    \/ \E s \in Servers : \/ MayReturn(s) \/ MayBegin(s)
                          \/ \E how \in {"drained", "timed_out"} : MayEnd(s, how)

\* The process stops when it should: after a signal or an error of either server there
\* is always a step it takes by itself, not waiting for a request or a client, until
\* main returns; nobody waits for a server that failed before it listened.
NeverStuck ==
    Running /\ (ctxDone \/ \E s \in Servers : errored[s]) => ProcessCanStep

\* The requests of s that do not get their answer: given up, or left when main returns.
CutOff(s) ==
    {r \in Conns : /\ conn[r].server = s
                   /\ conn[r].state = "aborted" \/ (mainAt = "stopped" /\ conn[r].state = "active")}

\* When main returns no server listens.  If the process stops by itself, because one of
\* its servers failed, no accepted request of either server is cut off unless the 30
\* seconds of its server's Shutdown ran out.  After a signal requests may be cut off at
\* once, since it cancels their contexts, but none is left in progress unless the time
\* ran out.
StopsDrained ==
    mainAt = "stopped" =>
        \A s \in Servers : /\ listener[s] # "listening"
                           /\ Active(s) # {} => shut[s] = "timed_out"
                           /\ CutOff(s) # {} => signalled \/ shut[s] = "timed_out"

\* A shutdown always gets to its end; one that nobody asked for lets the requests in
\* progress get to theirs.
ShutdownComplete == NeverStuck /\ StopsDrained
=============================================================================
