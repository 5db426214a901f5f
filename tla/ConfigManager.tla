---------------------------- MODULE ConfigManager ----------------------------
(***************************************************************************)
(* internal/config/config.go with the site handlers of internal/api that   *)
(* change the configuration.  Three kinds of goroutines share a Manager:   *)
(* the fsnotify watcher and the reload endpoint run Reload, which loads    *)
(* the file without the lock and then swaps the live configuration; the    *)
(* API handlers run UpdateConfig, which changes the live configuration in  *)
(* place, validates it and saves it to the same file.  An operator edits   *)
(* the file from outside.                                                  *)
(*                                                                         *)
(* A configuration is its list of sites; a site is its name and upstream,  *)
(* "" standing for a required field left empty.                            *)
(***************************************************************************)
EXTENDS Naturals, Sequences

CONSTANTS Watcher,      \* the watchLoop goroutine
          Admins,       \* callers of the reload endpoint
          Clients,      \* callers of the site handlers
          Names,        \* site names
          Upstreams,    \* non-empty upstreams
          Initial,      \* the configuration the file holds at start
          Edits,        \* the valid configurations the operator writes
          MaxSites,     \* bound: no more sites than this are ever created
          MaxEdits,     \* bound: the operator stops editing
          MaxRequests   \* bound: clients and admins stop calling

ASSUME WatcherAssumption == Watcher \notin Admins \cup Clients
ASSUME ClientsAssumption == Admins \cap Clients = {} /\ "free" \notin Clients
ASSUME MaxAssumption == MaxEdits \in Nat /\ MaxRequests \in Nat

Reloaders == {Watcher} \cup Admins
Procs == Reloaders \cup Clients

Sites == [name : Names, upstream : Upstreams \cup {""}]
Configs == Seq(Sites)

\* Config.Validate: at least one site, and every site is complete.
Validate(c) == c # <<>> /\ \A i \in DOMAIN c : c[i].upstream # ""

ASSUME FilesAssumption ==
    /\ "" \notin Upstreams
    /\ Initial \in Configs /\ Validate(Initial)
    /\ \A c \in Edits : c \in Configs /\ Validate(c)

VARIABLES
    disk,       \* what the file holds; <<>> while it is truncated
    events,     \* a write event for the file is waiting in the watcher
    config,     \* what Manager.config points to
    mu,         \* holder of Manager.mu, or "free"
    pc,         \* where each goroutine is
    loaded,     \* newCfg of each Reload
    change,     \* what the function given to each UpdateConfig does
    editing,    \* what the operator is writing, or <<>>
    edits,      \* how often the operator has edited the file
    requests,   \* how many requests the clients have started
    unsaved,    \* history: config holds a change that was refused or not saved
    torn        \* history: the last write of the file failed halfway

vars == <<disk, events, config, mu, pc, loaded, change, editing, edits, requests,
          unsaved, torn>>

ReloadPCs == {"idle", "load", "swap", "notify"}
UpdatePCs == {"idle", "update", "save", "write", "notify"}

Changes == [op : {"none", "create", "update", "enable", "delete"}, site : Sites]

Init ==
    /\ disk = Initial
    /\ events = FALSE
    /\ config = Initial
    /\ mu = "free"
    /\ pc = [p \in Procs |-> "idle"]
    /\ loaded = [p \in Reloaders |-> Initial]
    /\ change = [p \in Clients |-> [op |-> "none", site |-> Initial[1]]]
    /\ editing = <<>>
    /\ edits = 0
    /\ requests = 0
    /\ unsaved = FALSE /\ torn = FALSE

-----------------------------------------------------------------------------
(* The operator                                                            *)

\* The file is opened with truncation, then written: two write events.
EditTruncate(c) ==
    /\ edits < MaxEdits /\ editing = <<>>
    /\ editing' = c
    /\ edits' = edits + 1
    /\ disk' = <<>>
    /\ events' = TRUE
    /\ UNCHANGED <<config, mu, pc, loaded, change, requests, unsaved, torn>>

EditWrite ==
    /\ editing # <<>>
    /\ disk' = editing
    /\ editing' = <<>>
    /\ events' = TRUE
    /\ torn' = FALSE
    /\ UNCHANGED <<config, mu, pc, loaded, change, edits, requests, unsaved>>

-----------------------------------------------------------------------------
(* Reload                                                                  *)

\* watchLoop: a Write or Create event of the file.
WatchEvent ==
    /\ pc[Watcher] = "idle" /\ events
    /\ events' = FALSE
    /\ pc' = [pc EXCEPT ![Watcher] = "load"]
    /\ UNCHANGED <<disk, config, mu, loaded, change, editing, edits, requests,
                   unsaved, torn>>

\* The reload endpoint.
AdminReload(p) ==
    /\ pc[p] = "idle"
    /\ requests < MaxRequests
    /\ requests' = requests + 1
    /\ pc' = [pc EXCEPT ![p] = "load"]
    /\ UNCHANGED <<disk, events, config, mu, loaded, change, editing, edits,
                   unsaved, torn>>

\* Mutant: Load does not validate.
LoadsAny(c) == TRUE

\* Load succeeds: an empty file leaves DefaultConfig, which has no site.
Loads(c) == Validate(c)

\* Load, without the lock.  On an error Reload returns and nothing changes.
Load(p) ==
    /\ pc[p] = "load"
    /\ IF Loads(disk)
       THEN /\ loaded' = [loaded EXCEPT ![p] = disk]
            /\ pc' = [pc EXCEPT ![p] = "swap"]
       ELSE /\ pc' = [pc EXCEPT ![p] = "idle"]
            /\ UNCHANGED loaded
    /\ UNCHANGED <<change, disk, events, config, mu, editing, edits, requests,
                   unsaved, torn>>

\* Mutant: events that arrived while the file was being loaded are discarded.
SwapDropsEvents(p) ==
    /\ pc[p] = "swap" /\ mu = "free"
    /\ config' = loaded[p]
    /\ events' = FALSE
    /\ unsaved' = FALSE
    /\ pc' = [pc EXCEPT ![p] = "notify"]
    /\ UNCHANGED <<disk, mu, loaded, change, editing, edits, requests, torn>>

\* The critical section of Reload.
Swap(p) ==
    /\ pc[p] = "swap" /\ mu = "free"
    /\ config' = loaded[p]
    /\ unsaved' = FALSE
    /\ pc' = [pc EXCEPT ![p] = "notify"]
    /\ UNCHANGED <<disk, events, mu, loaded, change, editing, edits, requests, torn>>

-----------------------------------------------------------------------------
(* UpdateConfig                                                            *)

HasSite(c, n) == \E i \in DOMAIN c : c[i].name = n

\* A client's call of UpdateConfig with the given change.
Call(p, op, s) ==
    /\ pc[p] = "idle" /\ requests < MaxRequests
    /\ change' = [change EXCEPT ![p] = [op |-> op, site |-> s]]
    /\ pc' = [pc EXCEPT ![p] = "update"]
    /\ requests' = requests + 1
    /\ UNCHANGED <<disk, events, config, mu, loaded, editing, edits, unsaved, torn>>

\* CreateSite looks for the name with Get before it calls UpdateConfig; a
\* duplicate is answered with 409.
CreateSite(p, s) ==
    /\ Len(config) < MaxSites
    /\ ~HasSite(config, s.name)
    /\ Call(p, "create", s)

\* UpdateSite looks for the name inside fn.
UpdateSite(p, s) == Call(p, "update", s)

\* EnableSite and DisableSite change a flag that Validate does not look at.
EnableSite(p) == Call(p, "enable", Initial[1])

DeleteSite(p, n) == Call(p, "delete", [name |-> n, upstream |-> ""])

\* The index of the first site of that name.
First(c, n) ==
    CHOOSE i \in DOMAIN c : /\ c[i].name = n
                            /\ \A j \in 1 .. i - 1 : c[j].name # n

\* append(cfg.Sites[:k], cfg.Sites[k+1:]...)
Without(c, k) ==
    [i \in 1 .. Len(c) - 1 |-> IF i < k THEN c[i] ELSE c[i + 1]]

\* The update functions of the three handlers.
Changed(c, chg) ==
    LET s == chg.site
    IN  CASE chg.op = "create" -> Append(c, s)
          [] chg.op = "update" /\ HasSite(c, s.name) ->
                [c EXCEPT ![First(c, s.name)] = s]
          [] chg.op = "delete" /\ HasSite(c, s.name) ->
                Without(c, First(c, s.name))
          [] OTHER -> c

\* Mutant: the changed configuration is saved without being validated.
AcceptsAny(c) == TRUE

\* The Validate call of UpdateConfig.
Accepts(c) == Validate(c)

\* Lock, fn(m.config), Validate.  fn changes the configuration in place, and
\* a refused change stays.
Mutate(p) ==
    /\ pc[p] = "update" /\ mu = "free"
    /\ config' = Changed(config, change[p])
    /\ IF Accepts(config')
       THEN /\ mu' = p
            /\ pc' = [pc EXCEPT ![p] = "save"]
            /\ UNCHANGED unsaved
       ELSE /\ pc' = [pc EXCEPT ![p] = "idle"]
            /\ unsaved' = TRUE
            /\ UNCHANGED mu
    /\ UNCHANGED <<disk, events, loaded, change, editing, edits, requests, torn>>

\* SaveToFile: os.WriteFile truncates the file...
SaveTruncate(p) ==
    /\ pc[p] = "save"
    /\ disk' = <<>>
    /\ events' = TRUE
    /\ pc' = [pc EXCEPT ![p] = "write"]
    /\ UNCHANGED <<config, mu, loaded, change, editing, edits, requests, unsaved,
                   torn>>

\* Mutant: an early return forgets to unlock.
SaveFailsLocked(p) ==
    /\ pc[p] = "save"
    /\ unsaved' = TRUE
    /\ pc' = [pc EXCEPT ![p] = "idle"]
    /\ UNCHANGED <<disk, events, config, mu, loaded, change, editing, edits,
                   requests, torn>>

\* ... or fails to open it: Unlock, and the change stays in m.config.
SaveFails(p) ==
    /\ pc[p] = "save"
    /\ mu' = "free"
    /\ unsaved' = TRUE
    /\ pc' = [pc EXCEPT ![p] = "idle"]
    /\ UNCHANGED <<disk, events, config, loaded, change, editing, edits,
                   requests, torn>>

\* The first k sites of a configuration, the next one cut short when cut is set.
Torn(c, k, cut) ==
    [i \in 1 .. (IF cut THEN k + 1 ELSE k) |->
        IF i = k + 1 THEN [c[i] EXCEPT !.upstream = ""] ELSE c[i]]

\* The write of the open file fails, as on a full disk: what was written before
\* stays in the file, and UpdateConfig returns the error as above.
SaveTears(p) ==
    /\ pc[p] = "write"
    /\ \E k \in 0 .. Len(config) - 1, cut \in BOOLEAN : disk' = Torn(config, k, cut)
    /\ events' = TRUE
    /\ mu' = "free"
    /\ unsaved' = TRUE /\ torn' = TRUE
    /\ pc' = [pc EXCEPT ![p] = "idle"]
    /\ UNCHANGED <<config, loaded, change, editing, edits, requests>>

\* The file is written, the lock released.
SaveWrite(p) ==
    /\ pc[p] = "write"
    /\ disk' = config
    /\ events' = TRUE
    /\ mu' = "free"
    /\ unsaved' = FALSE /\ torn' = FALSE
    /\ pc' = [pc EXCEPT ![p] = "notify"]
    /\ UNCHANGED <<config, loaded, change, editing, edits, requests>>

\* The OnChange callbacks, after the lock is released; what they do to the
\* proxy is in WafHandler.
Notify(p) ==
    /\ pc[p] = "notify"
    /\ pc' = [pc EXCEPT ![p] = "idle"]
    /\ UNCHANGED <<disk, events, config, mu, loaded, change, editing, edits,
                   requests, unsaved, torn>>

-----------------------------------------------------------------------------
ReloadStep(p) == Load(p) \/ Swap(p) \/ Notify(p)

UpdateStep(p) ==
    \/ Mutate(p)
    \/ SaveTruncate(p)
    \/ SaveFails(p)
    \/ SaveTears(p)
    \/ SaveWrite(p)
    \/ Notify(p)

Request(p) ==
    \/ \E s \in Sites : CreateSite(p, s) \/ UpdateSite(p, s)
    \/ EnableSite(p)
    \/ \E n \in Names : DeleteSite(p, n)

\* Everything has come to rest.
Quiet ==
    /\ edits = MaxEdits /\ editing = <<>> /\ ~events
    /\ requests = MaxRequests
    /\ \A p \in Procs : pc[p] = "idle"

AtRest == Quiet /\ UNCHANGED vars

Next ==
    \/ \E c \in Edits : EditTruncate(c)
    \/ EditWrite
    \/ WatchEvent
    \/ \E p \in Admins : AdminReload(p)
    \/ \E p \in Reloaders : ReloadStep(p)
    \/ \E p \in Clients : Request(p) \/ UpdateStep(p)
    \/ AtRest

Spec == Init /\ [][Next]_vars

\* Goroutines that have something to do are scheduled, an operator who has
\* begun to write the file finishes, and a blocked Lock is granted in turn.
FairSpec ==
    /\ Spec
    /\ WF_vars(EditWrite)
    /\ WF_vars(WatchEvent)
    /\ \A p \in Reloaders : SF_vars(Swap(p)) /\ WF_vars(ReloadStep(p))
    /\ \A p \in Clients : SF_vars(Mutate(p)) /\ WF_vars(UpdateStep(p))

-----------------------------------------------------------------------------
(* Properties                                                              *)

\* Every variable has its type.
TypeOK ==
    /\ disk \in Configs /\ config \in Configs
    /\ events \in BOOLEAN /\ unsaved \in BOOLEAN /\ torn \in BOOLEAN
    /\ mu \in Clients \cup {"free"}
    /\ pc \in [Procs -> ReloadPCs \cup UpdatePCs]
    /\ \A p \in Reloaders : pc[p] \in ReloadPCs
    /\ \A p \in Clients : pc[p] \in UpdatePCs
    /\ loaded \in [Reloaders -> Configs] /\ change \in [Clients -> Changes]
    /\ editing \in Edits \cup {<<>>}
    /\ edits \in 0 .. MaxEdits /\ requests \in 0 .. MaxRequests

Writing == editing # <<>> \/ \E p \in Clients : pc[p] = "write"

\* Unless the last write of the file broke off, the file holds a configuration
\* that Load accepts whenever nobody is writing it: an update that Validate
\* rejects never reaches it, whatever reloads, edits, failing saves and other
\* requests do meanwhile.
FileStaysLoadable == ~Writing /\ ~torn => Validate(disk)

\* The live configuration passes Validate, but for a change that UpdateConfig
\* refused and left in place: a reload never picks up a file that is being
\* written or was left torn.
LiveConfigValid == Validate(config) \/ unsaved

\* Changes to the file apply at run time: once the file is left alone, the
\* live configuration is what the file says, unless it holds a change that was
\* refused or could not be saved, or the file itself was left torn.
ConvergesToFile == <>[](config = disk \/ unsaved \/ torn)

\* Every handler and every reload that has started comes to its end.
CallsReturn == \A p \in Procs : pc[p] # "idle" ~> pc[p] = "idle"
==============================================================================
