------------------------------- MODULE RuleAdmin -------------------------------
(***************************************************************************)
(* The handlers of internal/api/handlers.go that change rules: the list of *)
(* the configuration (saved in its file by UpdateConfig) and the list of   *)
(* the rule engine, which follows in a second step of its own.  An admin   *)
(* is one request in progress.  UpdateConfig is one step, under the lock   *)
(* of the manager; its save may fail, and then the handler gives up with   *)
(* the change live but not in the file and not in the engine.  (A load     *)
(* that meets a file half written is in ConfigManager.)                    *)
(***************************************************************************)
EXTENDS RuleEngine

CONSTANTS Admins, Patches, PatchRules, \* PatchRules: patch -> sequence of rules
          OwnRules,     \* the rules operators create: [id, priority, cond]
          BulkLists,    \* the lists BulkRules and ImportConfig are sent
          SaveMayFail,
          MaxRuleCalls   \* bound on the requests

ASSUME RuleAdminAssumption ==
    /\ PatchRules \in [Patches -> Seq(RuleSet)]
    /\ OwnRules \subseteq RuleSet /\ BulkLists \subseteq Seq(RuleSet)
    /\ SaveMayFail \in BOOLEAN /\ MaxRuleCalls \in Nat

VARIABLES
    engine,     \* h.ruleEngine
    cfgRules,   \* the Rules of the live configuration
    fileRules,  \* those of its file
    patches,    \* h.patches: patch -> its status, "none" before and after
    ruleTask,   \* what each request has still to do
    ruleCalls,  \* history: how many requests have begun
    drifted     \* history: the live list and its file have parted, for a save has
                \*   failed, or a reload has installed what the file no longer held

ruleVars == <<engine, cfgRules, fileRules, patches, ruleTask, ruleCalls, drifted>>

Idle == [step |-> "idle", ids |-> <<>>, rules |-> <<>>]

RulesInit ==
    /\ engine = NewEngine
    /\ cfgRules = <<>> /\ fileRules = <<>>
    /\ patches = [p \in Patches |-> "none"]
    /\ ruleTask = [a \in Admins |-> Idle]
    /\ ruleCalls = 0
    /\ drifted = FALSE

-----------------------------------------------------------------------------
(* Steps shared by the handlers *)

Begin(a) == /\ ruleTask[a] = Idle /\ ruleCalls < MaxRuleCalls
            /\ ruleCalls' = ruleCalls + 1

Then(a, step, ids, rs) ==
    ruleTask' = [ruleTask EXCEPT ![a] = [step |-> step, ids |-> ids, rules |-> rs]]

\* config.Manager.UpdateConfig: the new list is live whether or not it is saved
UpdateConfig(list, saved) ==
    /\ saved \/ SaveMayFail
    /\ cfgRules' = list
    /\ fileRules' = IF saved THEN list ELSE fileRules
    /\ drifted' = (drifted \/ ~saved)

HasRule(id) == id \in IDsOf(cfgRules)

\* the first rule with the ID, where Config.GetRule and the handlers' loops stop
FirstAt(id) == CHOOSE i \in DOMAIN cfgRules :
                   /\ cfgRules[i].id = id
                   /\ \A j \in 1 .. i - 1 : cfgRules[j].id # id

Unsaved == UNCHANGED <<cfgRules, fileRules, drifted>>

-----------------------------------------------------------------------------
(* CreateRule: the check, the configuration and the engine in three steps *)

CreateRuleCheck(a, r) ==
    /\ Begin(a)
    /\ ~HasRule(r.id)
    /\ Then(a, "create", <<>>, <<[r EXCEPT !.enabled = FALSE]>>)
    /\ UNCHANGED <<engine, patches>> /\ Unsaved

CreateRuleSave(a) ==
    /\ ruleTask[a].step = "create"
    /\ \E saved \in BOOLEAN :
         /\ UpdateConfig(cfgRules \o ruleTask[a].rules, saved)
         /\ IF saved THEN Then(a, "add", <<>>, ruleTask[a].rules)
                     ELSE Then(a, "idle", <<>>, <<>>)
    /\ UNCHANGED <<engine, patches, ruleCalls>>

CreateRuleAdd(a) ==
    /\ ruleTask[a].step = "add"
    /\ engine' \in AddRule(engine, ruleTask[a].rules[1])
    /\ Then(a, "idle", <<>>, <<>>)
    /\ UNCHANGED <<patches, ruleCalls>> /\ Unsaved

(* UpdateRule, EnableRule, DisableRule: change the rule in the configuration, *)
(* read it back, and give the engine what was read *)

\* the fields of the request replace those of the rule; an absent priority is 0
Edited(r, req) ==
    [r EXCEPT !.priority = IF req.priority = 0 THEN @ ELSE req.priority,
              !.cond = req.cond]

ChangeRule(a, id, new) ==
    /\ Begin(a)
    /\ HasRule(id)
    /\ \E saved \in BOOLEAN :
         /\ UpdateConfig([cfgRules EXCEPT ![FirstAt(id)] = new], saved)
         /\ IF saved THEN Then(a, "read", <<id>>, <<>>) ELSE Then(a, "idle", <<>>, <<>>)
    /\ UNCHANGED <<engine, patches>>

HandleUpdateRule(a, id, req) == HasRule(id) /\ ChangeRule(a, id, Edited(cfgRules[FirstAt(id)], req))
EnableRule(a, id) == HasRule(id) /\ ChangeRule(a, id, [cfgRules[FirstAt(id)] EXCEPT !.enabled = TRUE])
DisableRule(a, id) == HasRule(id) /\ ChangeRule(a, id, [cfgRules[FirstAt(id)] EXCEPT !.enabled = FALSE])

\* syncRuleToEngine, for the next of the request's IDs; one that is gone is skipped
SyncRead(a) ==
    LET ids == ruleTask[a].ids IN
    /\ ruleTask[a].step = "read"
    /\ IF HasRule(Head(ids)) THEN Then(a, "write", ids, <<cfgRules[FirstAt(Head(ids))]>>)
       ELSE Then(a, IF Len(ids) = 1 THEN "idle" ELSE "read", Tail(ids), <<>>)
    /\ UNCHANGED <<engine, patches, ruleCalls>> /\ Unsaved

SyncWrite(a) ==
    LET ids == ruleTask[a].ids IN
    /\ ruleTask[a].step = "write"
    /\ engine' \in UpdateRule(engine, Head(ids), ruleTask[a].rules[1])
    /\ Then(a, IF Len(ids) = 1 THEN "idle" ELSE "read", Tail(ids), <<>>)
    /\ UNCHANGED <<patches, ruleCalls>> /\ Unsaved

(* DeleteRule removes the first rule with the ID from the configuration, and then *)
(* the ID from the engine *)

DeleteRuleSave(a, id) ==
    /\ Begin(a)
    /\ HasRule(id)
    /\ \E saved \in BOOLEAN :
         /\ UpdateConfig(RemoveAt(cfgRules, FirstAt(id)), saved)
         /\ IF saved THEN Then(a, "delete", <<id>>, <<>>) ELSE Then(a, "idle", <<>>, <<>>)
    /\ UNCHANGED <<engine, patches>>

DeleteRuleDrop(a) ==
    /\ ruleTask[a].step = "delete"
    /\ engine' = DeleteRule(engine, ruleTask[a].ids[1])
    /\ Then(a, "idle", <<>>, <<>>)
    /\ UNCHANGED <<patches, ruleCalls>> /\ Unsaved

\* BulkRules: the positions are looked up before the first rule is applied, the last
\* rule of an ID wins, and an ID that is new and twice in the list is appended twice
BulkApply(list) ==
    LET new == {j \in DOMAIN list : ~HasRule(list[j].id)}
    IN  [i \in DOMAIN cfgRules |->
            LET id == cfgRules[i].id
            IN  IF id \in IDsOf(list) /\ i = LastAt(cfgRules, id) THEN list[LastAt(list, id)]
                ELSE cfgRules[i]]
        \o Kept(list, new)

BulkRules(a, list) ==
    /\ Begin(a)
    /\ list # <<>>
    /\ \E saved \in BOOLEAN :
         /\ UpdateConfig(BulkApply([i \in DOMAIN list |-> [list[i] EXCEPT !.enabled = FALSE]]), saved)
         /\ IF saved THEN Then(a, "read", [i \in DOMAIN list |-> list[i].id], <<>>)
                     ELSE Then(a, "idle", <<>>, <<>>)
    /\ UNCHANGED <<engine, patches>>

\* ReorderRule tells the engine only
HandleReorderRule(a, id, priority) ==
    /\ Begin(a)
    /\ engine' \in ReorderRule(engine, id, priority)
    /\ UNCHANGED <<patches, ruleTask>> /\ Unsaved

-----------------------------------------------------------------------------
(* Virtual patches, under patchesMu, and whole configurations *)

CreatePatch(a, p) ==
    /\ Begin(a)
    /\ patches[p] = "none"
    /\ patches' = [patches EXCEPT ![p] = "draft"]
    /\ UNCHANGED <<engine, ruleTask>> /\ Unsaved

\* ApplyPatch, DeployPatch: a revoked patch may be applied again
ApplyPatch(a, p) ==
    /\ Begin(a)
    /\ patches[p] \in {"draft", "revoked"}
    /\ \E saved \in BOOLEAN :
         /\ UpdateConfig(cfgRules \o PatchRules[p], saved)
         /\ patches' = IF saved THEN [patches EXCEPT ![p] = "deployed"] ELSE patches
    /\ UNCHANGED <<engine, ruleTask>>

\* RevokePatch removes every rule with an ID of the patch
RevokePatch(a, p) ==
    LET ids == IDsOf(PatchRules[p]) IN
    /\ Begin(a)
    /\ patches[p] = "deployed"
    /\ \E saved \in BOOLEAN :
         /\ UpdateConfig(Kept(cfgRules, {i \in DOMAIN cfgRules : cfgRules[i].id \notin ids}), saved)
         /\ patches' = IF saved THEN [patches EXCEPT ![p] = "revoked"] ELSE patches
    /\ UNCHANGED <<engine, ruleTask>>

\* Mutant: a deployed patch can be deleted.
DeletePatchAlways(a, p) ==
    /\ Begin(a)
    /\ patches' = [patches EXCEPT ![p] = "none"]
    /\ UNCHANGED <<engine, ruleTask>> /\ Unsaved

DeletePatch(a, p) ==
    /\ Begin(a)
    /\ patches[p] \in {"draft", "revoked"}
    /\ patches' = [patches EXCEPT ![p] = "none"]
    /\ UNCHANGED <<engine, ruleTask>> /\ Unsaved

ImportConfig(a, list) ==
    /\ Begin(a)
    /\ \E saved \in BOOLEAN : UpdateConfig(list, saved)
    /\ UNCHANGED <<engine, patches, ruleTask>>

\* AdminReload: Reload, which loads the file and then takes the lock to install what it
\* has loaded; the list read from the manager; AtomicSwap
AdminReload(a) ==
    /\ Begin(a)
    /\ Then(a, "loaded", <<>>, fileRules)
    /\ UNCHANGED <<engine, patches>> /\ Unsaved

AdminReloadInstall(a) ==
    /\ ruleTask[a].step = "loaded"
    /\ cfgRules' = ruleTask[a].rules
    /\ drifted' = (drifted \/ ruleTask[a].rules # fileRules)
    /\ Then(a, "reloaded", <<>>, <<>>)
    /\ UNCHANGED <<engine, fileRules, patches, ruleCalls>>

AdminReloadRead(a) ==
    /\ ruleTask[a].step = "reloaded"
    /\ Then(a, "swap", <<>>, cfgRules)
    /\ UNCHANGED <<engine, patches, ruleCalls>> /\ Unsaved

AdminReloadSwap(a) ==
    /\ ruleTask[a].step = "swap"
    /\ engine' \in LoadRules(ruleTask[a].rules)
    /\ Then(a, "idle", <<>>, <<>>)
    /\ UNCHANGED <<patches, ruleCalls>> /\ Unsaved

RuleRequest(a) ==
    \/ \E r \in OwnRules : CreateRuleCheck(a, r)
    \/ CreateRuleSave(a) \/ CreateRuleAdd(a)
    \/ \E id \in RuleIDs : \/ \E req \in OwnRules : HandleUpdateRule(a, id, req)
                           \/ EnableRule(a, id) \/ DisableRule(a, id)
                           \/ DeleteRuleSave(a, id)
                           \/ \E p \in Priorities : HandleReorderRule(a, id, p)
    \/ SyncRead(a) \/ SyncWrite(a) \/ DeleteRuleDrop(a)
    \/ \E list \in BulkLists : BulkRules(a, list) \/ ImportConfig(a, list)

PatchRequest(a) ==
    \/ \E p \in Patches : CreatePatch(a, p) \/ ApplyPatch(a, p)
                          \/ RevokePatch(a, p) \/ DeletePatch(a, p)
    \/ AdminReload(a) \/ AdminReloadInstall(a) \/ AdminReloadRead(a) \/ AdminReloadSwap(a)

RulesNext == \E a \in Admins : RuleRequest(a) \/ PatchRequest(a)

RulesSpec == RulesInit /\ [][RulesNext]_ruleVars

-----------------------------------------------------------------------------
(* Properties *)

\* Every list holds rules, every pointer of the index points at one, and the list
\* never outgrows its array.
RulesTypeOK ==
    /\ engine.list \in Seq(RuleSet) /\ Len(engine.list) <= engine.cap
    /\ DOMAIN engine.byID \subseteq RuleIDs
    /\ \A id \in DOMAIN engine.byID : GetRule(engine, id) \in RuleSet
    /\ cfgRules \in Seq(RuleSet) /\ fileRules \in Seq(RuleSet)
    /\ patches \in [Patches -> {"none", "draft", "deployed", "revoked"}]

\* What decides a request is, whatever sequence of changes led to the list, the rule
\* of least priority number among the enabled ones that match, and of these the one
\* with the least ID ("Rules are evaluated in priority order").
FirstMatchWins ==
    \A q \in Requests :
        LET matching == {r \in ToSet(engine.list) : r.enabled /\ evaluateRule(r, q)}
        IN  InspectRules(engine.list, q) =
              IF matching = {} \/ DryRun THEN Allow
              ELSE (CHOOSE r \in matching : \A s \in matching : Before(r, s)).id

\* A rule that can decide a request can be deleted: the index knows the ID of every
\* rule in the list, however updates through stale pointers have moved the rules.
ListedIsIndexed ==
    \A r \in ToSet(engine.list) : r.id \in DOMAIN engine.byID

\* the IDs that operators give rules themselves
OperatorIDs == {r.id : r \in OwnRules} \cup UNION {IDsOf(list) : list \in BulkLists}

\* A rule that only a virtual patch brings is in the configuration only while such a patch
\* is deployed, unless a save failed or a reload installed a list that had been changed
\* since it was loaded: that brings the rules of a revoked patch back.
NoOrphanPatchRules ==
    ~drifted =>
        \A id \in IDsOf(cfgRules) \ OperatorIDs :
            \E p \in Patches : patches[p] = "deployed" /\ id \in IDsOf(PatchRules[p])

\* However the handlers of rules and patches interleave, the list, its index, the
\* configuration and the patches agree, and the list decides as rules.md says.
RulesConsistent == RulesTypeOK /\ FirstMatchWins /\ ListedIsIndexed /\ NoOrphanPatchRules

\* A rule that is enabled in the configuration and known to the engine is enforced:
\* when no request is in progress, the engine's list has it enabled.
EnabledRuleEnforced ==
    (\A a \in Admins : ruleTask[a] = Idle) =>
        \A id \in DOMAIN engine.byID :
            HasRule(id) /\ cfgRules[FirstAt(id)].enabled =>
                \E r \in ToSet(engine.list) : r.id = id /\ r.enabled
=============================================================================
