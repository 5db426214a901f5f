------------------------------ MODULE MCStores ------------------------------
(* The stores, the limiter, the admin API and the life of the process.     *)
(* They do not interact, so each is checked by itself: one is chosen at    *)
(* the start.                                                              *)
EXTENDS RateLimiter, MCRules, SessionStore, Learning, Billing, AdminState, Lifecycle

VARIABLE component

AllAlgorithms == {"fixed_window", "sliding_window", "token_bucket", "leaky_bucket"}

\* A configuration with two keys, and one without.
MCKeyLists == {<<"key1", "key2">>, <<>>}

\* Goroutines are interchangeable, and so are the addresses of sessions.
Interchangeable == Permutations(Callers) \cup Permutations(Addresses)

\* The bound on the requests where all kinds of them mix; with patches and reloads alone
\* it is MaxRuleCalls.
MixedCalls == 3

countVars == <<learnVars, usageVars, stripeVars>>
adminVars == <<accessVars, recordVars, lifeVars>>
storeVars == <<component, vars, ruleVars, sessionVars, countVars, adminVars>>

StoresInit ==
    /\ component \in {"limiter", "rules", "patches", "sessions", "learning", "confidence", "usage",
                      "stripe", "access", "records", "process"}
    /\ Init /\ RulesInit /\ SessionInit /\ LearnInit /\ BillingInit /\ AdminInit /\ LifeInit
    \* what the component does not use has one initial value
    /\ component # "limiter" => algorithm = "fixed_window"
    /\ component # "usage" => \A t \in Tenants, n \in Limits : limits[t] <= n
    /\ component # "access" => keys = <<>>

StoresNext ==
    \/ /\ \/ component = "limiter" /\ Next /\ UNCHANGED <<ruleVars, sessionVars>>
          \/ /\ component = "rules" /\ RulesNext /\ ruleCalls' <= MixedCalls
             /\ UNCHANGED <<vars, sessionVars>>
          \/ /\ component = "patches" /\ \E a \in Admins : PatchRequest(a)
             /\ UNCHANGED <<vars, sessionVars>>
          \/ component = "sessions" /\ SessionNext /\ UNCHANGED <<vars, ruleVars>>
       /\ UNCHANGED <<component, countVars, adminVars>>
    \/ /\ \/ component = "learning" /\ LearnNext /\ UNCHANGED <<usageVars, stripeVars>>
          \/ component = "confidence" /\ ConfidenceNext /\ UNCHANGED <<usageVars, stripeVars>>
          \/ component = "usage" /\ UsageNext /\ UNCHANGED <<learnVars, stripeVars>>
          \/ component = "stripe" /\ StripeNext /\ UNCHANGED <<learnVars, usageVars>>
       /\ UNCHANGED <<component, vars, ruleVars, sessionVars, adminVars>>
    \/ /\ \/ component = "access" /\ AccessNext /\ UNCHANGED <<recordVars, lifeVars>>
          \/ component = "records" /\ RecordNext /\ UNCHANGED <<accessVars, lifeVars>>
          \/ component = "process" /\ LifeNext /\ UNCHANGED <<accessVars, recordVars>>
       /\ UNCHANGED <<component, vars, ruleVars, sessionVars, countVars>>

StoresSpec == StoresInit /\ [][StoresNext]_storeVars
=============================================================================
