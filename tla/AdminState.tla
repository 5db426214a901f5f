------------------------------ MODULE AdminState ------------------------------
(***************************************************************************)
(* Who may use the admin API, and the records it keeps in memory.          *)
(*                                                                         *)
(* cmd/proxy: the token of handleAuthLogin is the first key of the live    *)
(* configuration, which adminAuthMiddleware reads anew for every request.  *)
(* internal/api: tenants, alerts and alert channels are lists under locks  *)
(* of their own; alert texts, settings and the alert configuration go with *)
(* the record.  A record reads the clock before it takes the lock.         *)
(* The login sessions of internal/api are left out: neither server routes  *)
(* a request to Login, so its table stays empty.                           *)
(***************************************************************************)
EXTENDS Integers, Sequences, FiniteSets, SequencesExt

CONSTANTS Calls,         \* requests in progress
          KeyLists,      \* the APIKeys a configuration may have
          Secrets,       \* what a user may type, keys included
          TenantNames,
          AlertCap,      \* 10000
          MaxRegister,   \* bound
          NoToken, NoCall

ASSUME AdminAssumption ==
    /\ KeyLists \subseteq Seq(Secrets) /\ NoToken \notin Secrets /\ NoCall \notin Nat
    /\ AlertCap \in Nat \ {0} /\ MaxRegister \in Nat

VARIABLES
    keys,         \* Admin.APIKeys of the live configuration
    lastLogin,    \* history: the token of handleAuthLogin since the last reload
    tenants,      \* h.tenants: <<[id, name, renamed], ...>>; renamed is history: the
                  \*   tenant has its name from UpdateTenant
    alerts,       \* h.alerts: <<[at, placed, acked], ...>>; at stands for CreatedAt,
                  \*   placed is history: when the alert entered the list
    creating,     \* the CreatedAt of the alert each request is about to add, or NoCall
    dropped,      \* history: the CreatedAt of the alerts the cap has dropped
    channels,     \* h.alertChannels
    registered    \* the readings of the clock, entries and new records, counted: it
                  \*   tells which of two was first

accessVars == <<keys, lastLogin>>
recordVars == <<tenants, alerts, creating, dropped, channels, registered>>

\* NewHandlers
AdminInit ==
    /\ keys \in KeyLists
    /\ lastLogin = NoToken
    /\ tenants = <<>> /\ alerts = <<>> /\ channels = <<>>
    /\ creating = [c \in Calls |-> NoCall]
    /\ dropped = {}
    /\ registered = 0

-----------------------------------------------------------------------------
(* cmd/proxy *)

\* either field may be a key; without keys everybody is let in
MayLogin(email, password) == keys = <<>> \/ \E i \in DOMAIN keys : keys[i] \in {email, password}

\* Mutant: the token is what was typed.
handleAuthLoginEcho(email, password) ==
    /\ keys # <<>> /\ MayLogin(email, password)
    /\ lastLogin' = password
    /\ UNCHANGED keys

\* handleAuthLogin; without keys it indexes an empty list, and the request ends in a panic
handleAuthLogin(email, password) ==
    /\ keys # <<>> /\ MayLogin(email, password)
    /\ lastLogin' = keys[1]
    /\ UNCHANGED keys

\* adminAuthMiddleware lets every request through when there are no keys
adminAuthMiddleware(token) == keys = <<>> \/ token \in ToSet(keys)

KeysReloaded(new) == keys' = new /\ lastLogin' = NoToken

AccessNext ==
    \/ \E email, password \in Secrets : handleAuthLogin(email, password)
    \/ \E new \in KeyLists : KeysReloaded(new)

-----------------------------------------------------------------------------
(* Records *)

Numbered == registered < MaxRegister /\ registered' = registered + 1

\* Mutant: the name is not checked.
CreateTenantUnchecked(name) ==
    /\ Numbered
    /\ tenants' = Append(tenants, [id |-> registered, name |-> name, renamed |-> FALSE])
    /\ UNCHANGED <<alerts, creating, dropped, channels>>

\* the name is checked and the tenant appended in one critical section
CreateTenant(name) ==
    /\ Numbered
    /\ \A i \in DOMAIN tenants : tenants[i].name # name
    /\ tenants' = Append(tenants, [id |-> registered, name |-> name, renamed |-> FALSE])
    /\ UNCHANGED <<alerts, creating, dropped, channels>>

\* UpdateTenant does not check the new name
UpdateTenant(i, name) ==
    /\ tenants' = [tenants EXCEPT ![i].name = name, ![i].renamed = TRUE]
    /\ UNCHANGED <<alerts, creating, dropped, channels, registered>>

DeleteTenant(i) ==
    /\ tenants' = RemoveAt(tenants, i)
    /\ UNCHANGED <<alerts, creating, dropped, channels, registered>>

\* CreateAlert: the time before the lock ...
CreateAlert(c) ==
    /\ creating[c] = NoCall
    /\ Numbered
    /\ creating' = [creating EXCEPT ![c] = registered]
    /\ UNCHANGED <<tenants, alerts, dropped, channels>>

NewAlert(c) == [at |-> creating[c], placed |-> registered, acked |-> FALSE]

\* the last one goes when there are too many
Trimmed(all) ==
    /\ alerts' = IF Len(all) > AlertCap THEN SubSeq(all, 1, AlertCap) ELSE all
    /\ dropped' = IF Len(all) > AlertCap THEN dropped \cup {all[Len(all)].at} ELSE dropped

\* Mutant: a new alert goes to the end.
AddAlertAtEnd(c) ==
    /\ creating[c] # NoCall
    /\ Numbered
    /\ Trimmed(Append(alerts, NewAlert(c)))
    /\ creating' = [creating EXCEPT ![c] = NoCall]
    /\ UNCHANGED <<tenants, channels>>

\* ... and the list under it
AddAlert(c) ==
    /\ creating[c] # NoCall
    /\ Numbered
    /\ Trimmed(<<NewAlert(c)>> \o alerts)
    /\ creating' = [creating EXCEPT ![c] = NoCall]
    /\ UNCHANGED <<tenants, channels>>

UpdateAlert(i, acked) ==
    /\ alerts' = [alerts EXCEPT ![i].acked = acked]
    /\ UNCHANGED <<tenants, creating, dropped, channels, registered>>

\* ListAlerts: of those that pass the filter, the ones with fewer than limit before them
ListAlerts(acked, limit) ==
    LET passing == {i \in DOMAIN alerts : alerts[i].acked = acked}
    IN  {alerts[i] : i \in {j \in passing : Cardinality({k \in passing : k < j}) < limit}}

CreateAlertChannel ==
    /\ Numbered
    /\ channels' = Append(channels, registered)
    /\ UNCHANGED <<tenants, alerts, creating, dropped>>

DeleteAlertChannel(i) ==
    /\ channels' = RemoveAt(channels, i)
    /\ UNCHANGED <<tenants, alerts, creating, dropped, registered>>

RecordNext ==
    \/ \E name \in TenantNames : \/ CreateTenant(name)
                                 \/ \E i \in DOMAIN tenants : UpdateTenant(i, name)
    \/ \E i \in DOMAIN tenants : DeleteTenant(i)
    \/ \E c \in Calls : CreateAlert(c) \/ AddAlert(c)
    \/ \E i \in DOMAIN alerts, acked \in BOOLEAN : UpdateAlert(i, acked)
    \/ CreateAlertChannel \/ \E i \in DOMAIN channels : DeleteAlertChannel(i)

AdminNext ==
    \/ AccessNext /\ UNCHANGED recordVars
    \/ RecordNext /\ UNCHANGED accessVars

AdminSpec == AdminInit /\ [][AdminNext]_<<accessVars, recordVars>>

-----------------------------------------------------------------------------
(* Properties *)

\* The token handleAuthLogin returns opens the protected routes, whichever of the keys
\* was typed into whichever field, as long as the configuration is not reloaded.
LoginTokenWorks == lastLogin # NoToken => adminAuthMiddleware(lastLogin)

\* Two requests never create the same tenant: of two tenants with one name, at least one
\* has it from UpdateTenant, which does not look whether the name is taken.
TenantNamesUnique ==
    \A i, j \in DOMAIN tenants :
        tenants[i].name = tenants[j].name => i = j \/ tenants[i].renamed \/ tenants[j].renamed

\* The list of alerts goes against the order of the requests.  An alert may stand before
\* one with a later CreatedAt, but only if it entered the list after that reading of the
\* clock, when both requests were in progress: an alert that comes after another has
\* been added is listed before it.  The cap drops, and a listing with a limit leaves out,
\* none that came after a listed one was added.
AlertsNewestFirst ==
    /\ Len(alerts) <= AlertCap
    /\ \A i, j \in DOMAIN alerts : i < j => alerts[i].placed > alerts[j].at
    /\ \A i \in DOMAIN alerts, at \in dropped : alerts[i].placed > at
    /\ \A acked \in BOOLEAN :
           \A i \in DOMAIN alerts : alerts[i].acked = acked =>
               \E a \in ListAlerts(acked, 1) : a.placed > alerts[i].at

\* A login opens the routes, concurrent requests create no tenant twice, and the list of
\* alerts keeps the order of the requests.
AdminConsistent == LoginTokenWorks /\ TenantNamesUnique /\ AlertsNewestFirst
=============================================================================
