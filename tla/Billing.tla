-------------------------------- MODULE Billing --------------------------------
(***************************************************************************)
(* internal/billing/usage.go and stripe.go.                                *)
(*                                                                         *)
(* A caller asks CheckLimit and, when admitted, later calls RecordRequest. *)
(* CheckLimit takes the counter's address under the lock and reads the     *)
(* counter after it: one read of one word, so one step here.  The counters *)
(* of the month, which nothing tests, are left out.                        *)
(*                                                                         *)
(* The webhook handlers: Stripe may deliver an event late, out of order or *)
(* twice, and the handlers keep no record of what they have handled.  Each *)
(* runs in a goroutine of the HTTP server and takes no lock, so every call *)
(* of the database is a step of its own.  The database is external; what   *)
(* it answers to a write is dropped by the handlers, so any write may      *)
(* leave the record as it was.  Of a record only the status is kept: the   *)
(* ends of the period and of the grace are stored and never tested.        *)
(* The licence is looked up by organisation; one that has a single         *)
(* subscription is modelled, so a licence goes with a subscription.        *)
(***************************************************************************)
EXTENDS Integers, FiniteSets

CONSTANTS Tenants, Limits, Clients,
          Day,                      \* 24 hours, in ticks
          MaxUsageTime, MaxUsage,   \* bounds
          Subscriptions,
          Hooks,                    \* the goroutines of HandleWebhook and CancelSubscription
          NoRecord

ASSUME BillingAssumption ==
    /\ Limits \subseteq Nat \ {0} /\ Limits # {} /\ IsFiniteSet(Clients)
    /\ NoRecord \notin Tenants
    /\ {Day, MaxUsageTime, MaxUsage} \subseteq Nat

VARIABLES
    usage,      \* u.counters: tenant -> counter, or NoRecord
    limits,     \* u.limits; 0 stands for none
    admitted,   \* the tenant each client has been admitted for, or NoRecord
    copied,     \* what CopyCounters has returned last
    usageTime,  \* time.Now
    highest,    \* history: the highest limit of each tenant; 0 once it had none,
                \*   or once counters were merged into its own
    subs,       \* the status of each subscription in the database, or NoRecord
    licences,   \* that of its licence, or NoRecord
    hook,       \* the event each goroutine handles, or NoRecord
    ended,      \* history: the subscriptions whose end has been handled, with nothing
                \*   new announced since
    unclean     \* history: the goroutines with a lost write, or met by a payment, a
                \*   creation or an update of the same subscription

usageVars == <<usage, limits, admitted, copied, usageTime, highest>>
stripeVars == <<subs, licences, hook, ended, unclean>>

FreshUsage == [today |-> 0, blocks |-> 0, dayStart |-> usageTime]

BillingInit ==
    /\ usage = [t \in Tenants |-> NoRecord]
    /\ limits \in [Tenants -> Limits]       \* each tenant is given a limit first
    /\ highest = limits
    /\ admitted = [c \in Clients |-> NoRecord]
    /\ copied = usage
    /\ usageTime = 0
    /\ subs = [s \in Subscriptions |-> NoRecord]
    /\ licences = [s \in Subscriptions |-> NoRecord]
    /\ hook = [w \in Hooks |-> NoRecord]
    /\ ended = {} /\ unclean = {}

-----------------------------------------------------------------------------
(* usage.go *)

SetLimit(t, n) ==
    /\ limits' = [limits EXCEPT ![t] = n]
    /\ highest' = IF highest[t] # 0 /\ n > highest[t]
                  THEN [highest EXCEPT ![t] = n] ELSE highest
    /\ UNCHANGED <<usage, admitted, copied, usageTime>>

\* Mutant: the limit itself still passes.
WithinLimitInclusive(t) == limits[t] > 0 /\ usage[t] # NoRecord => usage[t].today <= limits[t]

\* the answer of CheckLimit; a tenant without a limit or a counter is within it
WithinLimit(t) == limits[t] > 0 /\ usage[t] # NoRecord => usage[t].today < limits[t]

CheckLimit(c, t) ==
    /\ admitted[c] = NoRecord
    /\ WithinLimit(t)
    /\ admitted' = [admitted EXCEPT ![c] = t]
    /\ UNCHANGED <<usage, limits, copied, usageTime, highest>>

\* the counters a request finds: reset once more than a day has passed
Current(t) ==
    LET u == IF usage[t] = NoRecord THEN FreshUsage ELSE usage[t]
    IN  IF usageTime - u.dayStart > Day THEN FreshUsage ELSE u

RecordRequest(c, blocked) ==
    /\ admitted[c] # NoRecord
    /\ LET t == admitted[c] IN
         /\ Current(t).today < MaxUsage
         /\ usage' = [usage EXCEPT ![t] =
                [Current(t) EXCEPT !.today = @ + 1,
                                   !.blocks = IF blocked THEN @ + 1 ELSE @]]
    /\ admitted' = [admitted EXCEPT ![c] = NoRecord]
    /\ UNCHANGED <<limits, copied, usageTime, highest>>

\* Mutant: the blocks of the day stay.
ResetDailyKeepsBlocks(t) ==
    /\ usage[t] # NoRecord
    /\ usage' = [usage EXCEPT ![t].today = 0, ![t].dayStart = usageTime]
    /\ UNCHANGED <<limits, admitted, copied, usageTime, highest>>

ResetDaily(t) ==
    /\ usage[t] # NoRecord
    /\ usage' = [usage EXCEPT ![t].today = 0, ![t].blocks = 0, ![t].dayStart = usageTime]
    /\ UNCHANGED <<limits, admitted, copied, usageTime, highest>>

RemoveTenant(t) ==
    /\ usage' = [usage EXCEPT ![t] = NoRecord]
    /\ limits' = [limits EXCEPT ![t] = 0]
    /\ highest' = [highest EXCEPT ![t] = 0]
    /\ UNCHANGED <<admitted, copied, usageTime>>

CopyCounters ==
    /\ copied' = usage
    /\ UNCHANGED <<usage, limits, admitted, usageTime, highest>>

\* MergeCounters adds the counts of a copy, whatever day it is from
MergeCounters ==
    LET sum(t) == [usage[t] EXCEPT !.today = @ + copied[t].today,
                                   !.blocks = @ + copied[t].blocks]
    IN  /\ \A t \in Tenants : copied[t] # NoRecord /\ usage[t] # NoRecord =>
               sum(t).today <= MaxUsage
        /\ usage' = [t \in Tenants |-> IF copied[t] = NoRecord THEN usage[t]
                                       ELSE IF usage[t] = NoRecord THEN copied[t]
                                       ELSE sum(t)]
        /\ highest' = [t \in Tenants |-> IF copied[t] = NoRecord THEN highest[t] ELSE 0]
        /\ UNCHANGED <<limits, admitted, copied, usageTime>>

UsageTick ==
    /\ usageTime < MaxUsageTime
    /\ usageTime' = usageTime + 1
    /\ UNCHANGED <<usage, limits, admitted, copied, highest>>

\* Mutant: an overrun is not cut at zero.
RemainingNegative(t) ==
    IF limits[t] <= 0 THEN -1 ELSE limits[t] - (IF usage[t] = NoRecord THEN 0 ELSE usage[t].today)

\* UsageSnapshot.RemainingRequests; -1 without a limit
RemainingRequests(t) ==
    LET today == IF usage[t] = NoRecord THEN 0 ELSE usage[t].today
    IN  IF limits[t] <= 0 THEN -1
        ELSE IF limits[t] < today THEN 0 ELSE limits[t] - today

UsageNext ==
    \/ \E t \in Tenants : \/ \E n \in Limits : SetLimit(t, n)
                          \/ \E c \in Clients : CheckLimit(c, t)
                          \/ ResetDaily(t) \/ RemoveTenant(t)
    \/ \E c \in Clients, blocked \in BOOLEAN : RecordRequest(c, blocked)
    \/ CopyCounters \/ MergeCounters \/ UsageTick

UsageSpec == BillingInit /\ [][UsageNext]_usageVars

-----------------------------------------------------------------------------
(* stripe.go: HandleWebhook, one handler per type of event.  A handler     *)
(* begins with its read of the subscription, if it makes one, goes on with *)
(* the status it will write and ends when its goroutine is free again.     *)

\* The events with which a subscription goes on.
Reviving == {"created", "updated", "paid"}

\* The goroutines that handle one of the kinds for s.
Handling(s, kinds) == {w \in Hooks : hook[w] # NoRecord /\ hook[w].sub = s /\ hook[w].kind \in kinds}

HandleEvent(w, s, kind, status) ==
    /\ hook[w] = NoRecord
    /\ hook' = [hook EXCEPT ![w] = [kind |-> kind, sub |-> s, status |-> status,
                                   step |-> "subscription"]]
    /\ ended' = IF kind \in {"created", "updated"} THEN ended \ {s} ELSE ended
    /\ unclean' = IF kind \in Reviving THEN unclean \cup Handling(s, {"deleted"})
                  ELSE IF Handling(s, Reviving) # {} THEN unclean \cup {w}
                  ELSE unclean \ {w}
    /\ UNCHANGED <<subs, licences>>

handleSubscriptionCreated(w, s, status) == HandleEvent(w, s, "created", status)

handleSubscriptionUpdated(w, s, status) == subs[s] # NoRecord /\ HandleEvent(w, s, "updated", status)

handleSubscriptionDeleted(w, s) == subs[s] # NoRecord /\ HandleEvent(w, s, "deleted", "canceled")

\* Mutant: a payment reactivates whatever it is for.
handleInvoicePaidAlways(w, s) == subs[s] # NoRecord /\ HandleEvent(w, s, "paid", "active")

\* a payment reactivates only what its handler reads as past due
handleInvoicePaid(w, s) == subs[s] = "past_due" /\ HandleEvent(w, s, "paid", "active")

\* from our side; Stripe's event follows or not
CancelSubscription(w, s) == subs[s] # NoRecord /\ HandleEvent(w, s, "cancel", "canceled")

\* The goroutine is free again.  An end has been handled once the handler that wrote it
\* comes to this with all its writes done and undisturbed.
Finish(w, done) ==
    /\ hook' = [hook EXCEPT ![w] = NoRecord]
    /\ ended' = IF hook[w].kind = "deleted" /\ w \notin unclean /\ done
                THEN ended \cup {hook[w].sub} ELSE ended
    /\ UNCHANGED unclean

\* CreateSubscription or UpdateSubscription; done is whether the database has written
PutSubscription(w, done) ==
    /\ hook[w] # NoRecord /\ hook[w].step = "subscription"
    /\ subs' = IF done THEN [subs EXCEPT ![hook[w].sub] = hook[w].status] ELSE subs
    /\ IF hook[w].kind \in {"updated", "cancel"}
       THEN Finish(w, done)
       ELSE /\ hook' = [hook EXCEPT ![w].step =
                            IF hook[w].kind = "created" THEN "licence" ELSE "lookup"]
            /\ unclean' = IF done THEN unclean ELSE unclean \cup {w}
            /\ UNCHANGED ended
    /\ UNCHANGED licences

\* GetLicenseByOrg: without an answer the handler is done
GetLicenseByOrg(w, done) ==
    /\ hook[w] # NoRecord /\ hook[w].step = "lookup"
    /\ IF done /\ licences[hook[w].sub] # NoRecord
       THEN hook' = [hook EXCEPT ![w].step = "licence"] /\ UNCHANGED <<ended, unclean>>
       ELSE Finish(w, done)
    /\ UNCHANGED <<subs, licences>>

\* CreateLicense or UpdateLicense
PutLicense(w, done) ==
    /\ hook[w] # NoRecord /\ hook[w].step = "licence"
    /\ licences' = IF done
                   THEN [licences EXCEPT ![hook[w].sub] =
                            IF hook[w].kind = "deleted" THEN "expired" ELSE "active"]
                   ELSE licences
    /\ Finish(w, done)
    /\ UNCHANGED subs

StripeNext ==
    \E w \in Hooks :
        \/ \E s \in Subscriptions :
              \/ \E status \in {"active", "past_due", "canceled"} :
                     handleSubscriptionCreated(w, s, status) \/ handleSubscriptionUpdated(w, s, status)
              \/ handleSubscriptionDeleted(w, s) \/ handleInvoicePaid(w, s)
              \/ CancelSubscription(w, s)
        \/ \E done \in BOOLEAN :
              PutSubscription(w, done) \/ GetLicenseByOrg(w, done) \/ PutLicense(w, done)

StripeSpec == BillingInit /\ [][StripeNext]_stripeVars

-----------------------------------------------------------------------------
(* Properties *)

\* Check and count are two calls, so clients overrun a limit together, but each by
\* at most one request: a day's count stays below the highest limit it was admitted
\* under plus the number of clients.
OverrunBounded ==
    \A t \in Tenants : usage[t] # NoRecord /\ highest[t] # 0 =>
        usage[t].today + Cardinality({c \in Clients : admitted[c] = t})
            <= highest[t] + Cardinality(Clients) - 1

\* No reset, rollover, merge or removal leaves more blocked requests in the day's
\* count than requests.
BlocksWithinRequests ==
    \A t \in Tenants : usage[t] # NoRecord => usage[t].blocks <= usage[t].today

\* What CheckLimit admits is what a snapshot shows as remaining: a client is refused
\* exactly when no request is left.
RemainingAgrees ==
    \A t \in Tenants : RemainingRequests(t) # 0 <=> WithinLimit(t)

\* The day's counts stay consistent with each other and with the limit, however checks,
\* records, rollovers, resets and merges interleave.
UsageConsistent == OverrunBounded /\ BlocksWithinRequests /\ RemainingAgrees

\* The end of a subscription is final.  Once a deletion has been handled with all its
\* writes done, no payment whose handler begins afterwards, no second deletion beside it
\* or after it and no cancellation brings the subscription or its licence back, at
\* whichever of their database calls these stand: that takes a creation or an update.
\* (A payment whose handler has read past_due before the deletion's write does revive
\* both, since nothing makes the read and the write one step: such a deletion, and one
\* that meets a creation or an update, does not count as handled.)
EndIsFinal ==
    \A s \in ended : subs[s] = "canceled" /\ licences[s] \in {NoRecord, "expired"}
=============================================================================
