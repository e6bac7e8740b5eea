---------------------------- MODULE Entitlements ----------------------------
(***************************************************************************)
(* What a payment turns into outside the licence store of the application: *)
(* the HMAC-signed pro_license.json that webhooks provision and the        *)
(* billing portal reads (finance/billing.py, api/graphql.py), and the      *)
(* licence the command line activates online and caches for the days       *)
(* without a network (license.py).  Providers deliver webhooks late,       *)
(* twice and in any order; a process may die in the middle of a write.     *)
(* Time is counted in days, a key is a sequence of characters.             *)
(***************************************************************************)
EXTENDS Integers, Sequences, FiniteSets, SequencesExt, FiniteSetsExt

CONSTANTS Plans,
          ItemLists,    \* what a subscription may consist of: sequences of [plan, seats]
          LicenseKeys,  \* keys a user may type
          TERM_DAYS, HINT,   \* 365 days; the 8 characters _cache_license keeps of a key
          Missing, Torn,   \* absent, or no number; a file cut short
          MaxDays, MaxDeliveries,  \* bounds: days, and webhooks delivered
          MaxPending    \* bound: webhooks pending when the provider acts again

ASSUME EntitlementAssumption ==
    /\ TERM_DAYS \in Nat \ {0} /\ {HINT, MaxDays, MaxDeliveries, MaxPending} \subseteq Nat
    /\ {"enterprise", "pro"} \subseteq Plans
    /\ Missing \notin Nat /\ Missing \notin Plans /\ Missing \notin ItemLists /\ Missing \notin LicenseKeys
    /\ ItemLists \subseteq Seq([plan : Plans \cup {Missing}, seats : Nat \cup {Missing}])
    /\ \A k \in LicenseKeys : k # <<>> /\ k \in Seq(Range(k))

VARIABLES today, secret,    \* the day; SQLEAN_LICENSE_HMAC_SECRET
          provisioned,      \* pro_license.json: Missing, Torn or its payload
          subscription,     \* the provider's: Missing or its items
          undelivered,      \* webhooks not yet acknowledged
          deliveries,
          lastPaid, paidFor,  \* history: day and items of the last payment provisioned; Missing: none, or disturbed
          online, standing, \* the validation server can be reached; its answer to each key
          cached,           \* license.sig: Missing, Torn or its blob
          outcome,          \* of the last activate()
          proven            \* history: key whose valid answer was cached last, undisturbed

evars == <<today, secret, provisioned, subscription, undelivered, deliveries, lastPaid, paidFor,
           online, standing, cached, outcome, proven>>
billing == <<secret, provisioned, subscription, undelivered, deliveries, lastPaid, paidFor>>
activation == <<online, standing, cached, outcome, proven>>

EInit == /\ today = 1 /\ secret = 1 /\ provisioned = Missing
         /\ subscription = Missing /\ undelivered = {} /\ deliveries = 0
         /\ lastPaid = Missing /\ paidFor = Missing
         /\ online = TRUE /\ standing \in [LicenseKeys -> BOOLEAN]
         /\ cached = Missing /\ outcome = "none" /\ proven = Missing

-----------------------------------------------------------------------------
(* Plan and seats.  An invoice takes the first line that names them, a new *)
(* subscription the last item, Chargebee the largest quantity of seats and *)
(* a checkout its own metadata; seats that are no number count as unnamed. *)
Naming(items, field) == {i \in DOMAIN items : items[i][field] # Missing}
FirstOf(items, field, default) ==
    IF Naming(items, field) = {} THEN default ELSE items[Min(Naming(items, field))][field]
LastOf(items, field, default) ==
    IF Naming(items, field) = {} THEN default ELSE items[Max(Naming(items, field))][field]
(* Zero seats on an invoice are falsy and become one.                      *)
InvoiceGrant(items) == [plan  |-> FirstOf(items, "plan", "enterprise"),
                        seats |-> IF FirstOf(items, "seats", 1) = 0 THEN 1
                                  ELSE FirstOf(items, "seats", 1)]
CreatedGrant(items) == [plan  |-> LastOf(items, "plan", "enterprise"),
                        seats |-> LastOf(items, "seats", 1)]
ChargebeeGrant(items) ==
    [plan  |-> FirstOf(items, "plan", "enterprise"),
     seats |-> Max({1} \cup {items[i].seats : i \in Naming(items, "seats")})]
CheckoutGrant(items) == [plan  |-> FirstOf(items, "plan", "pro"),
                         seats |-> FirstOf(items, "seats", 1)]
Grant(e) == CASE e.type = "invoice.paid" -> InvoiceGrant(e.items)
              [] e.type = "customer.subscription.created" -> CreatedGrant(e.items)
              [] e.type \in {"invoice_generated", "subscription_created"} -> ChargebeeGrant(e.items)
              [] e.type = "checkout.session.completed" -> CheckoutGrant(e.items)
Provisions(e) == e.type \in {"invoice.paid", "customer.subscription.created", "invoice_generated",
                             "subscription_created", "checkout.session.completed"}

(* generate_license_file: fewer than one seat raises.                      *)
LicenseFile(g) == [plan |-> g.plan, seats |-> g.seats, expires |-> today + TERM_DAYS, secret |-> secret]

(* Mutant: the licence ends with the day before its last.                  *)
ExpiredEarly(file) == today >= file.expires
(* validate_license_file, and the status the billing portal shows.         *)
Expired(file) == today > file.expires
Valid == /\ provisioned \notin {Missing, Torn}
         /\ provisioned.secret = secret
         /\ ~Expired(provisioned)
PortalStatus == IF Valid THEN "active" ELSE "expired"

(* The provider.                                                           *)
Post(types, items) == /\ Cardinality(undelivered) < MaxPending
                      /\ undelivered' = undelivered \cup {[type |-> t, items |-> items] : t \in types}
Subscribe(items) ==
    /\ subscription = Missing /\ subscription' = items
    /\ \E types \in {{"customer.created", "customer.subscription.created", "invoice.paid"},
                     {"subscription_created", "invoice_generated"},
                     {"checkout.session.completed"}} : Post(types, items)
    /\ UNCHANGED <<today, secret, provisioned, deliveries, lastPaid, paidFor,
                   activation>>
Renew == /\ subscription # Missing
         /\ Post({"invoice.paid"}, subscription)
         /\ UNCHANGED <<today, secret, provisioned, subscription, deliveries, lastPaid, paidFor,
                   activation>>
Cancel == /\ subscription # Missing /\ subscription' = Missing
          /\ Post({"customer.subscription.updated", "customer.subscription.deleted"}, subscription)
          /\ UNCHANGED <<today, secret, provisioned, deliveries, lastPaid, paidFor,
                   activation>>

(* A webhook arrives: process_stripe_event, process_chargebee_event or     *)
(* process_subscription_event.  An event that provisions rewrites the file *)
(* (a crash leaves it torn); updated and deleted are answered "updated"    *)
(* and "revoked" and touch nothing; the acknowledgement may be lost.       *)
Deliver(e) ==
    /\ deliveries < MaxDeliveries /\ deliveries' = deliveries + 1
    /\ \/ /\ Provisions(e) /\ Grant(e).seats >= 1
          /\ provisioned' = LicenseFile(Grant(e))
          /\ lastPaid' = today /\ paidFor' = e.items
          /\ undelivered' \in {undelivered, undelivered \ {e}}
       \/ /\ Provisions(e) /\ Grant(e).seats >= 1
          /\ provisioned' = Torn /\ lastPaid' = Missing /\ paidFor' = Missing
          /\ UNCHANGED undelivered
       \/ /\ Provisions(e) /\ Grant(e).seats < 1
          /\ UNCHANGED <<provisioned, lastPaid, paidFor, undelivered>>
       \/ /\ ~Provisions(e)
          /\ undelivered' \in {undelivered, undelivered \ {e}}
          /\ UNCHANGED <<provisioned, lastPaid, paidFor>>
    /\ UNCHANGED <<today, secret, subscription, activation>>
RotateSecret == /\ secret = 1 /\ secret' = 2 /\ lastPaid' = Missing /\ paidFor' = Missing
                /\ UNCHANGED <<today, provisioned, subscription, undelivered, deliveries, activation>>

-----------------------------------------------------------------------------
(* license.py.  _cache_license keeps HINT characters of a longer key and   *)
(* three dots; _offline_validate wants the key to start with all of it.    *)
Hint(k) == IF Len(k) > HINT THEN SubSeq(k, 1, HINT) \o <<".", ".", ".">> ELSE k
(* Mutant: a cached answer is good for any key.                            *)
OfflineAnyKey(k) == cached \notin {Missing, Torn} /\ cached.valid
OfflineValidate(k) == /\ cached \notin {Missing, Torn}
                      /\ IsPrefix(cached.hint, k)
                      /\ cached.valid

(* activate: the server's answer is cached and returned, whatever it is;   *)
(* without an answer, or when it cannot be cached, the cached one decides. *)
ActivateOnline(k) ==
    /\ online
    /\ cached' = [hint |-> Hint(k), valid |-> standing[k]]
    /\ outcome' = "online"
    /\ proven' = IF standing[k] THEN k ELSE Missing
    /\ UNCHANGED <<today, billing, online, standing>>
Fallback(k) == outcome' = IF OfflineValidate(k) THEN "offline" ELSE "failed"
ActivateOffline(k) ==
    /\ ~online
    /\ Fallback(k)
    /\ UNCHANGED <<today, billing, online, standing, cached, proven>>
ActivateTorn(k) ==      \* the cache is truncated and cannot be filled
    /\ online /\ cached' = Torn /\ outcome' = "failed" /\ proven' = Missing
    /\ UNCHANGED <<today, billing, online, standing>>
Deactivate == /\ cached # Missing /\ cached' = Missing /\ proven' = Missing /\ outcome' = "none"
              /\ UNCHANGED <<today, billing, online, standing>>
NetworkChanges == /\ online' = ~online
                  /\ UNCHANGED <<today, billing, standing, cached, outcome, proven>>

DayPasses == /\ today < MaxDays /\ today' = today + 1
           /\ UNCHANGED <<billing, activation>>

(* The two halves share nothing.                                           *)
BillingNext == \/ \E items \in ItemLists : Subscribe(items)
               \/ Renew \/ Cancel \/ RotateSecret \/ DayPasses
               \/ \E e \in undelivered : Deliver(e)
ActivationNext == \/ \E k \in LicenseKeys : ActivateOnline(k) \/ ActivateOffline(k) \/ ActivateTorn(k)
                  \/ Deactivate \/ NetworkChanges
ESpec == EInit /\ [][BillingNext \/ ActivationNext]_evars

-----------------------------------------------------------------------------
(* What the two files may hold, if neither nothing nor a torn write.       *)
LicenseFiles == [plan : Plans, seats : Nat, expires : Nat, secret : {1, 2}]
CachedBlobs == [hint : {Hint(k) : k \in LicenseKeys}, valid : BOOLEAN]
ASSUME SentinelAssumption == \A s \in {Missing, Torn} : s \notin LicenseFiles /\ s \notin CachedBlobs

(* Late, repeated and reordered webhooks, cancellations included, leave    *)
(* the portal showing an active licence exactly for TERM_DAYS days after   *)
(* the last payment that was provisioned; and whichever of its events came *)
(* last, a subscription of one item is licensed for its own plan and seats *)
(* (finance/billing.py:249-304, 334-378).                                  *)
EntitlementFollowsPayments ==
    lastPaid # Missing =>
       /\ PortalStatus = "active" <=> today <= lastPaid + TERM_DAYS
       /\ Len(paidFor) = 1 /\ Missing \notin {paidFor[1].plan, paidFor[1].seats} =>
            /\ provisioned.plan = paidFor[1].plan
            /\ provisioned.seats = Max({1, paidFor[1].seats})

(* Without a network a key that the server has accepted goes on working if *)
(* it is no longer than the cached hint, and no key works that does not    *)
(* continue one the server has accepted; a key with a dot may continue the *)
(* three dots of the hint instead (license.py:132-172, 198-229).           *)
OfflineGrace ==
    \A k \in LicenseKeys :
       /\ OfflineValidate(k) => /\ proven # Missing
                                /\ "." \notin Range(k) => IsPrefix(proven, k)
       /\ proven = k /\ Len(k) <= HINT => OfflineValidate(k)
=============================================================================
