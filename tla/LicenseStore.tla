---------------------------- MODULE LicenseStore ----------------------------
(***************************************************************************)
(* The licence file pro_license.json and its writers:                      *)
(*   - LicenseValidator (sqlean_lint/license_manager.py): save_license,    *)
(*     grant_lease, clear, is_licensed;                                    *)
(*   - the activation view (gui.py), which saves a validated key;          *)
(*   - the checkout webhook (finance/billing.py, _mint_crypto_license),    *)
(*     which saves a minted licence and then opens its lease.              *)
(*                                                                         *)
(* Time is counted in days.  A key is what its signed payload binds: a     *)
(* machine (or any) and an expiry day; keys whose signature does not       *)
(* verify raise before anything is stored and are left out.  The file is   *)
(* rewritten in place, so a crash may leave it truncated, which reads as   *)
(* an empty store.  last_seen and the lease HMAC are recomputed by every   *)
(* grant and decide nothing else; they are left out.                       *)
(***************************************************************************)
EXTENDS Integers

CONSTANTS
  Machines,    \* hardware ids this machine may have (docks, new NICs)
  AnyMachine,  \* the empty hardware_id of an unbound key
  Keys,        \* keys a customer may type in: [hw, expires]
  None,        \* absent
  LEASE_DAYS,  \* license_manager.LEASE_DAYS (30)
  TERM,        \* days a minted licence is paid for (365)
  MaxDay       \* bound: days a behaviour lasts

AllKeys == [hw : Machines \cup {AnyMachine}, expires : Nat]
Leases  == [key : AllKeys, first_seen : Nat]
Blobs   == [info : AllKeys \cup {None}, lease : Leases \cup {None}]

ASSUME LicenseAssumption ==
  /\ AnyMachine \notin Machines
  /\ Keys \subseteq AllKeys
  /\ None \notin Nat /\ None \notin AllKeys
  /\ None \notin Leases /\ None \notin Blobs
  /\ LEASE_DAYS \in Nat /\ TERM \in Nat /\ MaxDay \in Nat

VARIABLES
  now,       \* the current day
  hw,        \* generate_hardware_id()
  file,      \* the parsed blob; the empty one when absent or unreadable
  writing,   \* the blob _write_own_state has truncated the file for, or None
  minted,    \* the sealed key whose lease the webhook has still to open
  leasedOn,  \* day of the first grant since the file was last lost (history)
  paidOn,    \* day of a purchase that found no lease, undisturbed (history)
  paidTo,    \* day the last undisturbed purchase is paid up to (history)
  heldTo     \* expiry of the last undisturbed activation (history)

vars == <<now, hw, file, writing, minted, leasedOn, paidOn, paidTo, heldTo>>

Empty == [info |-> None, lease |-> None]

Idle == writing = None /\ minted = None

Init ==
  /\ now = 0
  /\ hw \in Machines
  /\ file = Empty
  /\ writing = None
  /\ minted = None
  /\ leasedOn = None
  /\ paidOn = None /\ paidTo = None /\ heldTo = None

-----------------------------------------------------------------------------
\* is_licensed: a cached licence of this machine that has not expired, or else
\* a lease not older than LEASE_DAYS.
CachedValid ==
  /\ file.info # None
  /\ now <= file.info.expires
  /\ file.info.hw \in {AnyMachine, hw}

LeaseValid ==
  /\ file.lease # None
  /\ now - file.lease.first_seen <= LEASE_DAYS

Licensed == CachedValid \/ LeaseValid

\* save_license merges the licence into what is stored.
Saved(k) == [file EXCEPT !.info = k]

\* Mutant: the lease counts from its last renewal.
GrantedAfresh(k) ==
  [info |-> None, lease |-> [key |-> k, first_seen |-> now]]

\* grant_lease writes key and lease alone, and keeps the first_seen it finds.
Granted(k) ==
  [info |-> None,
   lease |-> [key |-> k,
              first_seen |-> IF file.lease # None THEN file.lease.first_seen ELSE now]]

\* _write_own_state: write_text truncates the file ...
Truncate(blob) ==
  /\ writing' = blob
  /\ file' = Empty

\* ... and fills it.
FinishWrite ==
  /\ writing # None
  /\ file' = writing
  /\ writing' = None
  /\ UNCHANGED <<now, hw, minted, leasedOn, paidOn, paidTo, heldTo>>

-----------------------------------------------------------------------------

\* The activation view: a key of this machine, not expired, is saved.
Activate(k) ==
  /\ Idle
  /\ k.hw \in {AnyMachine, hw}
  /\ now <= k.expires
  /\ Truncate(Saved(k))
  /\ heldTo' = k.expires
  /\ paidTo' = None
  /\ UNCHANGED <<now, hw, minted, leasedOn, paidOn>>

FirstGrant == IF leasedOn = None THEN now ELSE leasedOn

\* grant_lease(key): the signature is checked, the machine and the expiry of
\* the key are not.
GrantLease(k) ==
  /\ Idle
  /\ Truncate(Granted(k))
  /\ leasedOn' = FirstGrant
  /\ heldTo' = None
  /\ UNCHANGED <<now, hw, minted, paidOn, paidTo>>

\* grant_lease() without a key uses the stored one, if there is one.
RenewLease ==
  /\ file.lease # None
  /\ GrantLease(file.lease.key)

\* checkout.session.completed, delivered once or again: mint a key for this
\* machine, save its licence ...
Checkout ==
  /\ Idle
  /\ LET k == [hw |-> hw, expires |-> now + TERM] IN
       /\ Truncate(Saved(k))
       /\ minted' = k
       /\ paidTo' = k.expires
  /\ paidOn' = IF file.lease = None THEN now ELSE paidOn
  /\ heldTo' = None
  /\ UNCHANGED <<now, hw, leasedOn>>

\* ... and open its lease.
CheckoutLease ==
  /\ minted # None
  /\ writing = None
  /\ Truncate(Granted(minted))
  /\ minted' = None
  /\ leasedOn' = FirstGrant
  /\ UNCHANGED <<now, hw, paidOn, paidTo, heldTo>>

\* clear(): the file is removed.
Clear ==
  /\ Idle
  /\ file' = Empty
  /\ leasedOn' = None /\ paidOn' = None /\ paidTo' = None /\ heldTo' = None
  /\ UNCHANGED <<now, hw, writing, minted>>

\* The process dies between any two steps; a truncated file stays so.
Crash ==
  /\ ~Idle
  /\ writing' = None /\ minted' = None
  /\ leasedOn' = IF file.lease = None THEN None ELSE leasedOn
  /\ paidOn' = None /\ paidTo' = None /\ heldTo' = None
  /\ UNCHANGED <<now, hw, file>>

\* The machine gets another hardware id (the environment).
ChangeHardware ==
  /\ Idle
  /\ \E m \in Machines \ {hw} : hw' = m
  /\ paidTo' = None /\ heldTo' = None
  /\ UNCHANGED <<now, file, writing, minted, leasedOn, paidOn>>

\* A day passes (no call takes a day).
NextDay ==
  /\ Idle
  /\ now < MaxDay
  /\ now' = now + 1
  /\ UNCHANGED <<hw, file, writing, minted, leasedOn, paidOn, paidTo, heldTo>>

Next ==
  \/ \E k \in Keys : Activate(k) \/ GrantLease(k)
  \/ RenewLease
  \/ Checkout \/ CheckoutLease
  \/ FinishWrite
  \/ Clear \/ Crash
  \/ ChangeHardware \/ NextDay

Spec == Init /\ [][Next]_vars

-----------------------------------------------------------------------------
(***************************************************************************)
(* Properties.                                                             *)
(***************************************************************************)
\* Types; the webhook still owes a lease only for a key it has saved.
TypeOK ==
  /\ now \in Nat
  /\ hw \in Machines
  /\ file \in Blobs
  /\ writing \in Blobs \cup {None}
  /\ minted \in AllKeys \cup {None}
  /\ leasedOn \in Nat \cup {None}
  /\ paidOn \in Nat \cup {None}
  /\ paidTo \in Nat \cup {None}
  /\ heldTo \in Nat \cup {None}
  /\ minted # None =>
       \/ writing # None /\ writing.info = minted
       \/ writing = None /\ file.info = minted

\* A lease counts from the first grant since the file was last removed or lost:
\* no renewal, purchase, activation or crash moves that day.
LeaseNeverExtended == file.lease # None => file.lease.first_seen = leasedOn

\* An activation holds until its key expires: only a grant (which drops the
\* saved licence), a purchase, clear(), a crash in the middle of a write or a
\* hardware change may end it earlier.
ActivationHolds == Idle /\ heldTo # None /\ now <= heldTo => Licensed

\* A purchase on a machine that had no lease licenses it for LEASE_DAYS, on any
\* hardware id it gets in the meantime and whatever is activated, granted or
\* bought after it.
FirstPurchaseCovered ==
  Idle /\ paidOn # None /\ now - paidOn <= LEASE_DAYS => Licensed

\* What was granted, activated or first paid for holds for its term and no longer
\* (the four above, license_manager.py:291-395, billing.py:421-485).
LicenceIsKept ==
  TypeOK /\ LeaseNeverExtended /\ ActivationHolds /\ FirstPurchaseCovered

\* "mints a signed LicenseInfo, persisting the resulting pro_license.json"
\* (billing.py:424) with an expiry 365 days ahead (billing.py:457): whoever paid
\* is licensed until then on the same machine.
PaidMeansLicensed == Idle /\ paidTo # None /\ now <= paidTo => Licensed
=============================================================================
