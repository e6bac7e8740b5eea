-------------------------- MODULE Licensing_proofs --------------------------
(***************************************************************************)
(* Proofs about everything that decides what the user has paid for, for    *)
(* every set of machines, keys, plans and item lists and every term: the   *)
(* types of LicenseStore and its three safety properties, and the two of   *)
(* Entitlements.                                                           *)
(*                                                                         *)
(* None of the licence store's is inductive: each reads the file, which is *)
(* empty in the middle of a write.  The strengthening speaks of the stored *)
(* blob, the one being written if a write is in progress and else the      *)
(* file.  The invariants of the other two files say what an undisturbed    *)
(* file still remembers of the last payment or of the last accepted key.   *)
(***************************************************************************)
EXTENDS LicenseStore, Entitlements, SequenceTheorems, WellFoundedInduction, TLAPS


USE LicenseAssumption

Stored == IF writing = None THEN file ELSE writing

\* The lease of blob b, if it has one, began on the day of the first grant.
LeaseTracked(b) ==
  \/ b.lease = None /\ leasedOn = None
  \/ b.lease # None /\ leasedOn # None /\ b.lease.first_seen = leasedOn

\* A write in progress finds the file truncated, and the stored lease counts
\* from the first grant.
LeaseInv ==
  /\ writing # None => file = Empty
  /\ LeaseTracked(Stored)

\* An undisturbed activation is in the stored blob, and no webhook is about to
\* replace it by a lease.
HeldInv ==
  heldTo # None =>
    /\ minted = None
    /\ Stored.info # None
    /\ Stored.info.expires = heldTo
    /\ Stored.info.hw \in {AnyMachine, hw}

\* A purchase that found no lease has one from that day, or its webhook has
\* still to open it, the same day.
PaidInv ==
  paidOn # None =>
    \/ paidOn = leasedOn
    \/ minted # None /\ leasedOn = None /\ paidOn = now

IInv == TypeOK /\ LeaseInv /\ HeldInv /\ PaidInv

-----------------------------------------------------------------------------
(***************************************************************************)
(* What the writers make of a well-typed file.                             *)
(***************************************************************************)
\* save_license yields a blob with the key and the lease it found.
LEMMA SavedBlob ==
  ASSUME file \in Blobs, NEW k \in AllKeys
  PROVE  /\ Saved(k) \in Blobs
         /\ Saved(k).info = k
         /\ Saved(k).lease = file.lease
BY DEF Saved, Blobs

\* grant_lease yields a blob without a cached licence, whose lease began when
\* the stored one did, or today.
LEMMA GrantedBlob ==
  ASSUME file \in Blobs, now \in Nat, NEW k \in AllKeys
  PROVE  /\ Granted(k) \in Blobs
         /\ Granted(k).info = None
         /\ Granted(k).lease # None
         /\ Granted(k).lease.first_seen =
              IF file.lease # None THEN file.lease.first_seen ELSE now
<1>1. (IF file.lease # None THEN file.lease.first_seen ELSE now) \in Nat
  BY DEF Blobs, Leases
<1>2. [key |-> k, first_seen |-> IF file.lease # None THEN file.lease.first_seen
                                 ELSE now] \in Leases
  BY <1>1 DEF Leases
<1>. QED
  BY <1>2 DEF Granted, Blobs

\* The key the webhook mints.
LEMMA MintedKey ==
  ASSUME TypeOK
  PROVE  [hw |-> hw, expires |-> now + TERM] \in AllKeys
BY DEF TypeOK, AllKeys

\* An empty store is a well-typed blob.
LEMMA EmptyBlob == Empty \in Blobs /\ Empty.lease = None
BY DEF Empty, Blobs

-----------------------------------------------------------------------------
(***************************************************************************)
(* Every action preserves the strengthening.                               *)
(***************************************************************************)
LEMMA InitIInv == Init => IInv
BY EmptyBlob DEF Init, IInv, TypeOK, LeaseInv, LeaseTracked, HeldInv, PaidInv, Stored

\* The steps that write nothing.
LEMMA ClockStep == IInv /\ NextDay => IInv'
BY DEF IInv, TypeOK, LeaseInv, LeaseTracked, HeldInv, PaidInv, Stored, NextDay, Idle

LEMMA HardwareStep == IInv /\ ChangeHardware => IInv'
BY DEF IInv, TypeOK, LeaseInv, LeaseTracked, HeldInv, PaidInv, Stored,
       ChangeHardware, Idle

LEMMA ClearStep == IInv /\ Clear => IInv'
BY EmptyBlob
   DEF IInv, TypeOK, LeaseInv, LeaseTracked, HeldInv, PaidInv, Stored, Clear, Idle

LEMMA FinishStep == IInv /\ FinishWrite => IInv'
BY DEF IInv, TypeOK, LeaseInv, LeaseTracked, HeldInv, PaidInv, Stored, FinishWrite

LEMMA CrashStep == IInv /\ Crash => IInv'
BY EmptyBlob
   DEF IInv, TypeOK, LeaseInv, LeaseTracked, HeldInv, PaidInv, Stored, Crash, Idle

\* The first write of an activation.
LEMMA ActivateStep ==
  ASSUME IInv, NEW k \in Keys, Activate(k)
  PROVE  IInv'
<1>1. k \in AllKeys
  OBVIOUS
<1>2. /\ Saved(k) \in Blobs /\ Saved(k).info = k /\ Saved(k).lease = file.lease
  BY <1>1, SavedBlob DEF IInv, TypeOK
<1>3. /\ writing' = Saved(k) /\ file' = Empty /\ writing = None /\ minted = None
      /\ k.hw \in {AnyMachine, hw}
      /\ heldTo' = k.expires /\ paidTo' = None
      /\ UNCHANGED <<now, hw, minted, leasedOn, paidOn>>
  BY DEF Activate, Truncate, Idle
<1>4. k.expires \in Nat /\ k # None
  BY <1>1 DEF AllKeys
<1>5. TypeOK'
  BY <1>2, <1>3, <1>4, EmptyBlob DEF IInv, TypeOK
<1>6. LeaseInv'
  BY <1>2, <1>3 DEF IInv, LeaseInv, LeaseTracked, Stored
<1>7. HeldInv'
  BY <1>1, <1>2, <1>3, <1>4 DEF HeldInv, Stored
<1>8. PaidInv'
  BY <1>3 DEF IInv, PaidInv
<1>. QED
  BY <1>5, <1>6, <1>7, <1>8 DEF IInv

\* The first grant is recorded as the lease records it.
LEMMA GrantTracks ==
  ASSUME IInv, writing = None, NEW k \in AllKeys,
         writing' = Granted(k), file' = Empty, leasedOn' = FirstGrant
  PROVE  LeaseInv' /\ leasedOn' \in Nat /\ (leasedOn # None => leasedOn' = leasedOn)
<1>1. /\ Granted(k) \in Blobs /\ Granted(k).lease # None
      /\ Granted(k).lease.first_seen =
           IF file.lease # None THEN file.lease.first_seen ELSE now
  BY GrantedBlob DEF IInv, TypeOK
<1>2. LeaseTracked(file)
  BY DEF IInv, LeaseInv, Stored
<1>3. Granted(k).lease.first_seen = FirstGrant
  BY <1>1, <1>2 DEF LeaseTracked, FirstGrant
<1>4. FirstGrant \in Nat /\ (leasedOn # None => FirstGrant = leasedOn)
  BY DEF IInv, TypeOK, FirstGrant
<1>. QED
  BY <1>1, <1>3, <1>4 DEF LeaseInv, LeaseTracked, Stored

LEMMA GrantStep ==
  ASSUME IInv, NEW k \in AllKeys, GrantLease(k)
  PROVE  IInv'
<1>1. /\ writing' = Granted(k) /\ file' = Empty /\ writing = None /\ minted = None
      /\ leasedOn' = FirstGrant /\ heldTo' = None
      /\ UNCHANGED <<now, hw, minted, paidOn, paidTo>>
  BY DEF GrantLease, Truncate, Idle
<1>2. Granted(k) \in Blobs
  BY GrantedBlob DEF IInv, TypeOK
<1>3. LeaseInv' /\ leasedOn' \in Nat /\ (leasedOn # None => leasedOn' = leasedOn)
  BY <1>1, GrantTracks
<1>4. TypeOK'
  BY <1>1, <1>2, <1>3, EmptyBlob DEF IInv, TypeOK
<1>5. HeldInv' /\ PaidInv'
  BY <1>1, <1>3 DEF IInv, HeldInv, PaidInv
<1>. QED
  BY <1>3, <1>4, <1>5 DEF IInv

LEMMA RenewStep == IInv /\ RenewLease => IInv'
<1>. SUFFICES ASSUME IInv, RenewLease PROVE IInv'
  OBVIOUS
<1>1. file.lease.key \in AllKeys
  BY DEF RenewLease, IInv, TypeOK, Blobs, Leases
<1>. QED
  BY <1>1, GrantStep DEF RenewLease

\* The two writes of the checkout webhook.
LEMMA CheckoutStep == IInv /\ Checkout => IInv'
<1>. SUFFICES ASSUME IInv, Checkout PROVE IInv'
  OBVIOUS
<1>. DEFINE k == [hw |-> hw, expires |-> now + TERM]
<1>1. k \in AllKeys /\ k # None /\ k.expires \in Nat
  BY MintedKey DEF IInv, TypeOK, AllKeys
<1>2. Saved(k) \in Blobs /\ Saved(k).info = k /\ Saved(k).lease = file.lease
  BY <1>1, SavedBlob DEF IInv, TypeOK
<1>3. /\ writing' = Saved(k) /\ file' = Empty /\ writing = None /\ minted = None
      /\ minted' = k /\ paidTo' = k.expires /\ heldTo' = None
      /\ paidOn' = IF file.lease = None THEN now ELSE paidOn
      /\ UNCHANGED <<now, hw, leasedOn>>
  BY DEF Checkout, Truncate, Idle
<1>4. TypeOK'
  BY <1>1, <1>2, <1>3, EmptyBlob DEF IInv, TypeOK
<1>5. LeaseInv'
  BY <1>2, <1>3 DEF IInv, LeaseInv, LeaseTracked, Stored
<1>6. HeldInv'
  BY <1>3 DEF HeldInv
<1>7. PaidInv'
  BY <1>1, <1>3 DEF IInv, PaidInv, LeaseInv, LeaseTracked, Stored
<1>. QED
  BY <1>4, <1>5, <1>6, <1>7 DEF IInv

LEMMA CheckoutLeaseStep == IInv /\ CheckoutLease => IInv'
<1>. SUFFICES ASSUME IInv, CheckoutLease PROVE IInv'
  OBVIOUS
<1>1. /\ minted # None /\ minted \in AllKeys /\ writing = None
      /\ writing' = Granted(minted) /\ file' = Empty /\ minted' = None
      /\ leasedOn' = FirstGrant
      /\ UNCHANGED <<now, hw, paidOn, paidTo, heldTo>>
  BY DEF IInv, TypeOK, CheckoutLease, Truncate
<1>2. Granted(minted) \in Blobs
  BY <1>1, GrantedBlob DEF IInv, TypeOK
<1>3. LeaseInv' /\ leasedOn' \in Nat /\ (leasedOn # None => leasedOn' = leasedOn)
  BY <1>1, GrantTracks
<1>4. TypeOK'
  BY <1>1, <1>2, <1>3, EmptyBlob DEF IInv, TypeOK
<1>5. HeldInv'
  BY <1>1 DEF IInv, HeldInv
<1>6. PaidInv'
  <2>1. CASE paidOn = leasedOn
    BY <1>1, <1>3, <2>1 DEF PaidInv
  <2>2. CASE leasedOn = None /\ paidOn = now
    BY <1>1, <2>2 DEF PaidInv, FirstGrant
  <2>. QED
    BY <1>1, <2>1, <2>2 DEF IInv, PaidInv
<1>. QED
  BY <1>3, <1>4, <1>5, <1>6 DEF IInv

LEMMA NextIInv == IInv /\ [Next]_vars => IInv'
<1>. SUFFICES ASSUME IInv, [Next]_vars PROVE IInv'
  OBVIOUS
<1>1. ASSUME NEW k \in Keys, Activate(k) \/ GrantLease(k) PROVE IInv'
  <2>1. k \in AllKeys
    OBVIOUS
  <2>. QED
    BY <1>1, <2>1, ActivateStep, GrantStep
<1>2. CASE RenewLease
  BY <1>2, RenewStep
<1>3. CASE Checkout
  BY <1>3, CheckoutStep
<1>4. CASE CheckoutLease
  BY <1>4, CheckoutLeaseStep
<1>5. CASE FinishWrite
  BY <1>5, FinishStep
<1>6. CASE Clear
  BY <1>6, ClearStep
<1>7. CASE Crash
  BY <1>7, CrashStep
<1>8. CASE ChangeHardware
  BY <1>8, HardwareStep
<1>9. CASE NextDay
  BY <1>9, ClockStep
<1>10. CASE UNCHANGED vars
  BY <1>10 DEF vars, IInv, TypeOK, LeaseInv, LeaseTracked, HeldInv, PaidInv, Stored
<1>. QED
  BY <1>1, <1>2, <1>3, <1>4, <1>5, <1>6, <1>7, <1>8, <1>9, <1>10 DEF Next

-----------------------------------------------------------------------------
(***************************************************************************)
(* The theorems.                                                           *)
(***************************************************************************)
\* The strengthening holds in every reachable state.
THEOREM Strengthened == Spec => []IInv
BY InitIInv, NextIInv, PTL DEF Spec

\* The licence file and its writers keep their types: a webhook that still owes
\* a lease has saved exactly the key it will open the lease with.
THEOREM TypeCorrect == Spec => []TypeOK
<1>1. IInv => TypeOK
  BY DEF IInv
<1>. QED
  BY <1>1, Strengthened, PTL

\* grant_lease never moves the beginning of a lease, whatever is bought,
\* activated or lost to a crash in between.
THEOREM LeaseIsFixed == Spec => []LeaseNeverExtended
<1>1. IInv => LeaseNeverExtended
  BY EmptyBlob DEF IInv, LeaseInv, LeaseTracked, Stored, LeaseNeverExtended
<1>. QED
  BY <1>1, Strengthened, PTL

\* An activated key licenses its machine until the day it expires.
THEOREM ActivationIsKept == Spec => []ActivationHolds
<1>1. IInv => ActivationHolds
  BY DEF IInv, HeldInv, Stored, ActivationHolds, Idle, Licensed, CachedValid
<1>. QED
  BY <1>1, Strengthened, PTL

\* A first purchase licenses the customer for LEASE_DAYS.
THEOREM PurchaseIsCovered == Spec => []FirstPurchaseCovered
<1>1. IInv => FirstPurchaseCovered
  BY DEF IInv, PaidInv, LeaseInv, LeaseTracked, Stored, FirstPurchaseCovered, Idle,
         Licensed, LeaseValid
<1>. QED
  BY <1>1, Strengthened, PTL

\* A lease, an activation and a first purchase hold for their terms.
THEOREM TheLicenceIsKept == Spec => []LicenceIsKept
<1>1. TypeOK /\ LeaseNeverExtended /\ ActivationHolds /\ FirstPurchaseCovered => LicenceIsKept
  BY DEF LicenceIsKept
<1>. QED
  BY <1>1, TypeCorrect, LeaseIsFixed, ActivationIsKept, PurchaseIsCovered, PTL

-----------------------------------------------------------------------------
(***************************************************************************)
(* The least and the largest of a set of numbers.                          *)
(***************************************************************************)
LEMMA LeastOf ==
  ASSUME NEW S, S \subseteq Nat, S # {}
  PROVE  Min(S) \in S /\ \A y \in S : Min(S) <= y
<1>. DEFINE less == {p \in Nat \X Nat : p[1] < p[2]}
<1>1. IsWellFoundedOn(less, Nat)
  BY NatLessThanWellFounded DEF OpToRel
<1>2. \A i, j \in Nat : <<j, i>> \in less <=> j < i
  OBVIOUS
<1>. HIDE DEF less
<1>3. PICK x \in S : \A y \in S : ~(<<y, x>> \in less)
  BY <1>1, WFMin
<1>4. \A y \in S : y \in Nat /\ x \in Nat /\ ~(y < x)
  BY <1>2, <1>3
<1>5. \A y \in S : x <= y
  BY <1>4
<1>. QED
  BY <1>5, Zenon DEF Min

LEMMA LargestOf ==
  ASSUME NEW S, S \subseteq Nat, S # {}, NEW b \in Nat, \A x \in S : x <= b
  PROVE  Max(S) \in S /\ \A y \in S : Max(S) >= y
<1>. DEFINE above == {c \in Nat : \A x \in S : x <= c}
<1>1. above \subseteq Nat /\ b \in above
  OBVIOUS
<1>2. above # {}
  BY <1>1
<1>3. PICK m \in above : \A c \in above : m <= c
  <2>. HIDE DEF above
  <2>. QED
    BY <1>1, <1>2, LeastOf
<1>4. m \in Nat /\ \A x \in S : x <= m
  OBVIOUS
<1>5. m \in S
  <2>1. SUFFICES ASSUME m \notin S PROVE FALSE
    OBVIOUS
  <2>2. \A x \in S : x \in Nat /\ x <= m /\ x # m
    BY <1>4, <2>1
  <2>0. PICK z \in S : TRUE
    OBVIOUS
  <2>3. m # 0
    BY <1>4, <2>0, <2>2
  <2>4. m - 1 \in Nat /\ \A x \in S : x <= m - 1
    BY <1>4, <2>2, <2>3
  <2>5. m - 1 \in above
    BY <2>4
  <2>. QED
    BY <1>3, <1>4, <2>5
<1>6. \A y \in S : m >= y
  BY <1>4
<1>. QED
  BY <1>5, <1>6, Zenon DEF Max

\* Finitely many numbers have a bound.
LEMMA BoundOf ==
  ASSUME NEW n \in Nat, NEW f, \A i \in 1 .. n : f[i] \in Nat
  PROVE  \E b \in Nat : \A i \in 1 .. n : f[i] <= b
<1>. DEFINE Bounds(k) == \E b \in Nat : \A i \in 1 .. k : f[i] <= b
<1>1. SUFFICES ASSUME ~Bounds(n) PROVE FALSE
  OBVIOUS
<1>. DEFINE T == {k \in 0 .. n : ~Bounds(k)}
<1>2. T \subseteq Nat /\ n \in T
  BY <1>1
<1>3. PICK k \in T : \A j \in T : k <= j
  <2>1. T # {}
    BY <1>2
  <2>. HIDE DEF T
  <2>. QED
    BY <1>2, <2>1, LeastOf
<1>4. k \in 0 .. n /\ ~Bounds(k)
  OBVIOUS
<1>5. k # 0
  <2>1. Bounds(0)
    OBVIOUS
  <2>. QED
    BY <1>4, <2>1
<1>6. k - 1 \in 0 .. n
  BY <1>4, <1>5
<1>6a. k - 1 \notin T
  <2>1. ~(k <= k - 1)
    BY <1>4
  <2>. HIDE DEF T
  <2>. QED
    BY <1>3, <2>1
<1>7. PICK b \in Nat : \A i \in 1 .. (k - 1) : f[i] <= b
  BY <1>6, <1>6a
<1>8. f[k] \in Nat
  BY <1>4, <1>5
<1>9. PICK c \in Nat : b <= c /\ f[k] <= c
  <2>1. CASE b <= f[k]
    BY <1>8, <2>1
  <2>2. CASE f[k] <= b
    BY <1>8, <2>2
  <2>. QED
    BY <1>8, <2>1, <2>2
<1>10. \A i \in 1 .. k : f[i] <= c
  <2>1. \A i \in 1 .. k : i = k \/ i \in 1 .. (k - 1)
    BY <1>4
  <2>2. \A i \in 1 .. (k - 1) : f[i] \in Nat /\ f[i] <= b
    BY <1>4, <1>7
  <2>3. \A i \in 1 .. (k - 1) : f[i] <= c
    BY <1>9, <2>2
  <2>. QED
    BY <1>9, <2>1, <2>3, Zenon
<1>. QED
  BY <1>4, <1>10

-----------------------------------------------------------------------------
HIDE LicenseAssumption
USE EntitlementAssumption

Seats(items) == {items[i].seats : i \in Naming(items, "seats")}

LEMMA ItemsAreTyped ==
  ASSUME NEW items \in ItemLists
  PROVE  /\ Len(items) \in Nat /\ DOMAIN items = 1 .. Len(items)
         /\ \A i \in DOMAIN items : items[i] \in [plan : Plans \cup {Missing}, seats : Nat \cup {Missing}]
         /\ Naming(items, "plan") \subseteq Nat /\ Naming(items, "seats") \subseteq Nat
         /\ \A i \in Naming(items, "plan") : items[i].plan \in Plans
         /\ \A i \in Naming(items, "seats") : items[i].seats \in Nat
<1>1. items \in Seq([plan : Plans \cup {Missing}, seats : Nat \cup {Missing}])
  BY DEF EntitlementAssumption
<1>2. Len(items) \in Nat /\ DOMAIN items = 1 .. Len(items)
  BY <1>1
<1>3. \A i \in DOMAIN items : items[i] \in [plan : Plans \cup {Missing}, seats : Nat \cup {Missing}]
  <2>. DEFINE Items == [plan : Plans \cup {Missing}, seats : Nat \cup {Missing}]
  <2>1. items \in Seq(Items)
    BY <1>1
  <2>. HIDE DEF Items
  <2>2. \A i \in 1 .. Len(items) : items[i] \in Items
    BY <2>1
  <2>. QED
    BY <1>2, <2>2 DEF Items
<1>4. \A i \in DOMAIN items : /\ items[i].plan \in Plans \cup {Missing}
                              /\ items[i].seats \in Nat \cup {Missing}
  BY <1>3
<1>. QED
  BY <1>2, <1>3, <1>4 DEF Naming

LEMMA LargestSeats ==
  ASSUME NEW items \in ItemLists
  PROVE  LET S == {1} \cup Seats(items)
         IN  Max(S) \in Nat /\ Max(S) \in S /\ \A y \in S : Max(S) >= y
<1>. DEFINE S == {1} \cup Seats(items)
            f == [i \in DOMAIN items |-> IF items[i].seats = Missing THEN 0 ELSE items[i].seats]
<1>1. Len(items) \in Nat /\ DOMAIN items = 1 .. Len(items)
  BY ItemsAreTyped
<1>2. \A i \in 1 .. Len(items) : f[i] \in Nat
  BY <1>1, ItemsAreTyped
<1>3. \A i \in Naming(items, "seats") : i \in 1 .. Len(items) /\ f[i] = items[i].seats /\ items[i].seats \in Nat
  BY <1>1, ItemsAreTyped DEF Naming
<1>. HIDE DEF f
<1>4. PICK b \in Nat : \A i \in 1 .. Len(items) : f[i] <= b
  BY <1>1, <1>2, BoundOf
<1>5. S \subseteq Nat /\ 1 \in S
  BY <1>3 DEF Seats
<1>6. b + 1 \in Nat /\ \A x \in S : x <= b + 1
  BY <1>2, <1>3, <1>4 DEF Seats
<1>. HIDE DEF S
<1>7. S # {}
  BY <1>5
<1>8. Max(S) \in S /\ \A y \in S : Max(S) >= y
  BY <1>5, <1>6, <1>7, LargestOf
<1>. QED
  BY <1>5, <1>8 DEF S
-----------------------------------------------------------------------------
\* A list of one item that names both its plan and its seats.
Single(items) == Len(items) = 1 /\ Missing \notin {items[1].plan, items[1].seats}

\* The places an item list names something at have a first and a last one.
LEMMA NamedPlaces ==
  ASSUME NEW items \in ItemLists, NEW field \in {"plan", "seats"}, Naming(items, field) # {}
  PROVE  Min(Naming(items, field)) \in Naming(items, field) /\ Max(Naming(items, field)) \in Naming(items, field)
<1>. DEFINE S == Naming(items, field)
<1>1. S \subseteq Nat /\ S # {}
  BY ItemsAreTyped
<1>2. Len(items) \in Nat /\ \A i \in S : i <= Len(items)
  BY ItemsAreTyped DEF Naming
<1>. HIDE DEF S
<1>3. Min(S) \in S /\ Max(S) \in S
  BY <1>1, <1>2, LeastOf, LargestOf
<1>. QED
  BY <1>3 DEF S

LEMMA NamedValues ==
  ASSUME NEW items \in ItemLists
  PROVE  /\ \A d \in Plans : FirstOf(items, "plan", d) \in Plans /\ LastOf(items, "plan", d) \in Plans
         /\ FirstOf(items, "seats", 1) \in Nat /\ LastOf(items, "seats", 1) \in Nat
<1>1. \A d \in Plans : FirstOf(items, "plan", d) \in Plans /\ LastOf(items, "plan", d) \in Plans
  <2>1. CASE Naming(items, "plan") = {}
    BY <2>1 DEF FirstOf, LastOf
  <2>2. CASE Naming(items, "plan") # {}
    BY <2>2, NamedPlaces, ItemsAreTyped DEF FirstOf, LastOf
  <2>. QED
    BY <2>1, <2>2
<1>2. FirstOf(items, "seats", 1) \in Nat /\ LastOf(items, "seats", 1) \in Nat
  <2>1. CASE Naming(items, "seats") = {}
    BY <2>1 DEF FirstOf, LastOf
  <2>2. CASE Naming(items, "seats") # {}
    BY <2>2, NamedPlaces, ItemsAreTyped DEF FirstOf, LastOf
  <2>. QED
    BY <2>1, <2>2
<1>. QED
  BY <1>1, <1>2

LEMMA SingleValues ==
  ASSUME NEW items \in ItemLists, Single(items)
  PROVE  /\ items[1].plan \in Plans /\ items[1].seats \in Nat
         /\ \A d : FirstOf(items, "plan", d) = items[1].plan /\ LastOf(items, "plan", d) = items[1].plan
         /\ \A d : FirstOf(items, "seats", d) = items[1].seats /\ LastOf(items, "seats", d) = items[1].seats
         /\ {1} \cup Seats(items) = {1, items[1].seats}
<1>1. DOMAIN items = {1}
  BY ItemsAreTyped DEF Single
<1>2. items[1].plan # Missing /\ items[1].seats # Missing
  BY DEF Single
<1>3. Naming(items, "plan") = {1} /\ Naming(items, "seats") = {1}
  BY <1>1, <1>2 DEF Naming
<1>4. Min({1}) = 1 /\ Max({1}) = 1
  <2>1. {1} \subseteq Nat /\ {1} # {} /\ \A x \in {1} : x <= 1
    OBVIOUS
  <2>2. Min({1}) \in {1} /\ Max({1}) \in {1}
    BY <2>1, LeastOf, LargestOf
  <2>. QED
    BY <2>2
<1>5. items[1].plan \in Plans /\ items[1].seats \in Nat
  BY <1>3, ItemsAreTyped
<1>6. \A d : FirstOf(items, "plan", d) = items[1].plan /\ LastOf(items, "plan", d) = items[1].plan
  BY <1>3, <1>4 DEF FirstOf, LastOf
<1>7. \A d : FirstOf(items, "seats", d) = items[1].seats /\ LastOf(items, "seats", d) = items[1].seats
  BY <1>3, <1>4 DEF FirstOf, LastOf
<1>8. {1} \cup Seats(items) = {1, items[1].seats}
  BY <1>3 DEF Seats
<1>. QED
  BY <1>5, <1>6, <1>7, <1>8

LEMMA LargerOfOneAnd ==
  ASSUME NEW n \in Nat
  PROVE  Max({1, n}) = IF n = 0 THEN 1 ELSE n
<1>1. PICK b \in Nat : 1 <= b /\ n <= b
  <2>1. n + 1 \in Nat /\ 1 <= n + 1 /\ n <= n + 1
    OBVIOUS
  <2>. QED
    BY <2>1
<1>. DEFINE S == {1, n}
<1>2. S \subseteq Nat /\ S # {} /\ \A x \in S : x <= b
  BY <1>1
<1>. HIDE DEF S
<1>3. Max(S) \in S /\ \A y \in S : Max(S) >= y
  BY <1>2, LargestOf
<1>4. Max({1, n}) \in {1, n} /\ Max({1, n}) >= 1 /\ Max({1, n}) >= n
  BY <1>3 DEF S
<1>. QED
  BY <1>4

\* Every event that provisions does so for a plan and a number of seats; one
\* about a single item that names both, for these, whatever event it is.
LEMMA GrantsAreTyped ==
  ASSUME NEW e, e.items \in ItemLists, Provisions(e)
  PROVE  /\ Grant(e) \in [plan : Plans, seats : Nat]
         /\ Single(e.items) /\ Grant(e).seats >= 1 =>
              /\ Grant(e).plan = e.items[1].plan
              /\ Grant(e).seats = Max({1, e.items[1].seats})
<1>. DEFINE items == e.items
            Good(g) == /\ g \in [plan : Plans, seats : Nat]
                       /\ Single(items) /\ g.seats >= 1 =>
                            g.plan = items[1].plan /\ g.seats = Max({1, items[1].seats})
<1>0. items \in ItemLists /\ "pro" \in Plans /\ "enterprise" \in Plans
  BY DEF EntitlementAssumption
<1>1. e.type \in {"invoice.paid", "customer.subscription.created", "invoice_generated",
                  "subscription_created", "checkout.session.completed"}
  BY DEF Provisions
<1>2. Grant(e) \in {InvoiceGrant(items), CreatedGrant(items), ChargebeeGrant(items), CheckoutGrant(items)}
  BY <1>1 DEF Grant
<1>. HIDE DEF items
<1>3. Single(items) => Max({1, items[1].seats}) = IF items[1].seats = 0 THEN 1 ELSE items[1].seats
  BY <1>0, SingleValues, LargerOfOneAnd
<1>4. Good(InvoiceGrant(items))
  BY <1>0, <1>3, NamedValues, SingleValues DEF InvoiceGrant
<1>5. Good(CreatedGrant(items))
  BY <1>0, <1>3, NamedValues, SingleValues DEF CreatedGrant
<1>6. Good(CheckoutGrant(items))
  BY <1>0, <1>3, NamedValues, SingleValues DEF CheckoutGrant
<1>7. Good(ChargebeeGrant(items))
  <2>1. ChargebeeGrant(items) = [plan |-> FirstOf(items, "plan", "enterprise"), seats |-> Max({1} \cup Seats(items))]
    BY DEF ChargebeeGrant, Seats
  <2>2. Max({1} \cup Seats(items)) \in Nat
    BY <1>0, LargestSeats
  <2>3. Single(items) => {1} \cup Seats(items) = {1, items[1].seats}
    BY <1>0, SingleValues
  <2>3a. Single(items) => Max({1} \cup Seats(items)) = Max({1, items[1].seats})
    BY <2>3, Zenon
  <2>4. FirstOf(items, "plan", "enterprise") \in Plans
    BY <1>0, NamedValues
  <2>5. Single(items) => FirstOf(items, "plan", "enterprise") = items[1].plan
    BY <1>0, SingleValues
  <2>. DEFINE m == Max({1} \cup Seats(items))
  <2>6. m \in Nat /\ (Single(items) => m = Max({1, items[1].seats}))
    BY <2>2, <2>3a
  <2>7. ChargebeeGrant(items) = [plan |-> FirstOf(items, "plan", "enterprise"), seats |-> m]
    BY <2>1
  <2>. HIDE DEF m
  <2>. QED
    BY <2>4, <2>5, <2>6, <2>7
<1>8. Good(Grant(e))
  <2>. HIDE DEF Good
  <2>. QED
    BY <1>2, <1>4, <1>5, <1>6, <1>7
<1>. QED
  BY <1>8 DEF items

-----------------------------------------------------------------------------
EventTypes == {"customer.created", "customer.subscription.created", "invoice.paid",
               "subscription_created", "invoice_generated", "checkout.session.completed",
               "customer.subscription.updated", "customer.subscription.deleted"}

\* As long as no torn write and no new secret has disturbed it, the licence
\* file is the one the last payment made.
ProvisionedInv ==
  lastPaid # Missing =>
    /\ lastPaid \in Nat /\ paidFor \in ItemLists
    /\ provisioned \in LicenseFiles
    /\ provisioned.secret = secret
    /\ provisioned.expires = lastPaid + TERM_DAYS
    /\ Single(paidFor) => /\ provisioned.plan = paidFor[1].plan
                          /\ provisioned.seats = Max({1, paidFor[1].seats})

BillingInv ==
  /\ today \in Nat /\ secret \in {1, 2}
  /\ subscription \in ItemLists \cup {Missing}
  /\ undelivered \subseteq [type : EventTypes, items : ItemLists]
  /\ ProvisionedInv

LEMMA PostKeepsTypes ==
  ASSUME BillingInv, NEW types \in SUBSET EventTypes, NEW items \in ItemLists, Post(types, items)
  PROVE  undelivered' \subseteq [type : EventTypes, items : ItemLists]
<1>1. \A t \in types : [type |-> t, items |-> items] \in [type : EventTypes, items : ItemLists]
  OBVIOUS
<1>2. {[type |-> t, items |-> items] : t \in types} \subseteq [type : EventTypes, items : ItemLists]
  BY <1>1
<1>. QED
  BY <1>2 DEF BillingInv, Post

LEMMA InitBillingInv == EInit => BillingInv
BY DEF EInit, BillingInv, ProvisionedInv

LEMMA NextBillingInv == BillingInv /\ [BillingNext \/ ActivationNext]_evars => BillingInv'
<1>. SUFFICES ASSUME BillingInv, [BillingNext \/ ActivationNext]_evars
             PROVE  BillingInv'
  OBVIOUS
<1>1. ASSUME UNCHANGED <<secret, provisioned, subscription, undelivered, lastPaid, paidFor>>, today' \in Nat
      PROVE  BillingInv'
  BY <1>1 DEF BillingInv, ProvisionedInv
<1>2. CASE UNCHANGED evars
  BY <1>1, <1>2 DEF evars, BillingInv
<1>3. CASE ActivationNext
  BY <1>1, <1>3 DEF ActivationNext, ActivateOnline, ActivateOffline, ActivateTorn, Deactivate,
                    NetworkChanges, billing, BillingInv
<1>4. CASE DayPasses
  BY <1>1, <1>4 DEF DayPasses, billing, BillingInv
<1>5. ASSUME NEW items \in ItemLists, Subscribe(items)
      PROVE  BillingInv'
  <2>1. PICK types \in {{"customer.created", "customer.subscription.created", "invoice.paid"},
                        {"subscription_created", "invoice_generated"},
                        {"checkout.session.completed"}} : Post(types, items)
    BY <1>5 DEF Subscribe
  <2>2. types \subseteq EventTypes
    BY <2>1 DEF EventTypes
  <2>3. undelivered' \subseteq [type : EventTypes, items : ItemLists]
    BY <2>1, <2>2, PostKeepsTypes
  <2>. QED
    BY <1>5, <2>3 DEF Subscribe, BillingInv, ProvisionedInv
<1>6. CASE Renew
  <2>1. subscription \in ItemLists /\ {"invoice.paid"} \subseteq EventTypes
    BY <1>6 DEF Renew, BillingInv, EventTypes
  <2>2. undelivered' \subseteq [type : EventTypes, items : ItemLists]
    BY <1>6, <2>1, PostKeepsTypes DEF Renew
  <2>. QED
    BY <1>6, <2>2 DEF Renew, BillingInv, ProvisionedInv
<1>7. CASE Cancel
  <2>1. subscription \in ItemLists
        /\ {"customer.subscription.updated", "customer.subscription.deleted"} \subseteq EventTypes
    BY <1>7 DEF Cancel, BillingInv, EventTypes
  <2>2. undelivered' \subseteq [type : EventTypes, items : ItemLists]
    BY <1>7, <2>1, PostKeepsTypes DEF Cancel
  <2>. QED
    BY <1>7, <2>2 DEF Cancel, BillingInv, ProvisionedInv
<1>8. CASE RotateSecret
  BY <1>8 DEF RotateSecret, BillingInv, ProvisionedInv
<1>9. ASSUME NEW e \in undelivered, Deliver(e)
      PROVE  BillingInv'
  <2>1. e.items \in ItemLists
    BY DEF BillingInv
  <2>2. undelivered' \subseteq undelivered /\ UNCHANGED <<today, secret, subscription>>
    BY <1>9 DEF Deliver
  <2>3. CASE Provisions(e) /\ Grant(e).seats >= 1 /\ provisioned' = LicenseFile(Grant(e))
             /\ lastPaid' = today /\ paidFor' = e.items
    <3>1. Grant(e) \in [plan : Plans, seats : Nat]
          /\ (Single(e.items) => Grant(e).plan = e.items[1].plan /\ Grant(e).seats = Max({1, e.items[1].seats}))
      BY <2>1, <2>3, GrantsAreTyped
    <3>. DEFINE g == Grant(e)
    <3>2. g \in [plan : Plans, seats : Nat]
          /\ (Single(paidFor') => g.plan = paidFor'[1].plan /\ g.seats = Max({1, paidFor'[1].seats}))
          /\ provisioned' = LicenseFile(g)
      BY <2>3, <3>1
    <3>. HIDE DEF g
    <3>3. provisioned' \in LicenseFiles /\ provisioned'.secret = secret /\ provisioned'.expires = today + TERM_DAYS
          /\ provisioned'.plan = g.plan /\ provisioned'.seats = g.seats
      BY <3>2 DEF LicenseFile, LicenseFiles, BillingInv, EntitlementAssumption
    <3>4. Single(paidFor)' => provisioned'.plan = paidFor'[1].plan /\ provisioned'.seats = Max({1, paidFor'[1].seats})
      BY <3>2, <3>3 DEF Single
    <3>. QED
      BY <2>1, <2>2, <2>3, <3>3, <3>4 DEF BillingInv, ProvisionedInv, LicenseFiles
  <2>4. CASE lastPaid' = Missing
    BY <2>2, <2>4 DEF BillingInv, ProvisionedInv
  <2>5. CASE UNCHANGED <<provisioned, lastPaid, paidFor>>
    BY <2>2, <2>5 DEF BillingInv, ProvisionedInv
  <2>. QED
    BY <1>9, <2>3, <2>4, <2>5 DEF Deliver
<1>. QED
  BY <1>2, <1>3, <1>4, <1>5, <1>6, <1>7, <1>8, <1>9 DEF BillingNext

\* Whatever becomes of the webhooks, the licence the portal shows is the one the
\* last payment provisioned, for exactly its term.
THEOREM PaymentsEntitle == ESpec => []EntitlementFollowsPayments
<1>1. BillingInv => EntitlementFollowsPayments
  <2>. SUFFICES ASSUME BillingInv, lastPaid # Missing
                PROVE  /\ PortalStatus = "active" <=> today <= lastPaid + TERM_DAYS
                       /\ Single(paidFor) => /\ provisioned.plan = paidFor[1].plan
                                             /\ provisioned.seats = Max({1, paidFor[1].seats})
    BY DEF EntitlementFollowsPayments, Single
  <2>1. lastPaid \in Nat /\ provisioned \in LicenseFiles
        /\ provisioned.secret = secret /\ provisioned.expires = lastPaid + TERM_DAYS
    BY DEF BillingInv, ProvisionedInv
  <2>2. provisioned # Missing /\ provisioned # Torn
    BY <2>1, SentinelAssumption
  <2>3. Valid <=> today <= lastPaid + TERM_DAYS
    BY <2>1, <2>2 DEF Valid, Expired, BillingInv, EntitlementAssumption
  <2>4. PortalStatus = "active" <=> Valid
    BY DEF PortalStatus
  <2>. QED
    BY <2>3, <2>4 DEF BillingInv, ProvisionedInv
<1>. QED
  BY <1>1, InitBillingInv, NextBillingInv, PTL DEF ESpec

-----------------------------------------------------------------------------
\* While the cache is undisturbed since the server accepted a key, it holds the
\* hint of that key; and only such a key leaves a valid answer in it.
ActivationInv ==
  /\ standing \in [LicenseKeys -> BOOLEAN]
  /\ cached \in CachedBlobs \cup {Missing, Torn}
  /\ proven # Missing => /\ proven \in LicenseKeys
                         /\ cached = [hint |-> Hint(proven), valid |-> TRUE]
  /\ cached \in CachedBlobs /\ cached.valid => proven # Missing

LEMMA InitActivationInv == EInit => ActivationInv
BY SentinelAssumption DEF EInit, ActivationInv

LEMMA AnswerIsCached ==
  ASSUME ActivationInv, NEW k \in LicenseKeys, ActivateOnline(k)
  PROVE  ActivationInv'
<1>. DEFINE b == standing[k]
            blob == [hint |-> Hint(k), valid |-> b]
<1>1. b \in BOOLEAN /\ standing' = standing
  BY DEF ActivationInv, ActivateOnline
<1>2. cached' = blob /\ proven' = IF b THEN k ELSE Missing
  BY DEF ActivateOnline
<1>. HIDE DEF b
<1>3. blob \in CachedBlobs /\ blob.valid = b
  BY <1>1 DEF CachedBlobs
<1>4. CASE b = TRUE
  <2>1. proven' = k /\ cached' = [hint |-> Hint(k), valid |-> TRUE] /\ k # Missing
    BY <1>2, <1>4 DEF EntitlementAssumption
  <2>2. cached' \in CachedBlobs
    BY <1>2, <1>3
  <2>. QED
    BY <1>1, <2>1, <2>2 DEF ActivationInv, CachedBlobs, Hint
<1>5. CASE b = FALSE
  <2>1. proven' = Missing
    BY <1>2, <1>5, Zenon
  <2>2. cached' \in CachedBlobs /\ ~cached'.valid
    BY <1>2, <1>3, <1>5, Zenon
  <2>. QED
    BY <1>1, <2>1, <2>2 DEF ActivationInv, CachedBlobs, Hint
<1>. QED
  BY <1>1, <1>4, <1>5

LEMMA NextActivationInv == ActivationInv /\ [BillingNext \/ ActivationNext]_evars => ActivationInv'
<1>. SUFFICES ASSUME ActivationInv, [BillingNext \/ ActivationNext]_evars
             PROVE  ActivationInv'
  OBVIOUS
<1>1. ASSUME UNCHANGED <<standing, cached, proven>>
      PROVE  ActivationInv'
  BY <1>1 DEF ActivationInv, CachedBlobs, Hint
<1>2. CASE UNCHANGED evars
  BY <1>1, <1>2 DEF evars
<1>3. CASE BillingNext
  <2>1. UNCHANGED activation
    BY <1>3 DEF BillingNext, Subscribe, Renew, Cancel, RotateSecret, DayPasses, Deliver
  <2>. QED
    BY <1>1, <2>1 DEF activation
<1>4. ASSUME NEW k \in LicenseKeys, ActivateOnline(k)
      PROVE  ActivationInv'
  BY <1>4, AnswerIsCached
<1>5. ASSUME NEW k \in LicenseKeys, ActivateOffline(k)
      PROVE  ActivationInv'
  BY <1>1, <1>5 DEF ActivateOffline
<1>6. ASSUME UNCHANGED standing, cached' \in {Missing, Torn}, proven' = Missing
      PROVE  ActivationInv'
  <2>1. cached' \notin CachedBlobs'
    BY <1>6, SentinelAssumption DEF CachedBlobs, Hint
  <2>. QED
    BY <1>6, <2>1 DEF ActivationInv
<1>7. ASSUME NEW k \in LicenseKeys, ActivateTorn(k)
      PROVE  ActivationInv'
  BY <1>6, <1>7 DEF ActivateTorn
<1>8. CASE Deactivate
  BY <1>6, <1>8 DEF Deactivate
<1>9. CASE NetworkChanges
  BY <1>1, <1>9 DEF NetworkChanges
<1>. QED
  BY <1>2, <1>3, <1>4, <1>5, <1>7, <1>8, <1>9 DEF ActivationNext

\* A key without a dot that continues the hint of another continues that key.
LEMMA HintsAreHonest ==
  ASSUME NEW p \in LicenseKeys, NEW k \in LicenseKeys,
         IsPrefix(Hint(p), k), "." \notin Range(k)
  PROVE  IsPrefix(p, k)
<1>. DEFINE P == Range(p)
            K == Range(k)
<1>1. p \in Seq(P) /\ k \in Seq(K) /\ HINT \in Nat
  BY DEF EntitlementAssumption
<1>2. CASE Len(p) <= HINT
  BY <1>1, <1>2 DEF Hint
<1>3. CASE Len(p) > HINT
  <2>. DEFINE dots == <<".", ".", ".">>
              A == P \cup {"."}
              h == SubSeq(p, 1, HINT)
              t == h \o dots
  <2>1. Hint(p) = t
    BY <1>3 DEF Hint
  <2>2. dots \in Seq(A) /\ Len(dots) = 3 /\ dots[1] = "."
    OBVIOUS
  <2>. HIDE DEF dots
  <2>3. p \in Seq(A)
    BY <1>1, SeqMonotonic
  <2>4. h \in Seq(A) /\ Len(h) = HINT
    <3>. HIDE DEF A
    <3>. QED
      BY <1>1, <1>3, <2>3, SubSeqProperties
  <2>. HIDE DEF h, A
  <2>5. t \in Seq(A) /\ Len(t) = HINT + 3 /\ t[HINT + 1] = "."
    <3>1. t \in Seq(A) /\ Len(t) = Len(h) + Len(dots)
      BY <2>2, <2>4, ConcatProperties, Zenon
    <3>0. \A i \in 1 .. Len(h) + Len(dots) : t[i] = IF i <= Len(h) THEN h[i] ELSE dots[i - Len(h)]
      BY <2>2, <2>4, ConcatProperties, Zenon
    <3>2. t[HINT + 1] = dots[(HINT + 1) - Len(h)]
      <4>. HIDE DEF t
      <4>1. HINT + 1 \in 1 .. Len(h) + Len(dots) /\ ~(HINT + 1 <= Len(h))
        BY <1>1, <2>2, <2>4
      <4>. QED
        BY <3>0, <4>1
    <3>3. (HINT + 1) - Len(h) = 1
      BY <1>1, <2>4
    <3>. QED
      BY <2>2, <2>4, <3>1, <3>2, <3>3
  <2>6. Len(t) <= Len(k) /\ SubSeq(t, 1, Len(t)) = SubSeq(k, 1, Len(t))
    BY <2>1 DEF IsPrefix
  <2>. HIDE DEF t
  <2>7. SubSeq(t, 1, Len(t))[HINT + 1] = "."
    BY <1>1, <2>5
  <2>. HIDE DEF K
  <2>8. SubSeq(k, 1, Len(t))[HINT + 1] = k[HINT + 1] /\ HINT + 1 \in 1 .. Len(k)
    BY <1>1, <2>5, <2>6
  <2>9. HINT + 1 \in DOMAIN k
    BY <1>1, <2>8
  <2>10. k[HINT + 1] \in Range(k)
    BY <2>9 DEF Range
  <2>. QED
    BY <2>6, <2>7, <2>8, <2>10
<1>. QED
  BY <1>1, <1>2, <1>3

\* Without a network exactly the keys the server has accepted, and what continues
\* them, go on working.
THEOREM ActivationsLast == ESpec => []OfflineGrace
<1>1. ActivationInv => OfflineGrace
  <2>. SUFFICES ASSUME ActivationInv, NEW k \in LicenseKeys
                PROVE  /\ OfflineValidate(k) => /\ proven # Missing
                                                /\ "." \notin Range(k) => IsPrefix(proven, k)
                       /\ proven = k /\ Len(k) <= HINT => OfflineValidate(k)
    BY DEF OfflineGrace
  <2>1. ASSUME OfflineValidate(k)
        PROVE  proven # Missing /\ ("." \notin Range(k) => IsPrefix(proven, k))
    <3>1. cached \in CachedBlobs /\ cached.valid /\ IsPrefix(cached.hint, k)
      BY <2>1 DEF OfflineValidate, ActivationInv
    <3>2. proven \in LicenseKeys /\ cached = [hint |-> Hint(proven), valid |-> TRUE] /\ proven # Missing
      BY <3>1 DEF ActivationInv
    <3>3. IsPrefix(Hint(proven), k)
      BY <3>1, <3>2
    <3>. QED
      BY <2>1, <3>2, <3>3, HintsAreHonest
  <2>2. ASSUME proven = k, Len(k) <= HINT
        PROVE  OfflineValidate(k)
    <3>1. k # Missing /\ k \in Seq(Range(k)) /\ HINT \in Nat
      BY DEF EntitlementAssumption
    <3>2. cached = [hint |-> Hint(k), valid |-> TRUE]
      BY <2>2, <3>1 DEF ActivationInv
    <3>3. Hint(k) = k /\ IsPrefix(k, k)
      BY <2>2, <3>1 DEF Hint, IsPrefix
    <3>4. cached \in CachedBlobs
      BY <3>2 DEF CachedBlobs
    <3>. QED
      BY <3>2, <3>3, <3>4, SentinelAssumption DEF OfflineValidate
  <2>. QED
    BY <2>1, <2>2
<1>. QED
  BY <1>1, InitActivationInv, NextActivationInv, PTL DEF ESpec
=============================================================================
