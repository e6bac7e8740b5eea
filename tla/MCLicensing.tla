----------------------------- MODULE MCLicensing -----------------------------
(***************************************************************************)
(* TLC instance of everything that decides what the user has paid for: a   *)
(* behaviour follows the lease and the licence file of the desktop         *)
(* (LicenseStore), the webhooks of a subscription, or the activation of a  *)
(* key (both Entitlements).  The lease is two days and the paid term four, *)
(* so that six days outlive both; licences of this machine, of another and *)
(* an unbound one.  Keys are prefixes of one another up to one longer than *)
(* the hint the cache keeps, and one is what the cache makes of another; a *)
(* provisioned term is one of three days.                                  *)
(***************************************************************************)
EXTENDS LicenseStore, Entitlements

VARIABLE subject

CONSTANTS laptop, dock
MCMachines == {laptop, dock}
MCKeys == {[hw |-> laptop, expires |-> 3], [hw |-> dock, expires |-> 5],
           [hw |-> AnyMachine, expires |-> 1]}

Item(plan, seats) == [plan |-> plan, seats |-> seats]
MCItemLists == {<<Item("pro", 2)>>, <<Item("team", 0)>>, <<Item(Missing, 3), Item("pro", Missing)>>,
                <<Item("pro", 1), Item("team", 5)>>}
MCPlans == {"enterprise", "pro", "team"}
MCLicenseKeys == {<<"a">>, <<"a", "b">>, <<"a", "b", "c">>, <<"a", "b", ".", ".", ".">>}

LeaseIdle == Init /\ hw = laptop
WebIdle == EInit /\ standing = [k \in LicenseKeys |-> TRUE]

MCInit == \/ subject = "lease" /\ Init /\ WebIdle
          \/ subject = "billing" /\ WebIdle /\ LeaseIdle
          \/ subject = "activation" /\ EInit /\ LeaseIdle
MCNext == \/ subject = "lease" /\ Next /\ UNCHANGED <<evars, subject>>
          \/ subject = "billing" /\ BillingNext /\ UNCHANGED <<vars, subject>>
          \/ subject = "activation" /\ ActivationNext /\ UNCHANGED <<vars, subject>>
MCSpec == MCInit /\ [][MCNext]_<<vars, evars, subject>>
=============================================================================
