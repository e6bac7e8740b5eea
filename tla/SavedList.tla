----------------------------- MODULE SavedList -----------------------------
(***************************************************************************)
(* What a query-history ledger promises the drawer: a list of the newest   *)
(* queries, and a saved list that a restart goes back to.  Saving is       *)
(* atomic: whatever stops it, the saved list is the one before or the copy *)
(* that was taken.  An implementation may be spoilt for good, by a second  *)
(* copy beside one not yet saved; it says so.  Then the saved list is      *)
(* still a history, though any.                                            *)
(***************************************************************************)
EXTENDS Integers, Sequences

CONSTANTS MAX_ENTRIES  \* length of the list

VARIABLES
  list,    \* the queries shown, each the number of its record
  count,   \* queries ever recorded
  copies,  \* lists on their way to the saved one
  saved,   \* what a restart finds
  spoilt   \* two copies were on their way at once

lvars == <<list, count, copies, saved, spoilt>>

Newest(s) ==
  IF Len(s) > MAX_ENTRIES THEN SubSeq(s, Len(s) - MAX_ENTRIES + 1, Len(s)) ELSE s

\* Queries that were recorded, each once, in order, not too many.
IsHistory(s) ==
  /\ s \in Seq(Nat)
  /\ Len(s) <= MAX_ENTRIES
  /\ \A i \in 1 .. Len(s) : s[i] <= count
  /\ \A i, j \in 1 .. Len(s) : i < j => s[i] < s[j]

Init ==
  /\ list = <<>> /\ count = 0
  /\ copies = {} /\ saved = <<>>
  /\ spoilt = FALSE

Record ==
  /\ count' = count + 1
  /\ list' = Newest(Append(list, count + 1))
  /\ UNCHANGED <<copies, saved, spoilt>>

Clear ==
  /\ list' = <<>>
  /\ UNCHANGED <<count, copies, saved, spoilt>>

Copy ==
  /\ copies' = copies \cup {list}
  /\ spoilt' = (spoilt \/ copies # {})
  /\ UNCHANGED <<list, count, saved>>

\* Until spoilt there is one copy; it is saved, or it is lost.
Save ==
  /\ ~spoilt
  /\ saved' \in copies
  /\ copies' = {}
  /\ UNCHANGED <<list, count, spoilt>>

Lose ==
  /\ ~spoilt
  /\ copies' = {}
  /\ UNCHANGED <<list, count, saved, spoilt>>

Garble ==
  /\ spoilt
  /\ IsHistory(saved')
  /\ copies' \in SUBSET copies
  /\ UNCHANGED <<list, count, spoilt>>

\* A restart, also in the middle of any of these.
Crash ==
  /\ spoilt \/ saved' = saved
  /\ IsHistory(saved')
  /\ list' = saved'
  /\ copies' = {}
  /\ UNCHANGED <<count, spoilt>>

Next == Record \/ Clear \/ Copy \/ Save \/ Lose \/ Garble \/ Crash

Spec == Init /\ [][Next]_lvars

\* What the promise amounts to: what is shown and what is saved are histories.
Histories == IsHistory(list) /\ IsHistory(saved) /\ \A c \in copies : IsHistory(c)
=============================================================================
