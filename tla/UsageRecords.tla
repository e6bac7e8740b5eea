---------------------------- MODULE UsageRecords ----------------------------
(***************************************************************************)
(* The two records a service keeps of its use, written by request threads: *)
(* the JSON-lines log of TelemetryLogger (telemetry.py), which the admin   *)
(* dashboard sums up (api/graphql.py), and the audit list of the role      *)
(* checks (api/rbac.py).  The logger's lock covers an append and nothing   *)
(* else; the audit list has none.  A usage record is its time, counted in  *)
(* halves of a day, and its dialect; an audit entry is its number and      *)
(* whether access was granted.                                             *)
(***************************************************************************)
EXTENDS Integers, Sequences, FiniteSets, SequencesExt, FiniteSetsExt

CONSTANTS Callers, Dialects, None,
          Enabled, AllowRemote,  \* what the caller asked for
          AUDIT_MAX,        \* _AUDIT_MAX_ENTRIES (10 000)
          MaxRecords, MaxTime   \* bounds: records of each kind, and half days

ASSUME UsageAssumption == /\ AUDIT_MAX \in Nat /\ AUDIT_MAX >= 2 \* of one entry no half is cut
                          /\ MaxRecords \in Nat /\ MaxTime \in Nat
                          /\ {Enabled, AllowRemote} \subseteq BOOLEAN
                          /\ IsFiniteSet(Callers) /\ None \notin {"appended", "over"}

VARIABLES time,
          log,              \* the records of telemetry.log; an absent file has none
          handle,           \* thread -> None, "open" or "unlinked": its open file
          counting,         \* thread -> None, or the number clear() has read
          logged, removed,  \* history: records persisted, and reported as removed
          forwarded,        \* calls of track_interaction
          overlapped,       \* history: clear() met an append in progress
          audit, audited,   \* _audit_log; entries appended to it so far
          rotating,         \* thread -> None, "appended" or "over"
          collided          \* history: two threads rotated at once

uvars == <<time, log, handle, counting, logged, removed, forwarded, overlapped,
           audit, audited, rotating, collided>>
auditing == <<audit, audited, rotating, collided>>
telemetry == <<log, handle, counting, logged, removed, forwarded, overlapped>>

UInit == /\ time = 0 /\ log = <<>> /\ logged = 0 /\ removed = 0 /\ forwarded = 0
         /\ handle = [t \in Callers |-> None] /\ counting = [t \in Callers |-> None]
         /\ overlapped = FALSE
         /\ audit = <<>> /\ audited = 0 /\ rotating = [t \in Callers |-> None]
         /\ collided = FALSE

-----------------------------------------------------------------------------
(* log_usage: under the lock the file is opened for appending ...          *)
Locked == \E t \in Callers : handle[t] # None
Busy(t) == handle[t] # None \/ counting[t] # None
LogOpen(t) == /\ Enabled /\ ~Locked /\ ~Busy(t) /\ logged < MaxRecords
              /\ handle' = [handle EXCEPT ![t] = "open"]
              /\ overlapped' = (overlapped \/ \E u \in Callers : counting[u] # None)
              /\ UNCHANGED <<time, log, counting, logged, removed, forwarded, auditing>>
(* ... and written; a file unlinked meanwhile takes the line with it.      *)
(* _allow_remote is allow_remote or enabled, so a record is forwarded      *)
(* whatever the caller asked for.                                          *)
Remote == AllowRemote \/ Enabled
(* Mutant: the file is opened for writing.                                 *)
LogTruncates(t, d) ==
    /\ handle[t] # None
    /\ log' = IF handle[t] = "open" THEN <<[ts |-> time, dialect |-> d]>> ELSE log
    /\ handle' = [handle EXCEPT ![t] = None]
    /\ logged' = logged + 1
    /\ forwarded' = forwarded + (IF Remote THEN 1 ELSE 0)
    /\ UNCHANGED <<time, counting, removed, overlapped, auditing>>
LogWrite(t, d) ==
    /\ handle[t] # None
    /\ log' = IF handle[t] = "open" THEN Append(log, [ts |-> time, dialect |-> d]) ELSE log
    /\ handle' = [handle EXCEPT ![t] = None]
    /\ logged' = logged + 1
    /\ forwarded' = forwarded + (IF Remote THEN 1 ELSE 0)
    /\ UNCHANGED <<time, counting, removed, overlapped, auditing>>
LogFails(t) == /\ handle[t] # None
               /\ handle' = [handle EXCEPT ![t] = None]
               /\ UNCHANGED <<time, log, counting, logged, removed, forwarded, overlapped, auditing>>

(* clear: read_records and unlink, outside the lock.                       *)
ClearCount(t) == /\ ~Busy(t)
                 /\ counting' = [counting EXCEPT ![t] = Len(log)]
                 /\ overlapped' = (overlapped \/ Locked \/ \E u \in Callers : counting[u] # None)
                 /\ UNCHANGED <<time, log, handle, logged, removed, forwarded, auditing>>
ClearUnlink(t) ==
    /\ counting[t] # None
    /\ counting' = [counting EXCEPT ![t] = None]
    /\ \/ /\ log' = <<>> /\ removed' = removed + counting[t]
          /\ handle' = [u \in Callers |-> IF handle[u] = None THEN None ELSE "unlinked"]
       \/ UNCHANGED <<log, removed, handle>>        \* OSError: 0 is returned
    /\ UNCHANGED <<time, logged, forwarded, overlapped, auditing>>
Later == /\ time < MaxTime /\ time' = time + 1 /\ UNCHANGED <<telemetry, auditing>>

(* get_telemetry_data(days, dialect): the dialect narrows the breakdown    *)
(* alone; the volume keeps the last `days` calendar days that have records. *)
Recent(days) == {i \in DOMAIN log : log[i].ts >= time - 2 * days}
DialectStats(days, only) ==
    [d \in {log[i].dialect : i \in Recent(days)} \cap (IF only = None THEN Dialects ELSE {only})
       |-> Cardinality({i \in Recent(days) : log[i].dialect = d})]
DaysSeen(days) == {log[i].ts \div 2 : i \in Recent(days)}
DailyVolume(days) ==
    [d \in {x \in DaysSeen(days) : Cardinality({y \in DaysSeen(days) : y > x}) < days}
       |-> Cardinality({i \in Recent(days) : log[i].ts \div 2 = d})]
Total(stats) == MapThenSumSet(LAMBDA d : stats[d], DOMAIN stats)

-----------------------------------------------------------------------------
(* Roles: ADMIN has the others' too.                                       *)
Roles == {"ADMIN", "BILLING", "DEVELOPER"}
Effective(roles) == (roles \cap Roles) \cup (IF "ADMIN" \in roles THEN Roles ELSE {})
Permits(role) == CASE role = "ADMIN" -> {"read", "write", "delete", "admin"}
                   [] role = "BILLING" -> {"read", "write"}
                   [] role = "DEVELOPER" -> {"read"}
(* require_role and require_any_role ask for one of some roles,            *)
(* require_action for a role that permits it.                              *)
HasAnyRole(roles, needed) == Effective(roles) \cap needed # {}
CanPerform(roles, action) == \E r \in Effective(roles) : action \in Permits(r)

(* _record_audit_event: append, look at the length, delete the older half. *)
Half == AUDIT_MAX \div 2
AuditAppend(t, granted) ==
    /\ rotating[t] = None /\ audited < MaxRecords
    /\ audit' = Append(audit, [nr |-> audited + 1, granted |-> granted])
    /\ audited' = audited + 1
    /\ rotating' = [rotating EXCEPT ![t] = "appended"]
    /\ UNCHANGED <<time, telemetry, collided>>
Access(t) == \E roles \in SUBSET {"ADMIN", "DEVELOPER", "VISITOR"} :
                \/ \E needed \in {{r} : r \in Roles} \cup {{"BILLING", "DEVELOPER"}} :
                      AuditAppend(t, HasAnyRole(roles, needed))
                \/ \E action \in Permits("ADMIN") : AuditAppend(t, CanPerform(roles, action))
AuditLength(t) ==
    /\ rotating[t] = "appended"
    /\ LET over == Len(audit) > AUDIT_MAX
       IN /\ rotating' = [rotating EXCEPT ![t] = IF over THEN "over" ELSE None]
          /\ collided' = (collided \/ (over /\ \E u \in Callers : rotating[u] = "over"))
    /\ UNCHANGED <<time, telemetry, audit, audited>>
AuditRotate(t) ==
    /\ rotating[t] = "over"
    /\ audit' = SubSeq(audit, Half + 1, Len(audit))
    /\ rotating' = [rotating EXCEPT ![t] = None]
    /\ UNCHANGED <<time, telemetry, audited, collided>>

LogNext == \/ \E t \in Callers : \/ LogOpen(t) \/ LogFails(t) \/ ClearCount(t) \/ ClearUnlink(t)
                                 \/ \E d \in Dialects : LogWrite(t, d)
           \/ Later
AuditNext == \E t \in Callers : Access(t) \/ AuditLength(t) \/ AuditRotate(t)
USpec == UInit /\ [][LogNext \/ AuditNext]_uvars

-----------------------------------------------------------------------------
(* Unless a clear met an append or another clear, every record log_usage   *)
(* reported as persisted is in the file or was counted by the clear that   *)
(* removed it; each was forwarded, whatever allow_remote says; and the     *)
(* dashboard adds up: the breakdown to the total, the daily volume to the  *)
(* total but for the calendar day that the window of `days` times 24 hours *)
(* cuts (telemetry.py:404-461, graphql.py:190-253).                        *)
UsageAddsUp ==
    /\ ~overlapped => logged = Len(log) + removed
    /\ forwarded = logged
    /\ \A days \in 1..2 :
         LET all == Cardinality(Recent(days))
             cut == {i \in Recent(days) : log[i].ts \div 2 = time \div 2 - days}
         IN /\ Total(DialectStats(days, None)) = all
            /\ Total(DailyVolume(days)) \in {all, all - Cardinality(cut)}

(* The audit list always ends with the newest entry and has no gap, is     *)
(* never longer than its limit and one entry per thread, and keeps more    *)
(* than half of its limit unless two threads rotated at once               *)
(* (api/rbac.py:28-46).                                                    *)
AuditKeepsTheNewest ==
    /\ \A i \in DOMAIN audit : audit[i].nr = audited - Len(audit) + i
    /\ Len(audit) <= AUDIT_MAX + Cardinality(Callers)
    /\ ~collided => Len(audit) >= Min({audited, AUDIT_MAX - Half + 1})

(* Both records add up: what was logged, and what was audited (the two     *)
(* above, telemetry.py:404-461, api/rbac.py:28-46).                        *)
RecordsAddUp == UsageAddsUp /\ AuditKeepsTheNewest
=============================================================================
