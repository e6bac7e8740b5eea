------------------------------- MODULE MCUsage -------------------------------
(***************************************************************************)
(* TLC instance of the three records of what the user does: a behaviour is *)
(* of the interaction recorder, of the telemetry log or of the audit log.  *)
(* Two threads each; a buffer of two events that overflows; an audit log   *)
(* of three entries, cut at the next.                                      *)
(***************************************************************************)
EXTENDS InteractionRecorder, UsageRecords

VARIABLE subject

CONSTANTS first, second
MCFlushers == {first, second}

MCInit == Init /\ UInit /\ subject \in {"recorder", "log", "audit"}
MCNext == \/ subject = "recorder" /\ Next /\ UNCHANGED <<uvars, subject>>
          \/ subject = "log" /\ LogNext /\ UNCHANGED <<vars, subject>>
          \/ subject = "audit" /\ AuditNext /\ UNCHANGED <<vars, subject>>
(* The recorder's fairness, of FairSpec.                                   *)
MCFairness == /\ \A t \in Threads : SF_vars(FlushLen(t)) /\ WF_vars(Flush(t)) /\ WF_vars(Loop(t))
              /\ WF_vars(StartSpawn) /\ WF_vars(Stopping)
MCSpec == MCInit /\ [][MCNext]_<<vars, uvars, subject>> /\ MCFairness
=============================================================================
