------------------------------- MODULE Outbound -------------------------------
(***************************************************************************)
(* What leaves the workbench because the user asks for it: the cloud       *)
(* profile of cloud/sync.py with its page (ui/pages/cloud_sync.py), and    *)
(* the crash reports of support/ticketing.py.                              *)
(***************************************************************************)
EXTENDS Naturals

CONSTANTS Channels,            \* channels a report may name
          MaxReports           \* bound: reports made

ASSUME OutboundAssumption == MaxReports \in Nat

VARIABLES zero, endpoint,      \* CloudSyncManager in memory; endpoint stands for it and its key
          profile,             \* cloud_profile.json: "missing", "torn" or [zero, endpoint]
          switch, badge, entry, \* the page: the privacy switch, the badge, the endpoint entry
          wish, forgotten,     \* history: the last switch thrown; it could not be saved
          optedIn, credentials, \* SQLEAN_LINT_SUPPORT; the channels with a token
          report, made,        \* the report being made; how many were
          tickets, lost        \* channel -> tickets it opened; of these, answered too late or not at all

cloud == <<zero, endpoint, profile, switch, badge, entry, wish, forgotten>>
support == <<optedIn, credentials, report, made, tickets, lost>>
nvars == <<cloud, support>>
Clients == {"intercom", "zendesk"}
NotSending == [left |-> {}, to |-> {"nothing"}, got |-> {}]

-----------------------------------------------------------------------------
(* load_settings: nothing to read, or nothing that parses, is zero cloud.  *)
(* Mutant: what does not parse leaves the cloud on.                        *)
LoadedTornOpen(p) == [zero |-> p \in {"missing", "on", "on, endpoint"},
                      endpoint |-> p \in {"on, endpoint", "off, endpoint"}]
Loaded(p) == IF p \in {"missing", "torn"} THEN [zero |-> TRUE, endpoint |-> FALSE]
             ELSE [zero |-> p \in {"on", "on, endpoint"}, endpoint |-> p \in {"on, endpoint", "off, endpoint"}]
Stored(z, e) == CASE z /\ e -> "on, endpoint" [] z /\ ~e -> "on" [] ~z /\ e -> "off, endpoint" [] OTHER -> "off"

PageShows(z, e) == switch' = z /\ badge' = z /\ entry' = e
NInit == /\ profile \in {"missing", "on, endpoint", "off, endpoint"}
         /\ zero = Loaded(profile).zero /\ endpoint = Loaded(profile).endpoint
         /\ switch = zero /\ badge = zero /\ entry = endpoint /\ wish = zero /\ forgotten = FALSE
         /\ optedIn \in BOOLEAN /\ credentials \in SUBSET Clients
         /\ report = NotSending /\ made = 0 /\ tickets = [c \in Clients |-> 0] /\ lost = [c \in Clients |-> 0]

(* save_settings opens the file, which empties it, and dumps: it may not   *)
(* open, and the dump may not finish.                                      *)
Saves(outcome) == CASE outcome = "saved" -> profile' = Stored(zero', endpoint')
                    [] outcome = "torn" -> profile' = "torn"
                    [] OTHER -> UNCHANGED profile
(* _on_privacy_toggle: the manager first, then its file, then the badge.   *)
Toggle == \E outcome \in {"saved", "torn", "refused"} :
            /\ switch' = ~switch /\ zero' = switch' /\ wish' = switch'
            /\ UNCHANGED <<endpoint, entry>> /\ Saves(outcome)
            /\ badge' = IF outcome = "saved" THEN zero' ELSE badge
            /\ forgotten' = (outcome = "refused")
(* sync_now: the entry goes into the profile, and the artifact is hashed;  *)
(* zero cloud answers LOCAL_ONLY before anything is looked at.             *)
SyncNow == \E outcome \in {"saved", "torn", "refused"} :
             /\ endpoint' = entry /\ UNCHANGED <<zero, switch, badge, entry, wish>> /\ Saves(outcome)
             /\ forgotten' = (forgotten /\ (outcome = "refused" \/ zero # wish))
SyncStatus == IF zero THEN "LOCAL_ONLY" ELSE IF endpoint THEN "SUCCESS" ELSE "ERROR"
TypeEndpoint == entry' = ~entry /\ UNCHANGED <<zero, endpoint, profile, switch, badge, wish, forgotten>>
(* The application quits or dies, and starts again.                        *)
Restart == /\ zero' = Loaded(profile).zero /\ endpoint' = Loaded(profile).endpoint
           /\ PageShows(zero', endpoint') /\ UNCHANGED <<profile, wish, forgotten>>
CloudNext == (Toggle \/ SyncNow \/ TypeEndpoint \/ Restart) /\ UNCHANGED support

-----------------------------------------------------------------------------
(* report_crash: no consent raises before anything; not opted in is a dry  *)
(* run; else the channels are tried one after the other.                   *)
ReportCrash(chosen) == /\ report = NotSending /\ made < MaxReports /\ made' = made + 1
                       /\ report' = [left |-> IF optedIn THEN chosen ELSE {}, to |-> chosen, got |-> {}]
                       /\ UNCHANGED <<optedIn, credentials, tickets, lost>>
Result(c, r) == report' = [report EXCEPT !.left = @ \ {c}, !.got = @ \cup {<<c, r>>}]
(* create_conversation and create_ticket: an answer that is lost, or late  *)
(* for the timeout, raises like a refusal, but the ticket is open.         *)
ChannelFails(c) == /\ c \in Clients /\ Result(c, "failed")
                   /\ \/ UNCHANGED <<tickets, lost>>
                      \/ /\ c \in credentials
                         /\ tickets' = [tickets EXCEPT ![c] = @ + 1] /\ lost' = [lost EXCEPT ![c] = @ + 1]
ChannelSends(c) == /\ c \in credentials /\ Result(c, "sent")
                   /\ tickets' = [tickets EXCEPT ![c] = @ + 1] /\ UNCHANGED lost
TryChannel(c) == /\ c \in report.left
                 /\ \/ ChannelFails(c) \/ ChannelSends(c)
                    \/ c \notin Clients /\ Result(c, "unknown") /\ UNCHANGED <<tickets, lost>>
                 /\ UNCHANGED <<optedIn, credentials, made>>
Reported == /\ report # NotSending /\ report.left = {} /\ report' = NotSending
            /\ UNCHANGED <<optedIn, credentials, tickets, lost, made>>
SupportNext == /\ UNCHANGED cloud
               /\ \/ \E chosen \in SUBSET Channels : ReportCrash(chosen)
                  \/ \E c \in Channels : TryChannel(c)
                  \/ Reported
NSpec == NInit /\ [][CloudNext \/ SupportNext]_nvars

NTypeOK == /\ {zero, endpoint, switch, badge, entry, wish, forgotten, optedIn} \subseteq BOOLEAN
           /\ profile \in {"missing", "torn", "on", "off", "on, endpoint", "off, endpoint"}
           /\ tickets \in [Clients -> Nat] /\ lost \in [Clients -> Nat] /\ made \in 0..MaxReports

(* The cloud is on only for a user who last switched zero cloud off, or    *)
(* whose last choice the profile refused to keep; neither a torn profile   *)
(* nor a restart switches it on.  The switch shows what the manager does,  *)
(* and a synced artifact is one the user allowed.                          *)
CloudIsAChoice == /\ ~zero => ~wish \/ forgotten
                  /\ switch = zero
                  /\ SyncStatus = "SUCCESS" => ~switch /\ endpoint
(* A finished report has a result for every channel it named, one that     *)
(* says "sent" has its ticket, and tickets nobody was told of are those    *)
(* whose answer was lost; without the opt-in there are none.               *)
ReportsAreComplete ==
  /\ \A c \in Clients : lost[c] <= tickets[c] /\ (~optedIn => tickets[c] = 0)
  /\ report # NotSending => /\ \A c \in report.to : optedIn => c \in report.left \/ \E r \in report.got : r[1] = c
                      /\ \A r \in report.got : r[2] = "sent" => tickets[r[1]] > lost[r[1]]

(* Nothing leaves that was not asked for, and what was asked for is        *)
(* answered (the two above).                                               *)
OnlyWhatWasAsked == NTypeOK /\ CloudIsAChoice /\ ReportsAreComplete
=============================================================================
