------------------------------- MODULE MCServices -------------------------------
(***************************************************************************)
(* TLC instance of what works beside the linter: a behaviour is of the     *)
(* refactoring pipeline, of the observability hooks, of a feature flag and *)
(* the analytics sinks, of the cloud profile, of the crash reports or of   *)
(* the Web Studio.  Two texts that resemble each other, in two dialects;   *)
(* two threads; flags of two and, where the default is none of them, three *)
(* variants; three channels of which one is unknown; a text with a rewrite *)
(* and one without.                                                        *)
(***************************************************************************)
EXTENDS RefactorPipeline, Observability, Experiments, Outbound, WebStudio

VARIABLE subject
mcvars == <<refactorVars, ovars, xvars, nvars, wvars, subject>>

MCNear == {<<"s", "t">>, <<"t", "s">>}
MCExperiments == {<<"control", "treatment">>, <<"4", "16">>}
MCDefaults == {"control", "4"}
CONSTANTS u1, u2
MCUsers == {u1, u2}
MCBucket == [u \in MCUsers |-> IF u = u1 THEN 0 ELSE 3]
MCRemote == [u \in MCUsers |-> IF u = u1 THEN "control" ELSE "treatment"]
MCRewrite == [t \in Scripts |-> IF t = "slow" THEN "fast" ELSE Blank]

Local == provider = "local" /\ variants = <<"4", "16">> /\ seed = 0 /\ anonId = Unset /\ clientId = u1
Quiet(s) == /\ s # "refactoring" => aiOn
            /\ s # "hooks" => sdk = "works"
            /\ s # "flags" => Local
            /\ s # "profile" => profile = "missing"
            /\ s # "reports" => ~optedIn /\ credentials = {}
MCInit == /\ subject \in {"refactoring", "hooks", "flags", "profile", "reports", "studio"}
          /\ IInit /\ OInit /\ XInit /\ NInit /\ WInit /\ Quiet(subject)
But(vars) == UNCHANGED vars /\ UNCHANGED subject
MCNext == \/ subject = "refactoring" /\ INext /\ But(<<ovars, xvars, nvars, wvars>>)
          \/ subject = "hooks" /\ ONext /\ But(<<refactorVars, xvars, nvars, wvars>>)
          \/ subject = "flags" /\ (FlagNext \/ TrackNext \/ NewProcess) /\ But(<<refactorVars, ovars, nvars, wvars>>)
          \/ subject = "profile" /\ CloudNext /\ But(<<refactorVars, ovars, xvars, wvars>>)
          \/ subject = "reports" /\ SupportNext /\ But(<<refactorVars, ovars, xvars, wvars>>)
          \/ subject = "studio" /\ WNext /\ But(<<refactorVars, ovars, xvars, nvars>>)
MCSpec == MCInit /\ [][MCNext]_mcvars /\ WFairness
=============================================================================
