-------------------------------- MODULE MCApi --------------------------------
(***************************************************************************)
(* TLC instance of the servers: a behaviour is of a batch, of WebSocket    *)
(* clients, or of an editor or an MCP client on standard input.  The MCP   *)
(* lines are single requests, notifications and arrays with entries of     *)
(* both kinds, with and without an id.                                     *)
(***************************************************************************)
EXTENDS LintService, RpcServers

VARIABLE subject

MCFix == [t \in Texts |-> IF t = "bad" THEN "good" ELSE t]
Req(m) == [method |-> m, id |-> 1]
Note(m) == [method |-> m, id |-> 0]
MCLines == {[entries |-> es] : es \in
  {<<>>, <<Note("not an object")>>, <<Req("tools/call")>>, <<Note("ping"), Req("unknown")>>,
   <<Req("ping"), Note("notifications/cancelled"), Req("tools/call")>>,
   <<Req("resources/list"), Req("missing"), Req("ping")>>,
   <<Req("notifications/cancelled"), Req("tools/call with a list of params")>>}}

ServiceIdle == SInit /\ sound = [q \in BatchQueries |-> TRUE] /\ concurrency = 1
RpcIdle == PInit /\ endpoint = "lsp"
MCInit == \/ subject = "batch" /\ SInit /\ RpcIdle
          \/ subject = "stream" /\ ServiceIdle /\ RpcIdle
          \/ subject = "rpc" /\ ServiceIdle /\ PInit
MCNext == \/ subject = "batch" /\ BatchNext /\ UNCHANGED <<pvars, subject>>
          \/ subject = "stream" /\ (StreamNext \/ LintBegin \/ LintEnd) /\ UNCHANGED <<pvars, subject>>
          \/ subject = "rpc" /\ PNext /\ UNCHANGED <<svars, subject>>
MCSpec == MCInit /\ [][MCNext]_<<svars, pvars, subject>> /\ SFairness
=============================================================================
