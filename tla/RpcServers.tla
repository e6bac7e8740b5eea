----------------------------- MODULE RpcServers -----------------------------
(***************************************************************************)
(* The two JSON-RPC servers on stdin and stdout: the language server       *)
(* (lsp_server.py), with its table of documents, and the MCP server        *)
(* (mcp_server.py), which keeps nothing.  A client fills the pipe, the     *)
(* server takes one frame at a time.  A document's text is a model value,  *)
(* its diagnostics are named by the text they were computed from.          *)
(***************************************************************************)
EXTENDS Naturals, Sequences, FiniteSets, SequencesExt, Functions

CONSTANTS Uris, Texts,  \* documents and what they may hold; "" is the empty text
          Fix,          \* fix_sql on those texts
          Lines,        \* what an MCP client may write, but for the numbers of its requests
          MaxFrames     \* bound: frames a client writes

ASSUME FixAssumption == Fix \in [Texts -> Texts] /\ "" \in Texts
ASSUME MaxFramesAssumption == MaxFrames \in Nat
ASSUME LinesAssumption ==      \* what is not an object has no id
  \A line \in Lines :
    /\ line \in [entries : Seq([method : STRING, id : Nat])]
    /\ \A i \in DOMAIN line.entries : line.entries[i].method = "not an object" => line.entries[i].id = 0

VARIABLES endpoint,     \* which of the two serves
          pipe,         \* frames written and not yet read
          sent,         \* frames written
          serving,      \* the loop runs
          documents,    \* _DOCUMENTS
          published,    \* uri -> the text of the last publishDiagnostics
          shown,        \* uri -> what the editor shows; only open documents
          served,       \* history: messages taken by a handler
          answers       \* frames written to stdout, publishDiagnostics apart

pvars == <<endpoint, pipe, sent, serving, documents, published, shown, served, answers>>

None == 0               \* no id, and the id null of an answer
Answer(id, holds) == [id |-> id, holds |-> holds]

PInit == /\ endpoint \in {"lsp", "mcp"}
         /\ pipe = <<>> /\ sent = 0 /\ serving = TRUE
         /\ documents = <<>> /\ published = <<>> /\ shown = <<>>
         /\ served = <<>> /\ answers = <<>>

-----------------------------------------------------------------------------
(* The clients.  An editor tells what it does to its documents; both number *)
(* their requests.                                                         *)
Write(frame) == /\ sent < MaxFrames
                /\ pipe' = Append(pipe, frame) /\ sent' = sent + 1
                /\ UNCHANGED <<endpoint, serving, documents, published, served, answers>>
Told(method, id, uri, texts) ==
    [frame |-> "message", method |-> method, id |-> id, uri |-> uri, texts |-> texts]
Put(f, u, t) == [v \in DOMAIN f \cup {u} |-> IF v = u THEN t ELSE f[v]]

Open(u, t) == /\ endpoint = "lsp" /\ u \notin DOMAIN shown
              /\ shown' = Put(shown, u, t)
              /\ Write(Told("textDocument/didOpen", None, u, <<t>>))
Type(u, t) == /\ u \in DOMAIN shown
              /\ shown' = [shown EXCEPT ![u] = t]
              /\ \E earlier \in {<<>>, <<shown[u]>>} :
                   Write(Told("textDocument/didChange", None, u, Append(earlier, t)))
NoChange(u) == /\ u \in DOMAIN shown /\ UNCHANGED shown
               /\ Write(Told("textDocument/didChange", None, u, <<>>))
SaveFile(u) == /\ u \in DOMAIN shown /\ UNCHANGED shown
               /\ \E text \in {<<>>, <<shown[u]>>} :
                    Write(Told("textDocument/didSave", None, u, text))
CloseFile(u) == /\ u \in DOMAIN shown
                /\ shown' = Restrict(shown, DOMAIN shown \ {u})
                /\ Write(Told("textDocument/didClose", None, u, <<>>))
Request(method, u) == /\ endpoint = "lsp" /\ UNCHANGED shown
                      /\ Write(Told(method, sent + 1, u, <<>>))
Speak(frame) == endpoint = "lsp" /\ UNCHANGED shown /\ Write([frame |-> frame])
Numbered(e, number) == [e EXCEPT !.id = IF @ = None THEN None ELSE number]
Line == /\ endpoint = "mcp" /\ UNCHANGED shown
        /\ \E line \in Lines :
             Write([entries |-> [i \in DOMAIN line.entries |-> Numbered(line.entries[i], 10 * sent + i)]])

-----------------------------------------------------------------------------
(* The language server: _read_message, run, _dispatch.                     *)
Lsp == endpoint = "lsp" /\ serving /\ pipe # <<>>
Frame == Head(pipe)
Take == pipe' = Tail(pipe) /\ UNCHANGED <<endpoint, sent, shown>>

(* A frame without a positive length, or one that cannot be read, is taken *)
(* for the end of the stream; exit leaves the loop; a JSON array or number *)
(* has no get() and its error leaves run().                                *)
Ends == /\ Lsp /\ Take
        /\ \/ Frame.frame \in {"corrupt", "not an object"}
           \/ Frame.frame = "message" /\ Frame.method = "exit"
        /\ serving' = FALSE
        /\ UNCHANGED <<documents, published, served, answers>>
Ignored == /\ Lsp /\ Take /\ Frame.frame \in {"blank", "malformed"}
           /\ UNCHANGED <<serving, documents, published, served, answers>>

Reply(m, replies) == /\ Lsp /\ Take
                     /\ m.frame = "message"
                     /\ served' = Append(served, m)
                     /\ answers' = answers \o (IF m.id = None THEN <<>> ELSE replies)
                     /\ UNCHANGED serving

Known(u) == IF u \in DOMAIN documents THEN documents[u] ELSE ""

(* _lint_document publishes under the uri; the text is stored before.      *)
LintDocument(u, text) == /\ documents' = Put(documents, u, text)
                         /\ published' = Put(published, u, text)
DidOpen(m) == /\ m.method = "textDocument/didOpen"
              /\ LintDocument(m.uri, m.texts[1])
(* Mutant: the first of several changes wins.                              *)
DidChangeFirst(m) == /\ m.method = "textDocument/didChange"
                     /\ LintDocument(m.uri, IF m.texts = <<>> THEN Known(m.uri) ELSE m.texts[1])
DidChange(m) == /\ m.method = "textDocument/didChange"
                /\ LintDocument(m.uri, IF m.texts = <<>> THEN Known(m.uri) ELSE Last(m.texts))
DidSave(m) == /\ m.method = "textDocument/didSave"
              /\ LintDocument(m.uri, IF m.texts \in {<<>>, <<"">>} THEN Known(m.uri) ELSE m.texts[1])
Notified == /\ Lsp /\ Frame.frame = "message"
            /\ DidOpen(Frame) \/ DidChange(Frame) \/ DidSave(Frame)
            /\ Reply(Frame, <<>>)

(* _send puts a result under "params"; None, the result of `initialized`,  *)
(* is not sent at all.                                                     *)
Quickfix(text) == IF text # "" /\ Fix[text] # text THEN <<Fix[text]>> ELSE <<>>
Answered(m) == CASE m.method = "initialize" -> <<Answer(m.id, "params")>>
                 [] m.method = "initialized" -> <<>>
                 [] m.method = "textDocument/codeAction" ->
                      <<[id |-> m.id, holds |-> "params", edit |-> Quickfix(Known(m.uri))]>>
                 [] OTHER -> <<Answer(m.id, "error")>>
Requested == /\ Lsp /\ Frame.frame = "message"
             /\ Frame.method \notin {"exit", "textDocument/didOpen", "textDocument/didChange",
                                     "textDocument/didSave"}
             /\ Reply(Frame, Answered(Frame))
             /\ UNCHANGED <<documents, published>>

-----------------------------------------------------------------------------
(* The MCP server: read_loop and handle_request.  A tool that raises, an   *)
(* unknown tool and a good call all answer with a result; ping, initialize *)
(* and tools/list answer a notification too, with the id null; a method    *)
(* that is no string ends the process when the chain reaches startswith(), *)
(* and so do params that have no get().                                    *)
Breaks(e) == e.method \in {"missing", "tools/call with a list of params"}
Named == {"initialize", "ping", "tools/list", "tools/call", "resources/list"}
Handle(e) == IF e.method = "not an object" THEN <<Answer(None, "error")>>
             ELSE IF e.method \in Named THEN <<Answer(e.id, "result")>>
             ELSE IF e.method = "notifications/cancelled" \/ e.id = None THEN <<>>
             ELSE <<Answer(e.id, "error")>>
(* Mutant: a batch is answered by its first entry alone.                   *)
ReadLineFirst ==
    /\ endpoint = "mcp" /\ serving /\ pipe # <<>> /\ Take
    /\ LET es == Frame.entries
       IN /\ serving' = ~\E i \in DOMAIN es : Breaks(es[i])
          /\ served' = served \o es
          /\ answers' = answers \o (IF es = <<>> THEN <<>> ELSE Handle(es[1]))
    /\ UNCHANGED <<documents, published>>
(* A batch is taken entry by entry and answered as it goes, on a line of   *)
(* its own each.                                                           *)
Entered(was, e) == [served |-> Append(was.served, e), answers |-> was.answers \o Handle(e)]
Taken(was, es) == LET now[k \in 0..Len(es)] == IF k = 0 THEN was ELSE Entered(now[k - 1], es[k])
                  IN now[Len(es)]
ReadLine ==
    /\ endpoint = "mcp" /\ serving /\ pipe # <<>> /\ Take
    /\ LET es == Frame.entries
           good == IF \E i \in DOMAIN es : Breaks(es[i])
                   THEN SubSeq(es, 1, SelectInSeq(es, Breaks) - 1) ELSE es
           now == Taken([served |-> served, answers |-> answers], good)
       IN /\ serving' = (good = es)
          /\ served' = now.served /\ answers' = now.answers
    /\ UNCHANGED <<documents, published>>

PNext == \/ \E u \in Uris, t \in Texts : Open(u, t) \/ Type(u, t)
         \/ \E u \in Uris : NoChange(u) \/ SaveFile(u) \/ CloseFile(u)
         \/ \E u \in Uris, m \in {"initialize", "initialized", "shutdown", "exit",
                                  "textDocument/codeAction"} : Request(m, u)
         \/ \E f \in {"corrupt", "not an object", "blank", "malformed"} : Speak(f)
         \/ Line \/ Ends \/ Ignored \/ Notified \/ Requested \/ ReadLine
PSpec == PInit /\ [][PNext]_pvars

-----------------------------------------------------------------------------
(* Once the pipe is empty, the server holds every open document as the     *)
(* editor shows it and its diagnostics are for that text, whatever mix of  *)
(* opening, typing, saving without text and reopening came before          *)
(* (lsp_server.py:158-183).                                                *)
EditorSeesItsText ==
    serving /\ pipe = <<>> =>
        \A u \in DOMAIN shown : published[u] = shown[u] /\ documents[u] = shown[u]

(* The n-th answer with an id is the answer to the n-th request owed one.  *)
Awaited(who, m) == /\ m.id # None
                /\ m.method # (IF who = "lsp" THEN "initialized" ELSE "notifications/cancelled")
Nr(places, i) == Cardinality({j \in places : j <= i})
InOrder(who, said, heard) ==
    LET own == {i \in DOMAIN said : said[i].id # None}
        owed == {i \in DOMAIN heard : Awaited(who, heard[i])}
    IN /\ Cardinality(own) = Cardinality(owed)
       /\ \A i \in own, k \in owed : Nr(own, i) = Nr(owed, k) => said[i].id = heard[k].id

(* Every request a handler took is answered once, in order, with its own   *)
(* id, in batches, after unknown methods and after tools that raise; only  *)
(* the language server's `initialized` and the cancellations of the other  *)
(* go without (lsp_server.py:231-251, mcp_server.py:153-239).              *)
AnsweredInOrder == InOrder(endpoint, answers, served)
=============================================================================
