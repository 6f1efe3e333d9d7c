----------------------------- MODULE LspServer -----------------------------
(***************************************************************************)
(* The server process, objc-lsp/src/server.rs, between the editor that     *)
(* talks to it and the files on disk.                                      *)
(*                                                                         *)
(* The server is one thread: it takes a message from the channel, runs its *)
(* handler to the end and takes the next.  A handler is therefore one      *)
(* action, and what can interleave is everything around it: the editor     *)
(* goes on typing, saving, asking and closing while messages are under     *)
(* way, and a handler reads the disk as it is when it runs, not as it was  *)
(* when the message was sent.  The content of a file is a version number;  *)
(* 0 is what is on disk at the start.                                      *)
(*                                                                         *)
(* The editor's side (vscode-languageclient and the editor) is external:   *)
(* full-text synchronisation, one didOpen per open document, a new process *)
(* and a didOpen for every open document after a crash.                    *)
(***************************************************************************)
EXTENDS Naturals, Sequences, FiniteSets, SequencesExt

CONSTANTS
  Files,        \* documents, one URI and one path each
  None,
  Methods,      \* the requests the editor sends
  Faults,       \* what may go wrong: "parse", "index", "kill", "badParams"
  Options,      \* initializationOptions: None, or [nullability, analyzer], either None
  MaxVersion,   \* bound: edits of a file
  MaxId,        \* bound: requests
  MaxQueue,     \* bound: messages under way to the server
  MaxReplies,   \* bound: messages under way to the editor
  MaxRestarts   \* bound: crashes the editor recovers from

Versions == 0..MaxVersion
Ids == 1..MaxId

\* Answered from the text of the open document (tree-sitter, clang-format).
BufferMethods == {"documentSymbol", "semanticTokens", "foldingRange", "formatting"}
\* Answered from the translation unit.
AstMethods == {"hover", "definition", "references", "rename"}
\* From both: the translation unit, and the text of the document (completion hands it to libclang
\* as an unsaved file).
BothMethods == {"completion", "codeAction"}
StoreMethods == {"workspaceSymbol"}
\* Known to the editor, unknown to handle_request.
OtherMethods == {"prepareRename"}

ASSUME LspAssumption ==
  /\ IsFiniteSet(Files)
  /\ None \notin Nat
  /\ MaxVersion \in Nat /\ MaxId \in Nat /\ MaxQueue \in Nat /\ MaxReplies \in Nat /\ MaxRestarts \in Nat
  /\ Options = None \/ Options \in [nullability : BOOLEAN \cup {None},
                                  analyzer : BOOLEAN \cup {None}]
  /\ Methods \subseteq BufferMethods \cup AstMethods \cup BothMethods
                         \cup StoreMethods \cup OtherMethods

VARIABLES
  \* the editor and the disk
  buffer,     \* text of each open document, None when closed
  disk,       \* text of each file on disk
  edited,     \* newest version of each file
  shown,      \* diagnostics the editor shows for each file
  asked,      \* requests sent, in order, with the buffers of that moment
  answers,    \* responses received, in order
  editor,     \* "up", "stopping" (shutdown sent) or "left"
  \* the channels
  toServer, toEditor,
  \* the server
  documents,  \* Server.documents
  tu,         \* disk version in the cached translation unit
  store,      \* version whose symbols the store has
  server,     \* "running", "closing" (in handle_shutdown), "stopped", "failed", "dead"
  restarts

editorVars == <<buffer, disk, edited, shown, asked, answers, editor>>
serverVars == <<documents, tu, store>>
vars == <<editorVars, toServer, toEditor, serverVars, server, restarts>>

-----------------------------------------------------------------------------
(* Types *)

MaybeVersion == Versions \cup {None}

\* compile: disk version the compiler's diagnostics are about; analysis: the same for
\* the static analyzer; nullability: the text that was checked.  None: did not run.
Diagnostics == [compile : MaybeVersion, analysis : MaybeVersion, nullability : MaybeVersion]
NoDiagnostics == [compile |-> None, analysis |-> None, nullability |-> None]

\* No list of diagnostics at all is not a list, not even an empty one.
ASSUME NoneAssumption == None \notin Diagnostics

\* What an answer was computed from.
Answer == [doc : MaybeVersion, tu : MaybeVersion, syms : [Files -> MaybeVersion] \cup {None}]
Null == [doc |-> None, tu |-> None, syms |-> None]

ToServer ==
  [type : {"didOpen", "didChange"}, file : Files, text : Versions]
    \cup [type : {"didSave", "didClose"}, file : Files]
    \cup [type : {"request"}, id : Ids, method : Methods, file : Files, ok : BOOLEAN]
    \cup [type : {"shutdown", "exit"}]

ToEditor ==
  [type : {"response"}, id : Ids, answer : Answer]
    \cup [type : {"publishDiagnostics"}, file : Files, diagnostics : Diagnostics]
    \cup [type : {"shutdownResponse"}]

TypeOK ==
  /\ buffer \in [Files -> MaybeVersion]
  /\ disk \in [Files -> Versions]
  /\ edited \in [Files -> Versions]
  /\ shown \in [Files -> Diagnostics \cup {None}]
  /\ asked \in Seq([method : Methods, file : Files, ok : BOOLEAN, epoch : 0..MaxRestarts,
                     buffer : [Files -> MaybeVersion]])
  /\ answers \in Seq([id : Ids, answer : Answer])
  /\ editor \in {"up", "stopping", "left"}
  /\ toServer \in Seq(ToServer)
  /\ toEditor \in Seq(ToEditor)
  /\ documents \in [Files -> MaybeVersion]
  /\ tu \in [Files -> MaybeVersion]
  /\ store \in [Files -> MaybeVersion]
  /\ server \in {"running", "closing", "stopped", "failed", "dead"}
  /\ restarts \in 0..MaxRestarts

Init ==
  /\ buffer = [f \in Files |-> None]
  /\ disk = [f \in Files |-> 0]
  /\ edited = [f \in Files |-> 0]
  /\ shown = [f \in Files |-> None]
  /\ asked = << >>
  /\ answers = << >>
  /\ editor = "up"
  /\ toServer = << >>
  /\ toEditor = << >>
  /\ documents = [f \in Files |-> None]
  /\ tu = [f \in Files |-> None]
  /\ store = [f \in Files |-> None]
  /\ server = "running"
  /\ restarts = 0

-----------------------------------------------------------------------------
(* The editor (external) *)

\* A message to a dead server is lost; the editor opens everything again on restart.
Tell(m) ==
  IF server = "dead"
    THEN toServer' = toServer
    ELSE Len(toServer) < MaxQueue /\ toServer' = Append(toServer, m)

Open(f) ==
  /\ editor = "up" /\ buffer[f] = None
  /\ buffer' = [buffer EXCEPT ![f] = disk[f]]
  /\ Tell([type |-> "didOpen", file |-> f, text |-> disk[f]])
  /\ UNCHANGED <<disk, edited, shown, asked, answers, editor, toEditor, serverVars, server, restarts>>

Edit(f) ==
  /\ editor = "up" /\ buffer[f] # None /\ edited[f] < MaxVersion
  /\ edited' = [edited EXCEPT ![f] = @ + 1]
  /\ buffer' = [buffer EXCEPT ![f] = edited[f] + 1]
  /\ Tell([type |-> "didChange", file |-> f, text |-> edited[f] + 1])
  /\ UNCHANGED <<disk, shown, asked, answers, editor, toEditor, serverVars, server, restarts>>

\* The capabilities ask for didSave (save: Supported(true)).
Save(f) ==
  /\ editor = "up" /\ buffer[f] \notin {None, disk[f]}
  /\ disk' = [disk EXCEPT ![f] = buffer[f]]
  /\ Tell([type |-> "didSave", file |-> f])
  /\ UNCHANGED <<buffer, edited, shown, asked, answers, editor, toEditor, serverVars, server, restarts>>

Close(f) ==
  /\ editor = "up" /\ buffer[f] # None
  /\ buffer' = [buffer EXCEPT ![f] = None]
  /\ Tell([type |-> "didClose", file |-> f])
  /\ UNCHANGED <<disk, edited, shown, asked, answers, editor, toEditor, serverVars, server, restarts>>

\* ok: the parameters deserialize.
Ask(m, f, ok) ==
  /\ editor = "up" /\ server = "running" /\ buffer[f] # None /\ Len(asked) < MaxId
  /\ asked' = Append(asked, [method |-> m, file |-> f, ok |-> ok, epoch |-> restarts,
                             buffer |-> buffer])
  /\ Tell([type |-> "request", id |-> Len(asked) + 1, method |-> m, file |-> f, ok |-> ok])
  /\ UNCHANGED <<buffer, disk, edited, shown, answers, editor, toEditor, serverVars, server, restarts>>

Shutdown ==
  /\ editor = "up" /\ server = "running"
  /\ editor' = "stopping"
  /\ Tell([type |-> "shutdown"])
  /\ UNCHANGED <<buffer, disk, edited, shown, asked, answers, toEditor, serverVars, server, restarts>>

\* The editor is killed: the server's stdin ends after what was already written.
Vanish ==
  /\ editor # "left"
  /\ editor' = "left"
  /\ UNCHANGED <<buffer, disk, edited, shown, asked, answers, toServer, toEditor, serverVars, server, restarts>>

Receive ==
  /\ editor # "left" /\ toEditor # << >>
  /\ toEditor' = Tail(toEditor)
  /\ LET m == Head(toEditor) IN
       \/ /\ m.type = "response"
          /\ answers' = Append(answers, [id |-> m.id, answer |-> m.answer])
          /\ UNCHANGED <<shown, editor, toServer>>
       \/ /\ m.type = "publishDiagnostics"
          /\ shown' = [shown EXCEPT ![m.file] = m.diagnostics]
          /\ UNCHANGED <<answers, editor, toServer>>
       \/ /\ m.type = "shutdownResponse"
          /\ editor' = "left"
          /\ Tell([type |-> "exit"])
          /\ UNCHANGED <<answers, shown>>
  /\ UNCHANGED <<buffer, disk, edited, asked, serverVars, server, restarts>>

\* A new process, and one didOpen for every open document.
Restart ==
  /\ editor = "up" /\ server = "dead" /\ restarts < MaxRestarts
  /\ restarts' = restarts + 1
  /\ server' = "running"
  /\ documents' = [f \in Files |-> None]
  /\ tu' = [f \in Files |-> None]
  /\ store' = [f \in Files |-> None]
  /\ toEditor' = << >>
  /\ LET open == SetToSeq({f \in Files : buffer[f] # None})
     IN toServer' = [i \in DOMAIN open |->
                       [type |-> "didOpen", file |-> open[i], text |-> buffer[open[i]]]]
  /\ UNCHANGED editorVars

EditorNext ==
  \/ \E f \in Files : Open(f) \/ Edit(f) \/ Save(f) \/ Close(f)
  \/ \E m \in Methods, f \in Files, ok \in {TRUE} \cup {"badParams" \notin Faults} : Ask(m, f, ok)
  \/ Shutdown \/ Vanish \/ Receive \/ Restart

-----------------------------------------------------------------------------
(* Configuration *)

\* InitOptions: a missing or unreadable object gives the derived Default, all FALSE; a
\* field missing from a readable one gives the serde default of that field.
EnableNullability ==
  Options # None /\ (IF Options.nullability = None THEN TRUE ELSE Options.nullability)

EnableAnalyzer ==
  Options # None /\ (IF Options.analyzer = None THEN FALSE ELSE Options.analyzer)

-----------------------------------------------------------------------------
(* The server *)

Take(type) ==
  /\ server = "running"
  /\ toServer # << >> /\ Head(toServer).type = type
  /\ toServer' = Tail(toServer)

\* The channel to the writer thread has no buffer, so the server waits while the
\* editor does not read; when the editor is gone the send fails.
Send(m) ==
  IF editor = "left"
    THEN toEditor' = toEditor
    ELSE Len(toEditor) < MaxReplies /\ toEditor' = Append(toEditor, m)

\* index_content: the symbols of the text replace those of the file; an error is logged.
IndexContent(f, text) ==
  \/ store' = [store EXCEPT ![f] = text]
  \/ "index" \in Faults /\ store' = store

\* Diagnostics of a TU; a recovered crash while they are read counts as none.
Harvest(version) == {version} \cup (IF "visit" \in Faults THEN {None} ELSE {})

\* Mutant of PublishDiagnostics: nullability is checked in the file on disk.
PublishDiskDiagnostics(f, text) ==
  /\ tu' = [tu EXCEPT ![f] = disk[f]]
  /\ server' = server
  /\ Send([type |-> "publishDiagnostics", file |-> f,
           diagnostics |-> [compile |-> disk[f], analysis |-> None, nullability |-> disk[f]]])

\* publish_diagnostics: re-parse the file as it is on disk now; on failure the old TU
\* stays and an empty list is published.  The TU a new one displaces is disposed outside the
\* crash guard, before anything is sent.
PublishDiagnostics(f, text) ==
  \/ /\ tu' = [tu EXCEPT ![f] = disk[f]]
     /\ server' = server
     /\ \E c \in Harvest(disk[f]), a \in IF EnableAnalyzer THEN Harvest(disk[f]) ELSE {None} :
          Send([type |-> "publishDiagnostics", file |-> f,
                diagnostics |-> [compile |-> c, analysis |-> a,
                                 nullability |-> IF EnableNullability THEN text ELSE None]])
  \/ /\ "parse" \in Faults
     /\ tu' = tu
     /\ server' = server
     /\ Send([type |-> "publishDiagnostics", file |-> f, diagnostics |-> NoDiagnostics])
  \/ /\ "kill" \in Faults /\ tu[f] # None
     /\ tu' = [tu EXCEPT ![f] = disk[f]]
     /\ server' = "dead"
     /\ toEditor' = toEditor

\* Mutant of DidOpen: only a change is indexed.
DidOpenUnindexed ==
  /\ Take("didOpen")
  /\ LET m == Head(toServer) IN
       /\ documents' = [documents EXCEPT ![m.file] = m.text]
       /\ PublishDiagnostics(m.file, m.text)
  /\ UNCHANGED <<editorVars, store, restarts>>

DidOpen ==
  /\ Take("didOpen")
  /\ LET m == Head(toServer) IN
       /\ documents' = [documents EXCEPT ![m.file] = m.text]
       /\ IndexContent(m.file, m.text)
       /\ PublishDiagnostics(m.file, m.text)
  /\ UNCHANGED <<editorVars, restarts>>

DidChange ==
  /\ Take("didChange")
  /\ LET m == Head(toServer) IN
       /\ documents' = IF documents[m.file] = None THEN documents
                         ELSE [documents EXCEPT ![m.file] = m.text]
       /\ IndexContent(m.file, m.text)
       /\ PublishDiagnostics(m.file, m.text)
  /\ UNCHANGED <<editorVars, restarts>>

\* Mutants of DidClose: the translation unit stays; the document stays.
DidCloseKeepsTu ==
  /\ Take("didClose")
  /\ documents' = [documents EXCEPT ![Head(toServer).file] = None]
  /\ UNCHANGED <<editorVars, toEditor, tu, store, server, restarts>>

DidCloseKeepsText ==
  /\ Take("didClose")
  /\ tu' = [tu EXCEPT ![Head(toServer).file] = None]
  /\ UNCHANGED <<editorVars, toEditor, documents, store, server, restarts>>

\* The published diagnostics and the symbols of the file stay.  Disposing the TU runs
\* outside the crash guard.
DidClose ==
  /\ Take("didClose")
  /\ LET f == Head(toServer).file IN
       /\ documents' = [documents EXCEPT ![f] = None]
       /\ tu' = [tu EXCEPT ![f] = None]
       /\ server' \in {"running"} \cup
            (IF "kill" \in Faults /\ tu[f] # None THEN {"dead"} ELSE {})
  /\ UNCHANGED <<editorVars, toEditor, store, restarts>>

\* handle_notification ignores every other notification.
IgnoreNotification ==
  /\ Take("didSave")
  /\ UNCHANGED <<editorVars, toEditor, serverVars, server, restarts>>

\* Mutant of AnswerTo: clang-format is given the path and not the text.
AnswerFromDisk(method, f) ==
  CASE method \in BufferMethods -> [Null EXCEPT !.doc = disk[f]]
    [] method \in StoreMethods  -> [Null EXCEPT !.syms = store]
    [] OTHER                    -> Null

\* What the handler of a method puts in its response.
AnswerTo(method, f) ==
  CASE method \in BufferMethods -> [Null EXCEPT !.doc = documents[f]]
    [] method \in AstMethods    -> [Null EXCEPT !.tu = tu[f]]
    [] method \in BothMethods   -> [Null EXCEPT !.doc = documents[f], !.tu = tu[f]]
    [] method \in StoreMethods  -> [Null EXCEPT !.syms = store]
    [] OTHER                    -> Null

\* Mutants of HandleRequest: the response carries a number of the server's own; a thread
\* pool handles whichever request is ready.
HandleRequestRenumbered ==
  /\ Take("request")
  /\ LET m == Head(toServer) IN
       /\ m.ok
       /\ Send([type |-> "response", id |-> m.id + 1, answer |-> AnswerTo(m.method, m.file)])
  /\ UNCHANGED <<editorVars, serverVars, server, restarts>>

HandleAnyRequest ==
  /\ server = "running"
  /\ \E i \in DOMAIN toServer :
       LET m == toServer[i] IN
         /\ m.type = "request" /\ m.ok
         /\ toServer' = RemoveAt(toServer, i)
         /\ Send([type |-> "response", id |-> m.id, answer |-> AnswerTo(m.method, m.file)])
  /\ UNCHANGED <<editorVars, serverVars, server, restarts>>

\* handle_request: one response per request.
HandleRequest ==
  /\ Take("request")
  /\ LET m == Head(toServer) IN
       /\ m.ok
       /\ Send([type |-> "response", id |-> m.id, answer |-> AnswerTo(m.method, m.file)])
  /\ UNCHANGED <<editorVars, serverVars, server, restarts>>

\* Mutant of RejectRequest: a missing translation unit is an error like bad parameters.
RejectWithoutTu ==
  /\ Take("request")
  /\ LET m == Head(toServer) IN ~m.ok \/ tu[m.file] = None
  /\ UNCHANGED <<editorVars, toEditor, serverVars, server, restarts>>

\* The handler returns early with an error, which the loop logs; nothing is sent.
RejectRequest ==
  /\ Take("request")
  /\ ~Head(toServer).ok
  /\ UNCHANGED <<editorVars, toEditor, serverVars, server, restarts>>

\* A libclang crash in a handler that visits the AST outside the crash guard.
CrashInRequest ==
  /\ Take("request")
  /\ "kill" \in Faults
  /\ LET m == Head(toServer) IN m.ok /\ m.method = "codeAction" /\ tu[m.file] # None
  /\ server' = "dead"
  /\ UNCHANGED <<editorVars, toEditor, serverVars, restarts>>

\* handle_shutdown (lsp-server): respond, then wait for `exit` and nothing else.
HandleShutdown ==
  /\ Take("shutdown")
  /\ Send([type |-> "shutdownResponse"])
  /\ server' = "closing"
  /\ UNCHANGED <<editorVars, serverVars, restarts>>

\* `exit` arrives; or something else does, or the stream ends, or 30 seconds pass.
FinishShutdown ==
  /\ server = "closing"
  /\ \/ /\ toServer # << >>
        /\ server' = IF Head(toServer).type = "exit" THEN "stopped" ELSE "failed"
        /\ toServer' = Tail(toServer)
     \/ /\ toServer = << >>
        /\ "timeout" \in Faults \/ editor = "left"
        /\ server' = "failed"
        /\ UNCHANGED toServer
  /\ UNCHANGED <<editorVars, toEditor, serverVars, restarts>>

\* Mutant of Disconnected: the error of recv is logged like any other.
DisconnectedIgnored ==
  /\ server = "running" /\ editor = "left" /\ toServer = << >>
  /\ UNCHANGED vars

\* recv fails once the stream has ended and everything before is handled.
Disconnected ==
  /\ server = "running" /\ editor = "left" /\ toServer = << >>
  /\ server' = "failed"
  /\ UNCHANGED <<editorVars, toServer, toEditor, serverVars, restarts>>

ServerNext ==
  \/ DidOpen \/ DidChange \/ DidClose \/ IgnoreNotification
  \/ HandleRequest \/ RejectRequest \/ CrashInRequest
  \/ HandleShutdown \/ FinishShutdown \/ Disconnected

-----------------------------------------------------------------------------
(* Specification *)

Next == EditorNext \/ ServerNext

Spec == Init /\ [][Next]_vars

\* The message loop runs whenever there is something to do, the editor reads its channel.
FairSpec == Spec /\ WF_vars(ServerNext) /\ WF_vars(Receive) /\ WF_vars(Restart)

-----------------------------------------------------------------------------
(* Properties *)

\* Handling this message changes what the server knows of f, to this text.
Syncs(m, f) == m.type \in {"didOpen", "didChange", "didClose"} /\ m.file = f
TextAfter(m) == IF m.type = "didClose" THEN None ELSE m.text

\* A server with these documents has this text of f once it has handled the first n
\* messages of the queue.
HasText(docs, queue, f, n, text) ==
  /\ (\A i \in 1..n : ~Syncs(queue[i], f)) => docs[f] = text
  /\ \A i \in 1..n :
       Syncs(queue[i], f) /\ (\A j \in (i + 1)..n : ~Syncs(queue[j], f)) => TextAfter(queue[i]) = text

\* on_did_open, on_did_change, on_did_close: the server's copy of every document is the
\* editor's, late by exactly the messages under way, also across a crash and restart.
DocumentsFollowBuffers ==
  server = "running" =>
    \A f \in Files : HasText(documents, toServer, f, Len(toServer), buffer[f])

\* An answer computed from a document is computed from the text the editor had when it
\* asked, an answer from the store has seen that text too, and an answer from a TU is
\* given only for a file open at the time.
AnswersAreCurrent ==
  \A i \in DOMAIN answers :
    LET a == answers[i].answer
        q == asked[answers[i].id]
    IN /\ q.method \in BufferMethods \cup BothMethods => a.doc = q.buffer[q.file]
       /\ q.method \in StoreMethods /\ "index" \notin Faults =>
            \A f \in Files : q.buffer[f] # None => a.syms[f] = q.buffer[f]
       /\ a.tu # None => q.buffer[q.file] # None

\* Responses come back in the order of the requests, never two for one request.
AnswersInOrder ==
  \A i, j \in DOMAIN answers : i < j => answers[i].id < answers[j].id

\* A translation unit is kept only for a document that is open (on_did_close disposes).
TuOnlyForOpen ==
  \A f \in Files : tu[f] # None => documents[f] # None

\* The store has the symbols of the text of every open document.
StoreFollowsDocuments ==
  "index" \notin Faults => \A f \in Files : documents[f] # None => store[f] = documents[f]

\* Nothing under way in either direction.
AtRest == toServer = << >> /\ toEditor = << >> /\ server = "running" /\ editor = "up"

\* At rest, the nullability warnings shown for an open file are about its text; the
\* compiler's are about the very TU that hover and completion use.
ShownIsCurrent ==
  AtRest => \A f \in Files : buffer[f] # None =>
    /\ shown[f] # None
    /\ shown[f].nullability \in {buffer[f], None}
    /\ shown[f].compile \in {tu[f], None}
    /\ EnableNullability /\ "parse" \notin Faults => shown[f].nullability = buffer[f]

\* Every request is answered unless the server it was sent to is gone.
Pending(i) == i \in DOMAIN asked /\ asked[i].ok /\ \A j \in DOMAIN answers : answers[j].id # i
ServerOf(i) == server \in {"running", "closing"} /\ editor # "left" /\ asked[i].epoch = restarts

EveryRequestAnswered ==
  \A i \in Ids : (Pending(i) /\ ServerOf(i)) ~> ~(Pending(i) /\ ServerOf(i))

\* No server outlives its editor.
ServerEnds == (editor = "left") ~> (server \notin {"running", "closing"})

\* "Real-time compiler errors and warnings" (editors/vscode/README.md:12): at rest, the compiler's
\* errors shown for an open file are about the text in the editor.
\* Not kept: LspServerUnsaved.cfg has the counterexample.
ErrorsAreRealTime ==
  AtRest => \A f \in Files : buffer[f] # None =>
    shown[f] # None /\ shown[f].compile \in {buffer[f], None}
=============================================================================
