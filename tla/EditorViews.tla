----------------------------- MODULE EditorViews -----------------------------
(***************************************************************************)
(* What the VS Code extension draws on and beside the text while the user  *)
(* edits: inline decorations, redrawn by one debounced timer for all       *)
(* editors (decorators.ts), and the symbol outline, rebuilt over an await  *)
(* on every refresh (treeviews.ts).                                        *)
(*                                                                         *)
(* The extension is one JavaScript thread: an event handler, a timer and   *)
(* the code after an await are one action each.  VS Code is external: it   *)
(* fires the events, and it asks a tree view for its children again when a *)
(* refresh comes while they are being made.  A document has one editor.    *)
(* Init, Next and the like have names of their own, so that this and       *)
(* VsCodeClient, the two halves of the extension, can be extended together.*)
(***************************************************************************)
EXTENDS Naturals

CONSTANTS
  Docs,
  None,
  MaxEdits,     \* bound: changes of a document
  MaxSwitches   \* bound: changes of the active editor, of its language, of the setting, server deaths

ASSUME ViewsAssumption ==
  /\ MaxEdits \in Nat /\ MaxSwitches \in Nat
  /\ None \notin Docs /\ None \notin 0..MaxEdits

VARIABLES
  text,       \* version of each document
  saved,      \* version that was saved last
  objc,       \* documents whose language is Objective-C
  visible,    \* documents in a visible editor
  active,     \* document of the active editor, None without one
  enabled,    \* the setting objc-lsp.enableDecorators
  timer,      \* updateTimer: the editor it will update, None if it is not set
  drawn,      \* version whose decorations an editor has, None for no decorations
  build,      \* buildOutline at its await: its document and the version asked about
  again,      \* a refresh came meanwhile
  outline,    \* what the outline shows: a document, versions of its symbols and marks
  serving,    \* a server runs, and its client provides document symbols
  switches,
  relabelled, \* history: documents whose language changed since the outline was asked for them
  unanswered, \* history: documents whose symbols were asked for last when no server answered
  displaced   \* history: editors whose update was cancelled for one that is not active

docs == <<text, saved, objc>>
window == <<visible, active, enabled>>
decorations == <<timer, drawn>>
tree == <<build, again, outline, serving, relabelled, unanswered>>
viewsVars == <<text, saved, objc, visible, active, enabled, timer, drawn, build, again,
               outline, serving, switches, relabelled, unanswered, displaced>>

Versions == 0..MaxEdits
Empty == [doc |-> None, symbols |-> None, marks |-> None]

ViewsTypeOK ==
  /\ text \in [Docs -> Versions] /\ saved \in [Docs -> Versions]
  /\ objc \subseteq Docs /\ visible \subseteq Docs
  /\ active \in visible \cup {None} /\ timer \in Docs \cup {None}
  /\ enabled \in BOOLEAN /\ again \in BOOLEAN /\ serving \in BOOLEAN
  /\ drawn \in [Docs -> Versions \cup {None}]
  /\ build = None \/ build \in [doc : Docs \cup {None}, symbols : Versions \cup {None}]
  /\ outline \in [doc : Docs \cup {None}, symbols : Versions \cup {None},
                  marks : Versions \cup {None}]
  /\ switches \in 0..MaxSwitches
  /\ displaced \subseteq Docs /\ relabelled \subseteq Docs /\ unanswered \subseteq Docs

-----------------------------------------------------------------------------
(* decorators.ts *)

\* updateDecorations. An editor that is gone draws nothing.
Update(d) ==
  drawn' = IF d \in visible /\ ~enabled' THEN [drawn EXCEPT ![d] = None]
           ELSE IF d \in visible /\ d \in objc THEN [drawn EXCEPT ![d] = text[d]]
           ELSE drawn

\* scheduleUpdate: the timer of whatever editor was waiting is cleared.
Schedule(d) ==
  /\ timer' = d
  /\ displaced' = IF timer # None /\ timer # d /\ timer = active' THEN displaced \cup {timer}
                  ELSE displaced \ {d}

TimerFires ==
  /\ timer # None
  /\ timer' = None
  /\ enabled' = enabled
  /\ Update(timer)
  /\ UNCHANGED <<docs, visible, active, tree, switches, displaced>>

-----------------------------------------------------------------------------
(* treeviews.ts *)

\* buildOutline up to its await. The request follows the changes made before it, and finds no
\* provider of symbols while no server runs.
BuildOutline ==
  /\ build' = IF active' \in objc
              THEN [doc |-> active', symbols |-> IF serving THEN text[active'] ELSE None]
              ELSE [doc |-> None, symbols |-> None]
  /\ relabelled' = relabelled \ {active'}
  /\ unanswered' = IF active' \in objc /\ ~serving THEN unanswered \cup {active'}
                   ELSE unanswered \ {active'}

\* VS Code answers refresh by asking for the children, now or when those under way have come.
Refresh ==
  /\ IF build = None THEN BuildOutline /\ UNCHANGED again
     ELSE again' = TRUE /\ UNCHANGED <<build, relabelled, unanswered>>
  /\ UNCHANGED <<outline, serving>>

\* The answer is about the version asked about or a newer one, or there is none: `symbols || []`.
\* The marks are parsed now, of the document the symbols were asked for.
OutlineBuilt ==
  /\ build # None
  /\ IF build.doc = None THEN outline' = Empty
     ELSE \E v \in IF build.symbols = None THEN {None} ELSE build.symbols..text[build.doc] :
            outline' = [doc |-> build.doc, symbols |-> v, marks |-> text[build.doc]]
  /\ again' = FALSE
  /\ active' = active
  /\ IF again THEN BuildOutline ELSE build' = None /\ UNCHANGED <<relabelled, unanswered>>
  /\ UNCHANGED <<docs, visible, enabled, decorations, serving, switches, displaced>>

\* startClient has resolved, at activation or for a restart. Nobody refreshes the outline.
ServerStarts ==
  /\ ~serving
  /\ serving' = TRUE
  /\ UNCHANGED <<docs, window, decorations, build, again, outline, switches, relabelled,
                 unanswered, displaced>>

-----------------------------------------------------------------------------
(* The user *)

Counted == switches < MaxSwitches /\ switches' = switches + 1

\* activate registers the views (extension.ts:61) before it starts the client (86-89): VS Code
\* has the outline built while no server runs.
ViewsInit ==
  /\ text = [d \in Docs |-> 0] /\ saved = [d \in Docs |-> 0]
  /\ objc \in SUBSET Docs
  /\ visible \in SUBSET Docs
  /\ active \in visible \cup {None}
  /\ enabled \in BOOLEAN
  /\ timer = active
  /\ drawn = [d \in Docs |-> None]
  /\ build = [doc |-> IF active \in objc THEN active ELSE None, symbols |-> None]
  /\ again = FALSE /\ outline = Empty /\ serving = FALSE
  /\ switches = 0 /\ displaced = {} /\ relabelled = {} /\ unanswered = {active} \cap objc

\* Mutant of Edit: the update is scheduled only for a document without decorations.
EditOnce(d) ==
  /\ text[d] < MaxEdits
  /\ text' = [text EXCEPT ![d] = @ + 1]
  /\ active' = active
  /\ IF d = active /\ drawn[d] = None THEN Schedule(d) ELSE UNCHANGED <<timer, displaced>>
  /\ UNCHANGED <<saved, objc, visible, enabled, drawn, tree, switches>>

\* The user types, or an edit of the workspace changes a document in the background.
Edit(d) ==
  /\ text[d] < MaxEdits
  /\ text' = [text EXCEPT ![d] = @ + 1]
  /\ active' = active
  /\ IF d = active THEN Schedule(d) ELSE UNCHANGED <<timer, displaced>>
  /\ UNCHANGED <<saved, objc, visible, enabled, drawn, tree, switches>>

\* Mutant of Save: the outline is refreshed when the active document is saved.
SaveOfActive(d) ==
  /\ saved[d] # text[d]
  /\ saved' = [saved EXCEPT ![d] = text[d]]
  /\ active' = active
  /\ IF d = active /\ build = None THEN Refresh ELSE UNCHANGED tree
  /\ UNCHANGED <<text, objc, visible, enabled, decorations, switches, displaced>>

Save(d) ==
  /\ saved[d] # text[d]
  /\ saved' = [saved EXCEPT ![d] = text[d]]
  /\ active' = active
  /\ Refresh
  /\ UNCHANGED <<text, objc, visible, enabled, decorations, switches, displaced>>

\* Another editor becomes active, in the place of the active one or beside it.
ActivateEditor(d) ==
  /\ Counted
  /\ d # active
  /\ \E hidden \in SUBSET (visible \ {d}) :
       /\ visible' = (visible \ hidden) \cup {d}
       /\ drawn' = [e \in Docs |-> IF e \in visible' THEN drawn[e] ELSE None]
  /\ active' = d
  /\ Schedule(d)
  /\ Refresh
  /\ UNCHANGED <<docs, enabled>>

\* The last editor closes, or another kind of tab is shown: the timer runs on.
NoEditor ==
  /\ Counted
  /\ active # None
  /\ active' = None
  /\ visible' = visible \ {active}
  /\ drawn' = [drawn EXCEPT ![active] = None]
  /\ Refresh
  /\ UNCHANGED <<docs, enabled, timer, displaced>>

\* A change of language closes the document and opens it again in its editor.
ChangeLanguage(d) ==
  /\ Counted
  /\ objc' = IF d \in objc THEN objc \ {d} ELSE objc \cup {d}
  /\ active' = active
  /\ IF d \in visible THEN Schedule(d) ELSE UNCHANGED <<timer, displaced>>
  /\ relabelled' = relabelled \cup {d}
  /\ UNCHANGED <<text, saved, visible, enabled, drawn, build, again, outline, serving, unanswered>>

\* The setting is changed; only the active editor is redrawn.
ToggleDecorators ==
  /\ Counted
  /\ enabled' = ~enabled
  /\ IF active # None THEN Update(active) ELSE UNCHANGED drawn
  /\ UNCHANGED <<docs, visible, active, timer, tree, displaced>>

\* The server dies or is stopped for a restart: what was asked of it is answered with nothing.
ServerGone ==
  /\ Counted
  /\ serving
  /\ serving' = FALSE
  /\ IF build # None /\ build.doc # None
     THEN /\ build' = [build EXCEPT !.symbols = None]
          /\ unanswered' = unanswered \cup {build.doc}
     ELSE UNCHANGED <<build, unanswered>>
  /\ UNCHANGED <<docs, window, decorations, again, outline, relabelled, displaced>>

User ==
  \/ \E d \in Docs : Edit(d) \/ Save(d) \/ ActivateEditor(d) \/ ChangeLanguage(d)
  \/ NoEditor \/ ToggleDecorators

ViewsNext == User \/ TimerFires \/ OutlineBuilt \/ ServerStarts \/ ServerGone

ViewsSpec == ViewsInit /\ [][ViewsNext]_viewsVars

\* A timer that is set fires, and a request for symbols is answered or fails.
ViewsFairSpec == ViewsSpec /\ WF_viewsVars(TimerFires) /\ WF_viewsVars(OutlineBuilt)

-----------------------------------------------------------------------------
(* Properties *)

\* The active editor has the decorations of its text, or the one timer is set for it: no edit, no
\* change of editor and none of the setting loses its update ("Apply on document edit
\* (debounced)", decorators.ts:343). The exception: opening a document in another visible editor
\* (here: changing its language) takes the timer away from the active one.
NoUpdateLost ==
  LET current == IF enabled THEN text[active] ELSE None
  IN  active \in objc \ displaced => drawn[active] = current \/ timer = active

\* When the user pauses, the outline comes to be about the active document, with its marks as they
\* were saved last or newer ("Refresh when active editor changes", "Refresh on document save",
\* treeviews.ts:387, 393), whatever came during an await; and with its symbols, of a version
\* between those two, unless no server answered when it was asked for them last. A document that
\* has become Objective-C waits for the next refresh.
OutlineSettles ==
  <>[](/\ build = None
       /\ active \in objc \ relabelled =>
            /\ outline.doc = active /\ outline.marks >= saved[active]
            /\ IF outline.symbols = None THEN active \in unanswered
               ELSE outline.symbols >= saved[active] /\ outline.marks >= outline.symbols)

\* "Symbols Outline: Symbol tree for the current file" (editors/vscode/README.md:75): when the user
\* pauses while a server runs, the outline of an Objective-C file comes to have its symbols.
\* Not kept: EditorViewsNoServer.cfg has the counterexample.
OutlineHasSymbols ==
  <>[](serving /\ active \in objc \ relabelled => outline.doc = active /\ outline.symbols # None)

\* "Apply on document edit (debounced)" (decorators.ts:343): no later event drops the update of an
\* editor that stays visible with the decorations of an older text.
\* Not kept: EditorViewsSwitch.cfg has the counterexample.
UpdatesAreApplied ==
  [][timer # None /\ timer' # timer /\ timer \in visible' \cap objc' /\ enabled'
     /\ drawn[timer] # None
       => drawn'[timer] = text[timer]]_viewsVars
=============================================================================
