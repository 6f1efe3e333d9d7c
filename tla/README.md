# Verification of Objective-C-LSP

TLA+ models, TLC runs and TLAPS proofs for the language server in `src/`.

## 1. The system

The repository is a language server for Objective-C in Rust (`crates/`), a VS Code client in
TypeScript (`editors/vscode`) and a Zed extension (`editors/zed`). One server process runs per
editor window. Its main thread takes messages from a channel one at a time and runs the handler
of each to the end (`crates/objc-lsp/src/server.rs`, `run`), so inside the process nothing
interleaves; what does interleave is the editor, the disk, libclang's crashes, SQLite's
statements and, in the client, everything around an `await`.

### Inventory

| Component | State | Operations | Interacts with | What is hard | What makes it correct |
| --- | --- | --- | --- | --- | --- |
| message loop, `objc-lsp` (`server.rs`, `main.rs`, `capabilities.rs`) | open documents, options, parser | one handler per request or notification; shutdown, exit, disconnection | editor (two channels), all crates below | messages under way while the editor goes on; a handler reads the disk and not the buffer; crash and restart; malformed requests; editor that dies | the server's copy of a document follows the editor's; answers are about the text they were asked about; in order; every request answered; no orphan server |
| libclang index, `objc-semantic` (`index.rs` and one file per query) | `units`: path to translation unit, behind a mutex | parse, dispose, 15 kinds of query, drop | server, libclang (raw pointers), crash guard | pointers copied out of the mutex; a map insert that hands back a pointer; queries in and out of the guard; the lock over libclang calls | no use after dispose, no leak, lock scoped, every call returns |
| crash guard (`crash_guard.rs`) | armed flag, jump buffer, signal mask (thread local) | arm, disarm, handler, longjmp | every libclang call | longjmp skips destructors; a second crash after a first | a guarded crash is an error and never the end of the process |
| symbol store, `objc-store` | SQLite tables files and symbols | index a file, find, search | server | statements in autocommit mode; failures between them; row numbers reused | a call replaces the symbols of its file in one transaction, references hold, other files untouched |
| text features: `objc-syntax` (`folding.rs`, `symbols.rs`, `tokens.rs`, `inlay_hints.rs`), `objc-intelligence` (`nullability.rs`, `selector.rs`, `code_actions.rs`) | none | functions of the text | server, tree-sitter | two scanners of the same macros; two extractors of the same outline; aggregation | each agrees with its definition and with the other |
| project settings, `objc-project` (`compile_db.rs`, `sdk.rs`) | flags; links and files in the temporary directory | find and split compile commands, link the headers of pods, write prefix headers | server, compiler, other server processes | one file shared by all workspaces, written in place; links kept wherever they lead | a workspace parses with its own prefix header, and its imports reach headers of the pod they name |
| symbol queries, `objc-semantic` (`goto_def.rs`, `hover.rs`) | none | goto definition, goto declaration, hover | libclang's AST and annotated tokens | five strategies in a row, each of which may answer too early, too late or for the neighbour | what the file knows is found; the message the click is in |
| formatting (`formatting.rs`) | none | run clang-format, make edits | server, clang-format process | what is on stdin, what comes back | the edit replaces exactly the document |
| VS Code client life cycle (`extension.ts`, `server.ts`, `config.ts`, `install.ts`) | `client`, status bar, formatter | start, stop, restart, settings prompt | vscode-languageclient, server | two commands around one `await`; start that fails; stop that times out | one server; fresh settings; truthful status bar; no restart that hangs |
| call graph (`callgraph.ts`, and `call_hierarchy.rs` in the server) | map of nodes, set of links, requests under way | prepare, collect callers and callees to a depth of two, draw | client, server's index | a dozen answers in any order extend one map; functions that call each other in a circle; units that come and go meanwhile | what is drawn belongs to the symbol asked about, is all of its neighbourhood, and is drawn at all |
| sidebar (`treeviews.ts`) | outline and class browser | group the outline by marks, refresh, list the workspace's classes | server's outline, editor | a second definition of a section beside the server's; a text that changes during the await | nothing lost or doubled; a symbol under its own section |
| other VS Code features (`decorators.ts`, `codelens.ts`, `commands.ts`, `hover.ts`) | debounce timer, decorations | scan, draw, ask the server, show | editor events, client | one timer for all editors; answers of an old request | what is drawn is about the text it is drawn on |
| Zed extension (`editors/zed/src/lib.rs`) | cached path; version directories | download, make executable, start | GitHub, disk | a failure between download and chmod | what is started is complete and executable |

## 2. Modules

| Module | Models |
| --- | --- |
| `TuCache` | abstract: what the libclang index promises the server, one atomic step per call |
| `ClangIndex` | the index, its mutex, the crash guard, libclang failing and crashing, step by step; implements `TuCache` |
| `LspServer` | the message loop, every handler, the editor and the disk around them |
| `VsCodeClient` | `startClient`, `stopClient` and the restart commands around their awaits |
| `SymbolTable` | abstract: a table of symbols per file, a call takes effect in one step or not at all |
| `IndexStore` | `index_file_symbols` statement by statement; implements `SymbolTable` as long as nothing fails |
| `ObjcText` | the lines of a source file and the blocks tree-sitter finds |
| `Folding`, `Outline` | folding ranges and nullability regions; the outline and its fallback |
| `Sidebar` | the outline grouped by marks in the VS Code sidebar, over `Outline` |
| `SemanticTokens` | the walk of a syntax tree that collects semantic tokens, their sorting and encoding |
| `SymbolLookup` | one click: goto definition, goto declaration and hover, strategy by strategy |
| `ProjectHeaders` | the headers that servers of several workspaces prepare when they start, one file operation at a time |
| `EditorViews` | the decorations' debounce timer and the outline's await, around a user who edits and changes editors and a server that comes and goes |
| `CallGraph` | `showCallGraph`: requests and answers of the call hierarchy, and the graph they make |
| `TextFeatures` | a text that grows line by line, every feature computed from it |
| `MC...` | TLC instances: constants and symmetry, nothing else |
| `ClangIndexProofs`, `LspServerProofs`, `IndexStoreProofs`, `VsCodeClientProofs`, `CallGraphProofs`, `ProjectHeadersProofs`, `SymbolLookupProofs`, `TextFeaturesProofs` | theorems and proofs (those of `EditorViews` are in `VsCodeClientProofs`) |

`LspServer` uses the index as `TuCache` promises it (a parse replaces the unit or leaves it, a
dispose removes it) and the store as `SymbolTable` promises it; `ClangIndex` and `IndexStore`
show that the code keeps these promises, and where it does not (section 5).

### Correspondence to the code

* **ClangIndex.** `units` is the map of that name and `unitsLock` its mutex; `inGuard`, `jmpBuf`
  and `masked` are the guard's thread locals and the thread's signal mask; `alive` are the
  translation units libclang holds, `lost` those a recovered crash abandoned; `op` is the running
  call, `pc` where it is between two libclang calls, `held` its locals. One action per stretch of
  code between two points where libclang may fail or crash. The queries are grouped by their pattern of locking and
  guarding: under the guard with one pointer, under the guard with all pointers (rename),
  holding the lock (code actions), sweeping all units under the lock (call and type hierarchy).
* **LspServer.** A document is a version number, 0 being what is on disk at the start. A handler
  is one action, because the thread runs it to the end; the actions are named after
  `on_did_open` and so on, requests are grouped by what their answer is computed from. `Send`
  is the rendezvous channel of lsp-server. Compile diagnostics carry the disk version they are
  about. A crash ends the process in a walk outside the guard, and also where a unit is disposed: at
  `didClose`, and at `didOpen` and `didChange`, whose parse displaces one (`index.rs:92-94`). The editor is external: it sends what its capabilities negotiation allows, reopens
  documents after a crash, and may vanish.
* **VsCodeClient.** `client` is the variable of `server.ts`, `clients` every client ever made with
  its state (vscode-languageclient is external), `task` the await each activation, command or
  prompt is at; `status` is the status bar, `formatter` the client the formatting provider was
  registered with, `settings`, `binary` and `prompts` what the user did.
* **IndexStore.** One action per SQL statement; `files` and `symbols` are the tables; row
  numbers follow SQLite's rule (largest plus one). `Reopen` is a process that died with a
  database file, or a new in-memory one. `SymbolTable` is what the comment of `index_file_symbols`
  says, a replacement in a single transaction; the code has no transaction, so it implements the
  table only without faults, and with them keeps less (`OldAndNewNeverMix`).
* **CallGraph.** `calls` is the program, chosen at the start: which item's body refers to which
  item. `cached` are the files with a unit in the index; a unit is walked with the bodies in the headers
  it includes (`Includes`, `Walked`), so a caller in a header is found from any file that has it. `view` says how far `showCallGraph` is;
  `nodes` and `links` are its maps, `pending` the calls of `collectIncoming` and
  `collectOutgoing` that wait at their await. Answers are taken in any order, from the index as
  it is then, and may be lost. The server merges results by its own key, name and file (`SameKey`;
  the extension's identifier has the position too); which of them
  stands for all depends on the order of call sites and is left open (`Merges`). `undisturbed` is
  history, for the property about the whole neighbourhood only. Two runs of the command share
  nothing, so one is followed.
* **ProjectHeaders.** `server` is one record per process with the locals of
  `workspace_include_flags` and of the functions it calls: `pc` is the file operation it comes to,
  `todo` the headers it has still to link. `links` are the directories of
  `synthetic_pod_headers_dir`, one per workspace, as the sets of files their links lead to; `shared` is `prefix_header_src.h`, as the set of
  texts of which it holds something, so that `{}` is a truncated file and two texts are one
  written over a longer one; `umbrella` is `synthetic_uikit_prefix.h`. `fs::write` is two actions,
  the truncation and the write. `torn`, `writers`, `moved` and `unlinked` are history, for the
  conditions of the two properties that hold; the three that do not hold are stated without them.
* **EditorViews.** `timer` is `updateTimer`, with the editor its closure holds; `drawn` the version
  whose decorations an editor shows. `build` is `buildOutline` at its await; the marks are read
  when it goes on. VS Code's tree view asks again when a refresh comes during the await (`again`).
  The views are registered before the client is
  started, so the first outline is built while no server runs (`serving`), and a request that no
  server answers, or that one takes down with it (`ServerGone`), leaves an outline without symbols;
  `ServerStarts` refreshes nothing. `MaxSwitches` bounds the servers' deaths too. The view is taken to
  be visible from the start, as VS Code asks for nothing otherwise.
  The definitions that every specification has begin with `Views` here, so that one proof module can
  extend this module beside `VsCodeClient`, the other half of the extension. `displaced`,
  `relabelled` and `unanswered` are history, for the exceptions of the properties.
* **SymbolLookup.** A statement is a sequence of tokens with columns. Most are well formed as libclang's
  parser demands (`WellFormed`: brackets pair up and nest, a message has its receiver and selector
  between its brackets); of one that is not, libclang shows nothing, and only the token scans see it. What libclang makes of it is
  chosen at the start, in every way: `exposed` are the cursors its visitor shows (messages, calls,
  variables and names), `bound` those it resolves, `annotated` the tokens it resolves, `elsewhere` the words it resolves on other
  lines, `placed` which declarations have a location in a file. One operator per strategy. The
  scan for a bracket gives up at different depths of parentheses in goto and hover (`ParenDepth`);
  the kinds of cursors have the numbers libclang gives them, and the code's own literals are kept.
* **SemanticTokens.** A line of `ObjcText` is the subtree tree-sitter makes of it, a line outside a
  well-formed block is inside an ERROR node. `Walk` is the recursion of `walk_node` over these
  nodes, level by level with each node in the place of its parent, which gives the same order;
  `Encode` the stable sort and the distances, `Decode` the editor's reading of them.
  A name is emitted only where the grammar gives its node the field the code asks for
  (`NodesWithField`): the names of methods and functions have it, those of classes and properties
  do not. Of a text with errors the tree is taken to have all its whole blocks.
  Literals, comments, message expressions and tokens over several lines are left out.
* **TextFeatures, Sidebar.** A line is a kind and a class; each loop of the source is a
  recursive function over positions in the same direction (`placed`, `left`, `after`, `inside`, `from`),
  a filter is the positions it leaves (`Keep`, `InOrder`); positions in a line are left out. `PlaceCategory`
  is the body of the loop of `aggregate_categories`. Where two readers of the source tell lines apart
  differently, there is a kind of line for it: the checker takes a line that contains a macro for the
  macro, the folding one that is the macro (`beginMention`, `finishMention`); the sidebar takes a mark
  with a label from the first column on, the server one with a single blank before `mark` (`rule`,
  `wide`); the fallback takes `@protocol Foo;` for the start of a block (`forward`). The properties that
  compare two readers name these kinds in their conditions, and say what holds beside them; where a comment
  promises more, a counterexample (section 3) shows what a line of that kind does. A parse without
  ERROR nodes is a text where heads, ends and members match; with errors the tree may have any of
  the whole blocks (`Trees`), and the fallback is used when it has nothing. Not among the lines:
  `@implementation Foo (Cat)`, and an `@end` with text after it.

## 3. Runs

| Run | Shows | Bounds |
| --- | --- | --- |
| `clang_index` | no use after dispose, no silent leak, lock and guard discipline, every call returns, `TuCache` implemented | 2 files, 4 handles: enough for a displaced, a current and a temporary unit of one file beside one of another |
| `lsp_documents` | store, units and answers follow the editor | 2 files, 1 edit each, 2 messages each way, requests of three kinds (from the text, from the text and the unit, from the store): a change, a close and a request overlap |
| `lsp_faults` | documents follow the editor across crash and restart, with every fault; order, liveness, end of the server | 1 file, 1 edit, 2 requests, 1 restart |
| `vscode_restart` | restarts one at a time: one server, truthful status, fresh settings, no hang | 1 restart beside the activation and the prompts it causes, 4 clients, 2 settings, 2 crashes |
| `vscode_two_servers` (violation) | two restarts at once give two servers | 2 restarts, 3 clients |
| `index_store` | references hold; a call that succeeds leaves its batch in its file; old and new never mix; with every fault | 2 paths, batches of up to 2, 3 calls |
| `index_store_torn_batch` (violation) | a statement that fails tears the replacement: no single transaction | same, 1 call |
| `text_features` | scanners find their regions, checker and folding agree, no member lost or doubled, both extractors agree, the sidebar's sections are the folded ones, semantic tokens survive their encoding; the differences of two readers excepted kind by kind | texts of 6 lines over four alphabets (`RegionLines`, `FoldLines`, `ClassLines`, `SectionLines`) of 6 to 8 lines each: two blocks with a member each, nested regions and comments that name a macro, a run of three imports, a protocol declared ahead, sections with symbols in and before them, marks that only one side takes |
| `call_graph` | nodes belong to the root, the graph is the whole neighbourhood, the panel opens | every program of 1 to 3 calls among 4 items in 2 files, one included by the other, two items with one key: circles, chains longer than the depth bound, an item on both sides |
| `project_headers` | a workspace includes its own prefix header; imports by pod reach that pod's headers | 2 servers, 2 workspaces, 3 starts, headers of one name in 2 pods and a skipped directory, 1 edit, 1 move, 1 link that fails: a server starts while another writes, after one that died in a write, and over links of an earlier start |
| `editor_views` | no update of the active editor is lost; the outline settles on the active document | 2 documents, 2 edits each, 2 changes of editor, language or setting or deaths of the server: a change of editor inside a debounce and inside an await, and back |
| `symbol_lookup` | what the file knows is found; the selector's own message | 7 statements: a symbol alone, one message, a declaration with its twin, a message in a message, a call as an argument, two messages side by side, one with a parenthesis too many; every click, every choice of what libclang exposes and binds, one place missing |

Beside the runs there are configurations for promises of a comment or a document that the code does not
keep, each stated as a property whose comment says "Not kept". `tlc -config <configuration>
<module>` ends with a counterexample:

| Configuration, module | Property | What the counterexample shows |
| --- | --- | --- |
| `ClangIndexVisitCrash`, `MCClangIndex` | `CrashNeverKills` | a crash in a walk outside the guard ends the process |
| `ClangIndexAnalyzerCrash`, `MCClangIndex` | `TemporaryUnitsDisposed` | a crash while the analyzer's diagnostics are read leaks its unit |
| `LspServerUnsaved`, `MCLspServer` | `ErrorsAreRealTime` | the errors shown are those of the file on disk and not of the buffer |
| `VsCodeClientFailedStart`, `MCVsCodeClient` | `RestartRecreates` | after a client that failed to start no restart makes a new one |
| `TextMentionedMacro`, `MCTextFeatures` | `RegionIsSilent` | a comment that names the end of a region makes the checker warn inside it |
| `TextForwardProtocol`, `MCTextFeatures` | `FallbackNests` | `@protocol Foo;` moves members to another block in the fallback |
| `CallGraphBothWays`, `MCCallGraph` | `TraversesBoth` | an item that is caller and callee is followed one way only |
| `HeadersTwoWorkspaces`, `MCProjectHeaders` | `PrefixHeaderIsOwn` | a server includes the prefix header of another's workspace |
| `HeadersTornUmbrella`, `MCProjectHeaders` | `UmbrellaIsStable` | a header that is not whole is taken for whole |
| `HeadersMoved`, `MCProjectHeaders` | `ImportsFollowHeaders` | a header that moved keeps its old link over later starts |
| `EditorViewsNoServer`, `MCEditorViews` | `OutlineHasSymbols` | an outline built before the server runs stays without symbols |
| `EditorViewsSwitch`, `MCEditorViews` | `UpdatesAreApplied` | a change of editor drops the update of the editor left |
| `SymbolHoverMessage`, `MCSymbolLookup` | `HoverInMessage` | the hover's search for the message around a click finds nothing |

The passing runs say what is left of these promises: their properties name the exception in each case.

Symmetry is used over files, paths, servers and the like, only in runs without liveness properties. Every property
of a passing run has a mutant of the code's model that violates it (`PROJECT.json`).

### Fairness

* `LspServer!FairSpec`: weak fairness of the server's next step (the loop blocks only in `recv`,
  or in `send` until the editor reads), of the editor's reading, and of the restart by
  vscode-languageclient. No fairness of anything the user does. The 30 seconds of
  `handle_shutdown` are a fault that may strike but need not; a client that vanishes ends the
  stream.
* `ClangIndex`: weak fairness of the running call, which is sequential code; libclang itself is
  assumed to return or to crash.
* `VsCodeClient`: weak fairness of `StopRejects` (`stop()` of vscode-languageclient has a timeout
  and rejects after it) and of `StartResolves` for every client (`initialize` is answered before
  the server does anything slow); the user and the crashes have none.
* `EditorViews`: weak fairness of `TimerFires` (a timer that is set fires) and of `OutlineBuilt` (the
  request for the outline is answered or failed by the client). The user, and the coming and going of the server, have none.
* `CallGraph`: weak fairness of `Extension`, the continuation of some await: every request is
  answered by the server or failed by its client. The user's opening and closing has none.

## 4. Proofs

All theorems hold for every value of the constants; each run above checks the same property on
a small instance first.

* **ClangIndexProofs** (9 theorems). The inductive invariant ties each phase to the lock, the
  guard and the handles it may hold; that a handle is in at most one place (cached, in use by
  the call, abandoned by a crash) is the part everything else rests on. `Refinement` shows
  `TuCache` implemented: initial states map to initial states and every step to a step or a
  stutter.
* **LspServerProofs** (7 theorems). `TypeCorrect`; `InStepWithEditor`, `NoOrphanTu` and
  `StoreInStep` from the invariant `IInv`: types, the three properties, and that the document
  of every didChange under way will be open when the server comes to it. The last is needed
  because `on_did_change` updates an existing document only, but indexes and parses in any
  case: without it a change to a closed document would cache a unit that nothing disposes. The
  lemmas about `HasText` say what a message does at either end of the queue. A restart needs
  that the set of documents is finite.
  `AnswersOrdered` needs the numbers of all that is under way (`Ordered`): those answered are below
  those of the responses in the channel, these below those of the requests in the other, and each
  channel is increasing. `AnswersFromAskedText` needs `AskedInStep`: for every request under way, the
  changes that are before it in the queue bring the server's copy of each document to the text that
  the editor had when it asked; with `StoreInStep` the handler then answers about that text, and
  `ResponsesCurrent` says that responses stay so on their way. `ShownAtRest` needs `WillShow`: the
  last diagnostics for an open file in the channel, or those shown if there are none, are right for
  what the server knows of it (`RightFor`). That `None` is no record of diagnostics is an assumption
  every model value meets.
* **IndexStoreProofs** (6 theorems). `TypeCorrect`, `ReferencesHold`, `OthersUntouched`: row
  numbers are larger than every number of the table, which needs a largest element and is
  proved from well-foundedness of the naturals. `SuccessAlwaysReplaces`, `NeverMixed`: the invariant
  says what the tables hold in the middle of a call (`CallSymbols`): until the delete the file has the
  symbols it had before the call, from then on exactly the first k of the batch in their order, the
  others being still to be inserted. The order rests on the row numbers again: a new row has the
  largest and is the last of its file. `Refinement` shows `SymbolTable` implemented under the hypothesis
  `Faults = {}`, with the table changing when a call ends; `index_store_torn_batch` shows that the
  hypothesis is needed.
* **VsCodeClientProofs** (8 theorems, about both specifications of the extension). `TypeCorrect`, `NewestClient` and `SettingsApply` hold for any
  number of overlapping restarts; the invariant says that nothing exists before the activation, that
  the module's client is the last made, that a task asked no later than now and has a client at least
  as fresh as its question, and that a client is stopping only while a restart awaits it. `OneServer`
  and `StatusTells` are stated for restarts one at a time (`OneRestart`: there is one restarting
  task, which can be used again and again). The hypothesis is needed: `vscode_two_servers` shows two
  servers without it. Then every client but the last is stopped or failed (`SInv`).
  `ViewsTypeCorrect` and `TimerServesActive` are about `EditorViews`; the second is inductive with the
  types: every handler draws the active editor, leaves its timer set, or marks it displaced, and the
  lemmas say what a handler's parts do to the other editors.
* **CallGraphProofs** (3 theorems). `TypeCorrect` and `GraphBelongsToRoot`. That a caller reaches
  the root is not inductive by itself: the invariant says of every request under way that its
  item is the root at depth 0, and at depth 1 has a link to the root (or from it), so that
  whatever the answer adds is at most two links away. Requests stop at depth one, which is why
  two links are enough. `GraphIsWhole` is the converse, for programs where the two directions share
  nothing but the root (the property's own condition): each direction is either still at its first
  request, with none of its items in the map (`Unasked`), or its first answer is in the map and every
  neighbour is being asked about or has all of its own in it (`Asked`). The reference definition by
  levels is unfolded once, in the lemma `Levels`.
* **ProjectHeadersProofs** (3 theorems). `TypeCorrect`, `OwnHeader` and `ImportsReach`. Whether a
  server finds its own prefix header depends on what every other server is about to do to the
  file, so the invariant says of the readers and writers of the file: what they read is of their
  workspace and no newer than the workspace's header (`ReadersKnown`); until a write overlaps
  another or breaks off there is one writer at a time (`OneWriter`), and the file is empty between
  its truncation and its write and one whole text otherwise (`SharedWhole`); no text and no writer
  is older than a server that runs (`NoOlder`). For the links it says that each leads to a file
  that is there or was moved (`LinksLead`), and that each header found is still to be linked, has
  its link or could not get one (`InProgress`); links of other starts only add to both. `None` is
  assumed to be no set of texts, which every model value is.
* **SymbolLookupProofs** (2 theorems). An input never changes and an answer is given in one step, so
  what is proved is what the chain of strategies computes, for every well-formed statement, click
  and choice of what libclang exposes and binds. `KnownIsFound`: the search ends early only
  where no identifier is at the click, which cannot be, and otherwise goes on to the strategy that
  finds the word.
  `MethodIsRight` rests on nesting: of the messages whose range holds a
  click on a selector, the selector's own is inside all others, so the walk meets it last
  (`LastMet`), and the code's exception for `]` is the only neighbour that can touch it.

* **TextFeaturesProofs** (12 theorems). The inductive invariant of the specification is only that
  lines are lines; each theorem says what functions of one text compute, for every text over every
  alphabet. The loops and recursive functions over positions are handled by induction from the
  well-foundedness of the naturals, for the members of a set (`Upwards`, `Downwards`), because the
  library's induction theorems take an operator as a parameter; `Recursion` shows that a recursive
  function satisfies its equations, which its definition by CHOOSE does not say by itself.
  `FoldsAlwaysRegions`: the stack of the nonnull scanner holds, in order, the begins with more begins
  than finishes after each (`OpenAt`), so what it pairs is balanced (`BalancedStep`); the
  jump of the import scanner leads to the end of a maximal run (`RunsFromScan`).
  `WarningsAlwaysMatch`: where regions do not nest, the flag is up at a line exactly inside a region or
  after one still open (`InsideStep`, `FirstFinish`), up to the first line that mentions a macro and
  more, which only the flag sees.
  `ExtractorsAlwaysAgree`: a match begins after every line that is not blank before it (`MatchOrder`),
  so the first end left for a head is the one of its block (`FreeStep`). With a
  forward declaration the fallback still finds every block, with a superset of its members.
  `OutlineAlwaysComplete`: a category's members are in one place after each step of the loop
  (`PlacedOnce`: the first class of the name if the category is done, nowhere in it otherwise),
  and a flat list has once what one of its parts has once (`FlattenOnce`).
  `SidebarAlwaysMatches`: the groups share nothing and have every symbol (`GroupsAre`, `FlattenParts`),
  and between a mark that folds and a symbol in the fold there is no other mark (`SectionsEnd`, `MatchOrder`
  for a symbol that begins at the blank lines before it) but one that only the other side takes; for
  every tree that may be left of a text with errors.
  `TokensAlwaysInOrder`: `Sorted` picks the token of each rank, which is a permutation because the order
  of positions with ties by the walk is strict and total (`PrecedesIs`, `SortedIs`), and decoding undoes
  the distances token by token (`DecodedIs`). That the name's role comes first is an invariant of the
  walk, level by level: a node or token that is before another on its line leads to no variable where the
  other leads to a token (`Apart`, `LevelStep`), which each kind of node keeps (`Fits`), by sets of nodes
  whose tokens are reached in one, two, three or four more visits.

Assumptions: the named ASSUMEs of the modules, which TLC evaluates in every run.

Only model-checked: liveness (`EveryCallReturns`, `EveryRequestAnswered`, `ServerEnds`,
`RestartsEnd`, `GraphOpens`, `OutlineSettles`), which the prover cannot do. Every other property of a
passing run is a theorem. The two properties of the violation runs (`SingletonClient`,
`ImplementsSymbolTable`) are proved under the hypothesis that excludes the counterexample.
`CacheStable`, `OthersUntouched`, `Refinement` of `IndexStoreProofs` and the types of several modules are
proved and not in a passing run: the properties that the runs check say more, or the same where
something fails.

## 5. Where code and documentation differ

Shown by a run:

* The client is not a singleton (`server.ts:11`): `vscode_two_servers`.
* A batch of the store is not "a single transaction" (`queries.rs:115-116`): the statements run in
  autocommit mode, and one that fails leaves a part of the batch: `index_store_torn_batch`.

Shown by a counterexample of section 3:

* A crash in a walk outside the guard kills the server (`crash_guard.rs:3-6`).
* A crash while the analyzer's diagnostics are read abandons its temporary unit, which is said to be
  "disposed immediately" (`diagnostics.rs:48-49`); `NoSilentLeak` excepts exactly the units that a
  recovered crash abandoned.
* Compile diagnostics are those of the file on disk and not of the buffer (`server.rs:861`),
  although `editors/vscode/README.md:12` calls them real-time.
* A client whose start failed stays in `client` (`server.ts:63`), and `stop()` throws for it, so no
  restart makes a new one, although it is "recreated on restart" (`server.ts:11`).
* The nullability checker takes any line that contains a macro for it (`nullability.rs:71, 75`), the
  folding a line that is nothing else (`folding.rs:210, 212`), so a comment that names
  NS_ASSUME_NONNULL_END lets the checker warn inside a region (`nullability.rs:3-7`).
* `@protocol Foo;` is the start of a block for the fallback extractor (`symbols.rs:582`) and takes
  the next `@end`, so members are not in "the nearest enclosing block" (`symbols.rs:572-573`).
* The call graph follows an item that is both a caller and a callee only in the direction that
  is answered first (`callgraph.ts:182`), although it "traverses both" (`callgraph.ts:8`).
* The prefix header of every workspace is written to one file (`sdk.rs:214`), so a server includes that
  of the workspace started last (`sdk.rs:201-203`).
* The umbrella header is taken for whole as soon as it exists (`sdk.rs:256-257`).
* Links of pods are kept wherever they lead ("Skip if already exists", `sdk.rs:634`).
* The outline is built before the client is started (`extension.ts:61`, `86-89`) and stays without
  symbols until the next change of editor or save (`treeviews.ts:92-99`, `387-398`).
* A change of editor within the debounce drops the update of the editor left, which stays visible with
  old decorations (`decorators.ts:306`, `343`).
* The search for messages compares the kind of a cursor with 233 (`goto_def.rs:547`,
  `hover.rs:328`), where libclang's number is 104 (`call_hierarchy.rs:181` has its name), so these
  strategies find nothing (`hover.rs:300-306`).

Seen while modelling, without a run of their own:

* A mark is one thing for the server and another for the sidebar: `#pragma mark -` folds
  (`folding.rs:168`) and is no group (`treeviews.ts:116-121`); `SidebarMatchesFolds` excepts such lines.
* The analyzer does not run on save (`README.md:254`): `didSave`, which `capabilities.rs:21` asks
  for, is ignored (`server.rs:219`), and what a save wrote is analysed at the next edit.
* The hover's kinds of the preprocessor, 100 to 110 (`hover.rs:150`), are
  libclang's expressions, so an unresolved call is shown as a macro.
* The hover says "no definition found" where goto finds one by the walk of the children or by a twin
  in the statement: it has only three of the five strategies (`hover.rs:44-137`).
* The end of a range counts as inside (`goto_def.rs:336`), so a click on the first column of a
  selector that follows `]` without a space leads to the inner message; `RightMethod` excepts it.
* For a nested receiver the token search takes the first identifier after the bracket for the class
  (`goto_def.rs:697`), and the first method whose name begins with the word clicked.
* A trailing comment on the line before a declaration makes every line back to the nearest one that
  begins with `/*` its documentation (`hover.rs:832`), although other lines should prevent it.
* The converted prefix header is not refreshed when the `.pch` is edited (`sdk.rs:214`), and an
  unreadable one is passed to libclang as it is, which takes it for a binary (`sdk.rs:220`).
* Opening a document in a second visible editor takes the one timer away from the active editor
  (`decorators.ts:302`); a document that becomes Objective-C has no outline until the next refresh
  (`treeviews.ts:387`).
* The class browser shows the first 100 symbols of the workspace (`queries.rs:54`).
* The Zed extension takes a file that was downloaded and never made executable for an installed
  server (`editors/zed/src/lib.rs:93`).
* Without initializationOptions nullability checks are off (derived `Default`,
  `server.rs:51-62`), with an empty object they are on (`README.md:253`).
* The class browser says that it nests methods under their classes (`treeviews.ts:302`), by a
  container name that the server never sends (`server.rs:653`).
* The outline groups the roots of the server's outline only, so marks inside an @implementation
  group nothing (`treeviews.ts:158`; `editors/vscode/README.md:75`).
* prepareRename is advertised (`capabilities.rs:74`) and answered null (`server.rs:210`).
* A request that fails to deserialize is logged and never answered (`server.rs:988`).
* `rename_across_all_files` returns nothing when the primary unit is missing (`rename.rs:191`),
  its comment says it falls back to a single file.
* `derive_property_replacement` tests the property's name for the setter's prefix
  (`rename.rs:318`), which is never true, so setters are renamed like getters.
* The formatting provider keeps the client of activation over restarts (`extension.ts:116`).
* The fallback extractor begins a match at the blank lines before it, so its positions are too
  high (`symbols.rs:577`), and in a text with an unclosed block a member is nested in more than
  the nearest one (`symbols.rs:573`).
* `tokens.rs` emits names twice, as what they name and as variables, which its comment at the
  identifiers says it avoids, and tokens of length 0 for the blank lines of a comment; its columns
  are bytes and not UTF-16 units. `TokensArriveInOrder` says that the name's role comes first.

## 6. Not modelled

libclang's and tree-sitter's answers (external, unbounded); the layout of hover texts, icons,
snippets, grammars and the release scripts (layout and data); `xcodeproj.rs` (called by nothing)
and `dispatch.rs` (a wrapper without state); SDK discovery (runs external programs once);
`property.rs`, `category.rs` and `protocol.rs` (tables that no handler writes); `codelens.ts`,
`hover.ts` and the decorations' scans (regular expressions over single lines); `ensure_binary` of the
Zed extension (four calls in a row, see section 5). Completion, rename's edits, type hierarchy,
code actions and formatting are modelled as far as locking, guarding and what text they are about
go, and not in what they compute.

## 7. Plan

In order of what matters most to a user:

1. *Server, done:* `ClangIndex`, `LspServer`, `IndexStore`, their refinements and theorems;
   `SymbolLookup` for goto and hover.
2. *Client, done:* `VsCodeClient`, `CallGraph`, `EditorViews`.
3. *Shared files, done:* `ProjectHeaders`.
4. *Text features:* `Folding`, `Outline`, `Sidebar`, `SemanticTokens` are done. Open: the split of a
   token over lines, selectors (the tree's and the fallback's of one method), the splitting of
   compile commands, and edits (rename, format, extract) as edits of a text; as further invariants of
   `text_features`.
5. *Proofs:* every safety property, action property and refinement of the passing runs is a theorem.
   Open: theorems of what point 4 adds.
