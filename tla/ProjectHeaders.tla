--------------------------- MODULE ProjectHeaders ---------------------------
(***************************************************************************)
(* The headers a server prepares for its workspace when it starts, on      *)
(* macOS (objc-project/src/sdk.rs, called from Server::new): links that    *)
(* stand for `pod install`, and the header that stands for Xcode's prefix  *)
(* header.  They lie in the temporary directory of the user, which the     *)
(* servers of all editors share: the links have a directory per workspace, *)
(* the prefix header is one file for all.                                  *)
(*                                                                         *)
(* A start is a sequence of file operations; another server starts, runs   *)
(* or dies between any two of them, and the user edits the workspaces.     *)
(***************************************************************************)
EXTENDS Naturals, FiniteSets

CONSTANTS
  Servers,
  Workspaces,
  Headers,     \* paths of header files below a workspace: [pod, dir, name]
  SkippedDirs, \* build, DerivedData, node_modules, ...
  Marks,       \* what each workspace's files say of iOS: subset of IosMarks
  Trees,       \* the header files the workspaces may begin with
  MaxEdits,    \* bound: versions of a prefix header
  MaxStarts,   \* bound: starts of a server
  MaxMoves,    \* bound: files moved away
  MaxFailures, \* bound: links that cannot be made
  None

IosMarks == {"Podfile", "podspec", "xcodeproj"}

\* The texts of prefix headers.
Texts == [ws : Workspaces, version : 0..MaxEdits]

ASSUME HeadersAssumption ==
  /\ {MaxEdits, MaxStarts, MaxMoves, MaxFailures} \subseteq Nat
  /\ Trees \subseteq [Workspaces -> SUBSET Headers]
  /\ Marks \in [Workspaces -> SUBSET IosMarks]
  /\ None \notin Workspaces /\ None \notin 0..MaxEdits
  /\ \A texts \in SUBSET Texts : None # texts

VARIABLES
  tree,       \* the header files of each workspace
  pods,       \* workspaces with a Pods directory, where pod install was run
  pch,        \* version of its prefix header, None if it has none that imports a UI framework
  links,      \* its directory of links: the files they lead to
  shared,     \* prefix_header_src.h: None, or the set of texts of which it holds something
  umbrella,   \* synthetic_uikit_prefix.h: "absent", "empty" or "whole"
  server,     \* each server: how far its start is, and the flags it has
  starts,     \* servers started so far
  moved,      \* history: files a user moved away
  writers,    \* history: workspaces whose servers began to write the shared header
  torn,       \* history: two such writes overlapped, or one broke off
  unlinked    \* history: links that could not be made

disk == <<tree, pods, pch>>
temp == <<links, shared, umbrella>>
history == <<starts, moved, writers, torn, unlinked>>
vars == <<tree, pods, pch, links, shared, umbrella, server, starts, moved, writers, torn, unlinked>>

Writing == {"create", "write"}
Steps == {"off", "linking", "prefix", "umbrella", "newUmbrella", "fillUmbrella", "running"}
           \cup Writing

Off == [pc |-> "off", ws |-> None, found |-> {}, todo |-> {}, dirs |-> "none", read |-> None,
        include |-> "none"]

TypeOK ==
  /\ tree \in [Workspaces -> SUBSET Headers]
  /\ pods \subseteq Workspaces
  /\ pch \in [Workspaces -> 0..MaxEdits \cup {None}]
  /\ links \in [Workspaces -> SUBSET Headers]
  /\ shared = None \/ shared \subseteq Texts
  /\ umbrella \in {"absent", "empty", "whole"}
  /\ server \in [Servers -> [pc : Steps, ws : Workspaces \cup {None}, found : SUBSET Headers,
                             todo : SUBSET Headers, read : Texts \cup {None},
                             dirs : {"none", "Pods", "links"},
                             include : {"none", "shared", "umbrella", "pch"}]]
  /\ starts \in 0..MaxStarts
  /\ moved \subseteq Workspaces \X Headers
  /\ unlinked \subseteq Workspaces \X Headers
  /\ writers \subseteq Workspaces
  /\ torn \in BOOLEAN

Init ==
  /\ tree \in Trees
  /\ pods = {}
  /\ pch \in [Workspaces -> {0, None}]
  /\ links = [w \in Workspaces |-> {}]
  /\ shared = None
  /\ umbrella = "absent"
  /\ server = [s \in Servers |-> Off]
  /\ starts = 0 /\ moved = {} /\ writers = {} /\ torn = FALSE /\ unlinked = {}

-----------------------------------------------------------------------------
(* What a server reads of its workspace *)

IsIos(w) == Marks[w] # {}

Collected(w) == {h \in tree[w] : h.dir \notin SkippedDirs}

\* Mutant of LinkPath: one flat directory for the headers of all pods.
LinkPathFlat(h) == <<None, h.name>>

LinkPath(h) == <<h.pod, h.name>>

\* What the link at a header's path leads to, if there is one.
Linking(w, h) == {g \in links[w] : LinkPath(g) = LinkPath(h)}

-----------------------------------------------------------------------------
(* cocoapods_flags *)

At(s, pc) == server[s].pc = pc

Goes(s, pc) == server' = [server EXCEPT ![s].pc = pc]

\* An installed Pods directory is used as it is; without one the links are made or completed.
Start(s, w) ==
  LET found == Collected(w)
      dirs == IF w \in pods THEN "Pods" ELSE IF found = {} THEN "none" ELSE "links"
  IN  /\ At(s, "off")
      /\ starts < MaxStarts /\ starts' = starts + 1
      /\ server' = [server EXCEPT ![s] =
                      [pc |-> IF dirs = "links" THEN "linking" ELSE "prefix", ws |-> w,
                       found |-> IF dirs = "links" THEN found ELSE {},
                       todo |-> IF dirs = "links" THEN found ELSE {},
                       dirs |-> dirs, read |-> None, include |-> "none"]]
      /\ UNCHANGED <<disk, temp, moved, writers, torn, unlinked>>

\* A link that exists is left alone, wherever it leads. The files come in directory order.
Link(s) ==
  /\ At(s, "linking")
  /\ \E h \in server[s].todo :
       /\ links' = IF Linking(server[s].ws, h) # {} THEN links
                   ELSE [links EXCEPT ![server[s].ws] = @ \cup {h}]
       /\ server' = [server EXCEPT ![s].todo = @ \ {h}]
  /\ UNCHANGED <<disk, shared, umbrella, history>>

\* The directory or the link cannot be made: the error is dropped.
LinkFails(s) ==
  /\ At(s, "linking")
  /\ Cardinality(unlinked) < MaxFailures
  /\ \E h \in server[s].todo :
       /\ Linking(server[s].ws, h) = {}
       /\ unlinked' = unlinked \cup {<<server[s].ws, h>>}
       /\ server' = [server EXCEPT ![s].todo = @ \ {h}]
  /\ UNCHANGED <<disk, temp, starts, moved, writers, torn>>

Linked(s) ==
  /\ At(s, "linking") /\ server[s].todo = {}
  /\ Goes(s, "prefix")
  /\ UNCHANGED <<disk, temp, history>>

-----------------------------------------------------------------------------
(* workspace_include_flags: the prefix header *)

Run(s, include) == server' = [server EXCEPT ![s].pc = "running", ![s].include = include]

ReadPrefix(s) ==
  /\ At(s, "prefix")
  /\ pch[server[s].ws] # None
  /\ server' = [server EXCEPT ![s].pc = "create",
                              ![s].read = [ws |-> server[s].ws, version |-> pch[server[s].ws]]]
  /\ writers' = writers \cup {server[s].ws}
  /\ torn' = (torn \/ \E t \in Servers \ {s} : server[t].pc \in Writing)
  /\ UNCHANGED <<disk, temp, starts, moved, unlinked>>

\* The file cannot be read: it is included itself, which libclang takes for a binary.
PrefixUnreadable(s) ==
  /\ At(s, "prefix")
  /\ pch[server[s].ws] # None
  /\ Run(s, "pch")
  /\ UNCHANGED <<disk, temp, history>>

NoPrefix(s) ==
  /\ At(s, "prefix")
  /\ pch[server[s].ws] = None
  /\ IF IsIos(server[s].ws) THEN Goes(s, "umbrella") ELSE Run(s, "none")
  /\ UNCHANGED <<disk, temp, history>>

\* Mutant of CreateShared: the file is opened without truncation.
CreateSharedAppends(s) ==
  /\ At(s, "create")
  /\ shared' = IF shared = None THEN {} ELSE shared
  /\ Goes(s, "write")
  /\ UNCHANGED <<disk, links, umbrella, history>>

\* fs::write opens the file and truncates it ...
CreateShared(s) ==
  /\ At(s, "create")
  /\ shared' = {}
  /\ Goes(s, "write")
  /\ UNCHANGED <<disk, links, umbrella, history>>

\* ... and writes from its beginning: of a longer text that another server wrote in between,
\* the rest remains.
WriteShared(s) ==
  /\ At(s, "write")
  /\ shared' \in {{server[s].read}, {server[s].read} \cup shared}
  /\ Run(s, "shared")
  /\ UNCHANGED <<disk, links, umbrella, history>>

WriteSharedFails(s) ==
  /\ server[s].pc \in Writing
  /\ Run(s, "pch")
  /\ torn' = (torn \/ At(s, "write"))
  /\ UNCHANGED <<disk, temp, starts, moved, writers, unlinked>>

-----------------------------------------------------------------------------
(* write_synthetic_uikit_header: only if it does not exist *)

FindUmbrella(s) ==
  /\ At(s, "umbrella")
  /\ IF umbrella = "absent" THEN Goes(s, "newUmbrella") ELSE Run(s, "umbrella")
  /\ UNCHANGED <<disk, temp, history>>

CreateUmbrella(s) ==
  /\ At(s, "newUmbrella")
  /\ umbrella' = "empty"
  /\ Goes(s, "fillUmbrella")
  /\ UNCHANGED <<disk, links, shared, history>>

FillUmbrella(s) ==
  /\ At(s, "fillUmbrella")
  /\ umbrella' = "whole"
  /\ Run(s, "umbrella")
  /\ UNCHANGED <<disk, links, shared, history>>

UmbrellaFails(s) ==
  /\ server[s].pc \in {"newUmbrella", "fillUmbrella"}
  /\ Run(s, "none")
  /\ torn' = (torn \/ At(s, "fillUmbrella"))
  /\ UNCHANGED <<disk, temp, starts, moved, writers, unlinked>>

\* The editor closes, or the process dies.
End(s) ==
  /\ ~At(s, "off")
  /\ server' = [server EXCEPT ![s] = Off]
  /\ torn' = (torn \/ server[s].pc \in {"write", "fillUmbrella"})
  /\ UNCHANGED <<disk, temp, starts, moved, writers, unlinked>>

-----------------------------------------------------------------------------
(* The user *)

EditPrefix(w) ==
  /\ pch[w] # None /\ pch[w] < MaxEdits
  /\ pch' = [pch EXCEPT ![w] = @ + 1]
  /\ UNCHANGED <<tree, pods, temp, server, history>>

MoveHeader(w) ==
  /\ Cardinality(moved) < MaxMoves
  /\ \E h \in tree[w], g \in Headers \ tree[w] :
       /\ g.name = h.name
       /\ tree' = [tree EXCEPT ![w] = (@ \ {h}) \cup {g}]
       /\ moved' = moved \cup {<<w, h>>}
  /\ UNCHANGED <<pods, pch, temp, server, starts, writers, torn, unlinked>>

PodInstall(w) ==
  /\ pods' = pods \cup {w}
  /\ UNCHANGED <<tree, pch, temp, server, history>>

Begin(s) ==
  \/ \E w \in Workspaces : Start(s, w)
  \/ Link(s) \/ LinkFails(s) \/ Linked(s)
  \/ ReadPrefix(s) \/ PrefixUnreadable(s) \/ NoPrefix(s)
  \/ CreateShared(s) \/ WriteShared(s) \/ WriteSharedFails(s)
  \/ FindUmbrella(s) \/ CreateUmbrella(s) \/ FillUmbrella(s) \/ UmbrellaFails(s)

Next ==
  \/ \E s \in Servers : Begin(s) \/ End(s)
  \/ \E w \in Workspaces : EditPrefix(w) \/ MoveHeader(w) \/ PodInstall(w)

Spec == Init /\ [][Next]_vars

-----------------------------------------------------------------------------
(* Properties *)

Running(s) == At(s, "running")
Quiet == \A s \in Servers : server[s].pc \notin Writing \cup {"newUmbrella", "fillUmbrella"}

\* A workspace parses with its own prefix header, whole and no older than when its server
\* started (sdk.rs:417, "matching Xcode's GCC_PREFIX_HEADER"), and with a whole umbrella header
\* in its place: as long as no server of another workspace writes the file all of them share, no
\* two starts write it at the same time, and none breaks off. Without these conditions the code
\* promises nothing: every later parse of every server includes what was written last.
OwnPrefixHeader ==
  \A s \in Servers :
    Running(s) /\ Quiet /\ ~torn =>
      /\ server[s].include = "shared" /\ writers = {server[s].ws}
           => \E text \in Texts : /\ shared = {text}
                                  /\ text.ws = server[s].ws
                                  /\ text.version >= server[s].read.version
      /\ server[s].include = "umbrella" => umbrella = "whole"

\* Imports by pod and name of a workspace without Pods reach a header of that pod and name
\* (sdk.rs:507), whichever servers made the links and whenever: except where making the link
\* failed, and where a header of that pod and name was moved, whose link stays as it was
\* ("Skip if already exists", sdk.rs:634).
ImportsReachHeaders ==
  \A s \in Servers : Running(s) /\ server[s].dirs = "links" =>
    LET w == server[s].ws
        disturbed == {h \in Headers : <<w, h>> \in moved \cup unlinked}
    IN  \A h \in server[s].found :
          (\A g \in disturbed : g.pod # h.pod \/ g.name # h.name)
            => /\ Linking(w, h) # {}
               /\ \A g \in Linking(w, h) : g \in tree[w] /\ g.pod = h.pod /\ g.name = h.name

\* "Inject project prefix header ... so that headers that rely on globally-imported UIKit /
\* Foundation types ... resolve correctly" (sdk.rs:201-203): a server that includes the converted
\* prefix header includes its own project's, whatever servers other workspaces have.
\* Not kept: HeadersTwoWorkspaces.cfg has the counterexample.
PrefixHeaderIsOwn ==
  \A s \in Servers : Running(s) /\ server[s].include = "shared"
                       => \A text \in shared : text.ws = server[s].ws

\* "Only (re-)write if the file doesn't already exist -- it's stable content" (sdk.rs:256): a
\* server that includes the umbrella header finds all of it.
\* Not kept: HeadersTornUmbrella.cfg has the counterexample.
UmbrellaIsStable ==
  \A s \in Servers : Running(s) /\ server[s].include = "umbrella" => umbrella = "whole"

\* Links make "framework-style imports ... resolve against the project's own source tree"
\* (sdk.rs:508-510): where a start could make a link, the path of a header it found leads to a
\* header it found.
\* Not kept: HeadersMoved.cfg has the counterexample.
ImportsFollowHeaders ==
  \A s \in Servers : Running(s) /\ server[s].dirs = "links" =>
    \A h \in server[s].found :
      <<server[s].ws, h>> \notin unlinked => Linking(server[s].ws, h) \cap server[s].found # {}
=============================================================================
