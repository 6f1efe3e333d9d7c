------------------------------ MODULE CallGraph ------------------------------
(***************************************************************************)
(* The call graph of the VS Code extension (callgraph.ts) over the call    *)
(* hierarchy of the server (call_hierarchy.rs).  The extension asks for    *)
(* callers and callees of every function it meets, all requests at once;   *)
(* their answers come in any order and each extends one shared map.        *)
(*                                                                         *)
(* A program is a set of calls: pairs of the item (function or method)     *)
(* whose body holds the call and the item it refers to.  An item has a     *)
(* name and a file; two items may have both in common (methods of two      *)
(* classes).  One run of the command is followed: two have nothing in      *)
(* common.                                                                 *)
(***************************************************************************)
EXTENDS Naturals

CONSTANTS
  Items,     \* callables of the workspace: [name, file, at]
  Files,
  Includes,  \* pairs of a file and a header that its translation unit holds too
  Programs   \* the sets of calls to consider

ASSUME ProgramsCallItems == Programs \subseteq SUBSET (Items \X Items)

VARIABLES
  calls,        \* the program: which item calls which
  cached,       \* files that have a translation unit in the server's index
  view,         \* how far showCallGraph is
  cursor,       \* the file of the editor, and the item under its cursor
  nodes,        \* map of the items found to "root", "caller" or "callee"
  links,        \* pairs <<source, target>>
  pending,      \* calls of collectIncoming and collectOutgoing at their await
  undisturbed   \* history: no answer was lost and no unit came or went since the command

graph == <<nodes, links, pending>>
vars == <<calls, cached, view, cursor, nodes, links, pending, undisturbed>>

Directions == {"incoming", "outgoing"}
MaxDepth == 2

TypeOK ==
  /\ calls \subseteq Items \X Items
  /\ cached \subseteq Files
  /\ view \in {"none", "preparing", "collecting", "shown", "warned"}
  /\ cursor \in [file : Files, item : Items]
  /\ DOMAIN nodes \subseteq Items
  /\ \A i \in DOMAIN nodes : nodes[i] \in {"root", "caller", "callee"}
  /\ links \subseteq Items \X Items
  /\ pending \subseteq [dir : Directions, item : Items, depth : 0..(MaxDepth - 1)]
  /\ undisturbed \in BOOLEAN

-----------------------------------------------------------------------------
(* The server's answers *)

\* A unit is walked whole, with the bodies in the headers it includes.
Walked == cached \cup {f \in Files : \E g \in cached : <<g, f>> \in Includes}

\* Incoming calls are matched by name, in every cached unit.
Callers(item) ==
  {c[1] : c \in {d \in calls : d[1].file \in Walked /\ d[2].name = item.name}}

\* Outgoing calls are those in the body of the item itself, if its file has a unit of its own.
Callees(item) == {c[2] : c \in {d \in calls : d[1] = item /\ item.file \in cached}}

Found(dir, item) == IF dir = "incoming" THEN Callers(item) ELSE Callees(item)

SameKey(i, j) == i.name = j.name /\ i.file = j.file

\* The results are keyed by name and file and the first item met stands for all of a key; which
\* one that is depends on the order of the call sites.
Merges(items) ==
  {chosen \in SUBSET items :
     /\ \A i \in items : \E j \in chosen : SameKey(i, j)
     /\ \A i, j \in chosen : SameKey(i, j) => i = j}

-----------------------------------------------------------------------------
(* The extension *)

Init ==
  /\ calls \in Programs
  /\ cached \in SUBSET Files
  /\ view = "none"
  /\ cursor \in [file : Files, item : Items]
  /\ \/ cursor.item.file = cursor.file
     \/ \E c \in calls : c[1].file = cursor.file /\ c[2] = cursor.item
  /\ nodes = [i \in {} |-> "root"] /\ links = {} /\ pending = {}
  /\ undisturbed = TRUE

\* Mutant of Requests: the depth is compared before it counts, so one level more is followed.
RequestsTooDeep(dir, items, depth) ==
  IF depth > MaxDepth THEN {} ELSE {[dir |-> dir, item |-> i, depth |-> depth] : i \in items}

\* Mutant of Requests: the last level is never asked about.
RequestsTooShallow(dir, items, depth) ==
  IF depth + 1 >= MaxDepth
    THEN {} ELSE {[dir |-> dir, item |-> i, depth |-> depth] : i \in items}

Requests(dir, items, depth) ==
  IF depth >= MaxDepth THEN {} ELSE {[dir |-> dir, item |-> i, depth |-> depth] : i \in items}

\* showCallGraph up to its first await: the server is asked what is under the cursor.
ShowCallGraph ==
  /\ view = "none"
  /\ view' = "preparing"
  /\ UNCHANGED <<calls, cached, cursor, graph, undisturbed>>

\* The server finds the item under the cursor; both collections begin.
Prepared ==
  /\ view = "preparing"
  /\ cursor.file \in cached
  /\ view' = "collecting"
  /\ nodes' = [i \in {cursor.item} |-> "root"]
  /\ pending' = UNION {Requests(dir, {cursor.item}, 0) : dir \in Directions}
  /\ UNCHANGED <<calls, cached, cursor, links, undisturbed>>

\* It has no unit of the file, or fails.
NothingPrepared ==
  /\ view = "preparing"
  /\ view' = "warned"
  /\ UNCHANGED <<calls, cached, cursor, graph, undisturbed>>

\* Items that are new to the map are entered and asked about in their turn; every answer is linked.
Collect(r, answer, kind, drawn) ==
  LET new == answer \ DOMAIN nodes
  IN  /\ nodes' = [i \in DOMAIN nodes \cup answer |-> IF i \in DOMAIN nodes THEN nodes[i] ELSE kind]
      /\ links' = links \cup drawn
      /\ pending' = (pending \ {r}) \cup Requests(r.dir, new, r.depth + 1)
      /\ UNCHANGED <<calls, cached, view, cursor>>

\* Mutant of CollectIncoming: no callers are taken for no answer yet.
CollectIncomingRetries(r, callers) ==
  /\ r.dir = "incoming"
  /\ IF callers = {}
       THEN UNCHANGED <<calls, cached, view, cursor, graph>>
       ELSE Collect(r, callers, "caller", {<<c, r.item>> : c \in callers})

CollectIncoming(r, callers) ==
  r.dir = "incoming" /\ Collect(r, callers, "caller", {<<c, r.item>> : c \in callers})

CollectOutgoing(r, callees) ==
  r.dir = "outgoing" /\ Collect(r, callees, "callee", {<<r.item, c>> : c \in callees})

\* The answer of the server to one of the requests, in any order.
Answered ==
  \E r \in pending :
    /\ \E answer \in Merges(Found(r.dir, r.item)) :
         CollectIncoming(r, answer) \/ CollectOutgoing(r, answer)
    /\ UNCHANGED undisturbed

\* A query that fails is answered by an empty list, a stopped server by undefined.
AnswerLost ==
  \E r \in pending :
    /\ CollectIncoming(r, {}) \/ CollectOutgoing(r, {})
    /\ undisturbed' = FALSE

\* Promise.all resolves and the panel opens.
ShowPanel ==
  /\ view = "collecting" /\ pending = {}
  /\ view' = "shown"
  /\ UNCHANGED <<calls, cached, cursor, graph, undisturbed>>

\* The user opens or closes a file, so its unit comes or goes.
UnitsChange ==
  /\ \E f \in Files : cached' = IF f \in cached THEN cached \ {f} ELSE cached \cup {f}
  /\ undisturbed' = (undisturbed /\ view = "none")
  /\ UNCHANGED <<calls, view, cursor, graph>>

Extension ==
  \/ Prepared \/ NothingPrepared
  \/ Answered \/ AnswerLost
  \/ ShowPanel

Next == ShowCallGraph \/ Extension \/ UnitsChange

Spec == Init /\ [][Next]_vars

\* Every request is answered, by the server or by its client.
FairSpec == Spec /\ WF_vars(Extension)

-----------------------------------------------------------------------------
(* Properties *)

ReachesRoot(i) ==
  \/ <<i, cursor.item>> \in links
  \/ \E m \in Items : <<i, m>> \in links /\ <<m, cursor.item>> \in links

ReachedFromRoot(i) ==
  \/ <<cursor.item, i>> \in links
  \/ \E m \in Items : <<cursor.item, m>> \in links /\ <<m, i>> \in links

\* What is drawn belongs to the symbol asked about: a caller reaches the root, and a callee is
\* reached from it, along at most MaxDepth links (callgraph.ts:38), whatever the order of the
\* answers and although callers and callees share one map.
NodesBelongToRoot ==
  \A i \in DOMAIN nodes :
    /\ nodes[i] = "root" => i = cursor.item
    /\ nodes[i] = "caller" => ReachesRoot(i)
    /\ nodes[i] = "callee" => ReachedFromRoot(i)

Level(dir) ==
  LET level[k \in 0..MaxDepth] ==
        IF k = 0 THEN {cursor.item} ELSE UNION {Found(dir, i) : i \in level[k - 1]}
  IN  level

UpTo(dir, k) == UNION {Level(dir)[j] : j \in 0..k}

\* The panel shows all calls up to MaxDepth in both directions and nothing else ("Traverses both
\* incoming and outgoing calls", callgraph.ts:8), if the answers were and stayed right, no two
\* items share a key, and no item but the root is both a caller and a callee: such an item is
\* followed in the direction that is answered first, and not in the other.
GraphIsNeighbourhood ==
  LET up == UpTo("incoming", MaxDepth)
      down == UpTo("outgoing", MaxDepth)
  IN  /\ view = "shown" /\ undisturbed
      /\ \A i, j \in up \cup down : SameKey(i, j) => i = j
      /\ up \cap down = {cursor.item}
      => /\ DOMAIN nodes = up \cup down
         /\ links = (UNION {{<<c, i>> : c \in Found("incoming", i)} :
                              i \in UpTo("incoming", MaxDepth - 1)})
                    \cup
                    (UNION {{<<i, c>> : c \in Found("outgoing", i)} :
                              i \in UpTo("outgoing", MaxDepth - 1)})

\* The panel opens, or a warning does, even when functions call each other in a circle
\* (callgraph.ts:129, 171).
GraphOpens == view = "preparing" ~> view \in {"shown", "warned"}

\* "Traverses both incoming and outgoing calls" (callgraph.ts:6-8): the panel shows the callers of
\* everything on the way up and the callees of everything on the way down, if the answers were and
\* stayed right and no two items share a key; also of an item that is on both ways.
\* Not kept: CallGraphBothWays.cfg has the counterexample.
TraversesBoth ==
  LET up == UpTo("incoming", MaxDepth)
      down == UpTo("outgoing", MaxDepth)
  IN  view = "shown" /\ undisturbed /\ (\A i, j \in up \cup down : SameKey(i, j) => i = j)
      => /\ \A i \in UpTo("incoming", MaxDepth - 1) : \A c \in Found("incoming", i) : <<c, i>> \in links
         /\ \A i \in UpTo("outgoing", MaxDepth - 1) : \A c \in Found("outgoing", i) : <<i, c>> \in links
=============================================================================
