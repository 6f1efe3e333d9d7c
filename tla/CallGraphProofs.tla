--------------------------- MODULE CallGraphProofs ---------------------------
(* Theorems about CallGraph, for every program and every set of items and files. *)
EXTENDS CallGraph, TLAPS

\* A request under way is about the root, or about a neighbour of it in its own direction.
PendingNearRoot ==
  \A r \in pending :
    /\ r.depth = 0 => r.item = cursor.item
    /\ r.depth = 1 /\ r.dir = "incoming" => <<r.item, cursor.item>> \in links
    /\ r.depth = 1 /\ r.dir = "outgoing" => <<cursor.item, r.item>> \in links

\* Nothing is drawn or asked before the collections begin, or asked once the panel is open.
NothingYet ==
  /\ view \in {"none", "preparing", "warned", "shown"} => pending = {}
  /\ view \in {"none", "preparing"} => links = {}

IInv == TypeOK /\ PendingNearRoot /\ NodesBelongToRoot /\ NothingYet

-----------------------------------------------------------------------------
(* What the server finds and the extension asks *)

\* The server answers with items of the workspace.
LEMMA FoundAreItems ==
  ASSUME calls \subseteq Items \X Items, NEW dir, NEW item
  PROVE  Found(dir, item) \subseteq Items
  BY SMT DEF Found, Callers, Callees

\* Only what was found is chosen.
LEMMA MergesChoose ==
  ASSUME NEW S, NEW T \in Merges(S)
  PROVE  T \subseteq S
  BY DEF Merges

\* A request is about one of the items, at the depth given, which is below the bound.
LEMMA RequestsAre ==
  ASSUME NEW dir \in Directions, NEW S, S \subseteq Items, NEW depth \in Nat
  PROVE  /\ Requests(dir, S, depth) \subseteq [dir : Directions, item : Items, depth : 0..(MaxDepth - 1)]
         /\ \A r \in Requests(dir, S, depth) :
              r.dir = dir /\ r.item \in S /\ r.depth = depth /\ depth < MaxDepth
  BY SMT DEF Requests, MaxDepth

-----------------------------------------------------------------------------
(* Steps *)

\* An answer that holds items of the workspace keeps the invariant. `kind` and `Link` are those
\* of the request's direction.
LEMMA AnswerKept ==
  ASSUME IInv, NEW r \in pending, NEW answer, answer \subseteq Items,
         CollectIncoming(r, answer) \/ CollectOutgoing(r, answer),
         undisturbed' \in BOOLEAN
  PROVE  IInv'
<1> USE DEF IInv
<1> DEFINE new == answer \ DOMAIN nodes
           kind == IF r.dir = "incoming" THEN "caller" ELSE "callee"
           Link(c) == IF r.dir = "incoming" THEN <<c, r.item>> ELSE <<r.item, c>>
<1>1. /\ r.dir \in Directions /\ r.item \in Items
      /\ r.depth \in 0..(MaxDepth - 1) /\ r.depth + 1 \in Nat
  BY SMT DEF TypeOK, MaxDepth
<1>2. /\ nodes' = [i \in DOMAIN nodes \cup answer |-> IF i \in DOMAIN nodes THEN nodes[i] ELSE kind]
      /\ links' = links \cup {Link(i) : i \in answer}
      /\ pending' = (pending \ {r}) \cup Requests(r.dir, new, r.depth + 1)
      /\ UNCHANGED <<calls, cached, view, cursor>>
  BY SMT DEF CollectIncoming, CollectOutgoing, Collect
<1>3. /\ Requests(r.dir, new, r.depth + 1)
           \subseteq [dir : Directions, item : Items, depth : 0..(MaxDepth - 1)]
      /\ \A q \in Requests(r.dir, new, r.depth + 1) :
           q.dir = r.dir /\ q.item \in new /\ q.depth = r.depth + 1 /\ q.depth < MaxDepth
  BY <1>1, RequestsAre
<1>4. \A i \in answer : Link(i) \in links' /\ Link(i) \in Items \X Items
  BY <1>1, <1>2
<1>5. links \subseteq links'
  BY <1>2
<1>6. TypeOK'
  <2>1. DOMAIN nodes' \subseteq Items
    BY <1>2 DEF TypeOK
  <2>2. \A i \in DOMAIN nodes' : nodes'[i] \in {"root", "caller", "callee"}
    BY <1>2 DEF TypeOK
  <2>3. links' \subseteq Items \X Items
    BY <1>2, <1>4 DEF TypeOK
  <2>4. pending' \subseteq [dir : Directions, item : Items, depth : 0..(MaxDepth - 1)]
    BY <1>2, <1>3 DEF TypeOK
  <2> QED
    BY <1>2, <2>1, <2>2, <2>3, <2>4 DEF TypeOK
<1>7. PendingNearRoot'
  <2> SUFFICES ASSUME NEW q \in pending'
               PROVE  /\ q.depth = 0 => q.item = cursor.item
                      /\ q.depth = 1 /\ q.dir = "incoming" => <<q.item, cursor.item>> \in links'
                      /\ q.depth = 1 /\ q.dir = "outgoing" => <<cursor.item, q.item>> \in links'
    BY <1>2 DEF PendingNearRoot
  <2>1. CASE q \in pending
    BY <2>1, <1>5 DEF PendingNearRoot
  <2>2. CASE q \in Requests(r.dir, new, r.depth + 1)
    <3>1. q.dir = r.dir /\ q.item \in new /\ q.depth = r.depth + 1
      BY <2>2, <1>3
    <3>2. q.depth # 0 /\ (q.depth = 1 => r.item = cursor.item)
      <4>1. r.depth \in {0, 1}
        BY <1>1, SMT DEF MaxDepth
      <4>2. r.depth = 0 => r.item = cursor.item
        BY DEF PendingNearRoot
      <4> HIDE DEF IInv
      <4> QED
        BY <3>1, <4>1, <4>2, SMT
    <3>3. Link(q.item) \in links'
      BY <3>1, <1>4
    <3> QED
      BY <3>1, <3>2, <3>3
  <2> QED
    BY <2>1, <2>2, <1>2
<1>8. NodesBelongToRoot'
  <2> SUFFICES ASSUME NEW i \in DOMAIN nodes'
               PROVE  /\ nodes'[i] = "root" => i = cursor.item
                      /\ nodes'[i] = "caller" => ReachesRoot(i)'
                      /\ nodes'[i] = "callee" => ReachedFromRoot(i)'
    BY <1>2 DEF NodesBelongToRoot
  <2>1. CASE i \in DOMAIN nodes
    BY <2>1, <1>2, <1>5 DEF NodesBelongToRoot, ReachesRoot, ReachedFromRoot
  <2>2. CASE i \in new
    <3>1. nodes'[i] = kind /\ Link(i) \in links'
      BY <2>2, <1>2, <1>4
    <3>2. r.depth = 0 \/ r.depth = 1
      BY <1>1, SMT DEF MaxDepth
    <3>3. \/ r.item = cursor.item
          \/ r.dir = "incoming" /\ <<r.item, cursor.item>> \in links'
          \/ r.dir = "outgoing" /\ <<cursor.item, r.item>> \in links'
      BY <3>2, <1>1, <1>5 DEF PendingNearRoot, Directions
    <3> QED
      BY <3>1, <3>3, <1>1, <1>2 DEF ReachesRoot, ReachedFromRoot, Directions
  <2> QED
    BY <2>1, <2>2, <1>2
<1>9. NothingYet'
  BY <1>2 DEF NothingYet, TypeOK
<1> QED
  BY <1>6, <1>7, <1>8, <1>9

\* The invariant holds at the start and every step keeps it.
LEMMA Initially == Init => IInv
<1> SUFFICES ASSUME Init
             PROVE  IInv
  OBVIOUS
<1>1. /\ calls \subseteq Items \X Items
      /\ cached \subseteq Files
      /\ view = "none" /\ cursor \in [file : Files, item : Items]
      /\ links = {} /\ pending = {} /\ undisturbed = TRUE
  BY ProgramsCallItems DEF Init
<1>2. DOMAIN nodes = {}
  BY DEF Init
<1> QED
  BY <1>1, <1>2 DEF IInv, TypeOK, PendingNearRoot, NodesBelongToRoot, NothingYet

LEMMA Inductive == IInv /\ [Next]_vars => IInv'
<1> SUFFICES ASSUME IInv, [Next]_vars
             PROVE  IInv'
  OBVIOUS
<1>1. CASE ShowCallGraph
  BY <1>1 DEF ShowCallGraph, graph, IInv, TypeOK, PendingNearRoot, NodesBelongToRoot,
              ReachesRoot, ReachedFromRoot, NothingYet
<1>2. CASE Prepared
  <2>1. /\ cursor.item \in Items /\ cursor' = cursor
        /\ nodes' = [i \in {cursor.item} |-> "root"]
        /\ pending' = UNION {Requests(dir, {cursor.item}, 0) : dir \in Directions}
        /\ UNCHANGED <<calls, cached, links, undisturbed>> /\ view' = "collecting"
    BY <1>2 DEF Prepared, IInv, TypeOK
  <2>2. \A dir \in Directions :
          /\ Requests(dir, {cursor.item}, 0)
               \subseteq [dir : Directions, item : Items, depth : 0..(MaxDepth - 1)]
          /\ \A q \in Requests(dir, {cursor.item}, 0) : q.item = cursor.item /\ q.depth = 0
    BY <2>1, RequestsAre
  <2>3. \A q \in pending' :
          /\ q \in [dir : Directions, item : Items, depth : 0..(MaxDepth - 1)]
          /\ q.item = cursor.item /\ q.depth = 0
    BY <2>1, <2>2
  <2>4. DOMAIN nodes' = {cursor.item} /\ nodes'[cursor.item] = "root"
    BY <2>1
  <2>5. TypeOK'
    BY <2>1, <2>3, <2>4 DEF IInv, TypeOK
  <2>6. PendingNearRoot'
    <3> SUFFICES ASSUME NEW q \in pending'
                 PROVE  /\ q.depth = 0 => q.item = cursor'.item
                        /\ q.depth # 1
      BY DEF PendingNearRoot
    <3>1. q.item = cursor.item /\ q.depth = 0
      BY <2>3
    <3>2. cursor' = cursor
      BY <2>1
    <3> QED
      BY <3>1, <3>2, SMT
  <2>7. NodesBelongToRoot'
    BY <2>1, <2>4 DEF NodesBelongToRoot
  <2>8. NothingYet'
    BY <2>1 DEF NothingYet
  <2> QED
    BY <2>5, <2>6, <2>7, <2>8 DEF IInv
<1>3. CASE NothingPrepared
  BY <1>3 DEF NothingPrepared, graph, IInv, TypeOK, PendingNearRoot, NodesBelongToRoot,
              ReachesRoot, ReachedFromRoot, NothingYet
<1>4. CASE Answered
  <2>1. PICK r \in pending :
          \E answer \in Merges(Found(r.dir, r.item)) :
             CollectIncoming(r, answer) \/ CollectOutgoing(r, answer)
    BY <1>4 DEF Answered
  <2>2. PICK answer \in Merges(Found(r.dir, r.item)) :
          CollectIncoming(r, answer) \/ CollectOutgoing(r, answer)
    BY <2>1
  <2>3. answer \subseteq Items
    BY FoundAreItems, MergesChoose DEF IInv, TypeOK
  <2>4. undisturbed' \in BOOLEAN
    BY <1>4 DEF Answered, IInv, TypeOK
  <2> QED
    BY <2>2, <2>3, <2>4, AnswerKept
<1>5. CASE AnswerLost
  <2>1. PICK r \in pending : CollectIncoming(r, {}) \/ CollectOutgoing(r, {})
    BY <1>5 DEF AnswerLost
  <2>2. undisturbed' \in BOOLEAN
    BY <1>5 DEF AnswerLost
  <2>3. {} \subseteq Items
    OBVIOUS
  <2> QED
    BY <2>1, <2>2, <2>3, AnswerKept
<1>6. CASE ShowPanel
  BY <1>6 DEF ShowPanel, graph, IInv, TypeOK, PendingNearRoot, NodesBelongToRoot,
              ReachesRoot, ReachedFromRoot, NothingYet
<1>7. CASE UnitsChange
  BY <1>7 DEF UnitsChange, graph, IInv, TypeOK, PendingNearRoot, NodesBelongToRoot,
              ReachesRoot, ReachedFromRoot, NothingYet
<1>8. CASE UNCHANGED vars
  BY <1>8 DEF vars, IInv, TypeOK, PendingNearRoot, NodesBelongToRoot,
              ReachesRoot, ReachedFromRoot, NothingYet
<1> QED
  BY <1>1, <1>2, <1>3, <1>4, <1>5, <1>6, <1>7, <1>8 DEF Next, Extension

-----------------------------------------------------------------------------
(* Theorems *)

\* Type correctness of the call graph: a request is about an item of the workspace, and its depth
\* stays below the bound however the calls run in circles (callgraph.ts:129, 171).
THEOREM TypeCorrect == Spec => []TypeOK
<1>1. IInv => TypeOK
  BY DEF IInv
<1> QED
  BY <1>1, Initially, Inductive, PTL DEF Spec

\* Every caller drawn reaches the symbol asked about in at most two links, and every callee is
\* reached from it, in whatever order the answers come (callgraph.ts:122-204).
THEOREM GraphBelongsToRoot == Spec => []NodesBelongToRoot
<1>1. IInv => NodesBelongToRoot
  BY DEF IInv
<1> QED
  BY <1>1, Initially, Inductive, PTL DEF Spec

-----------------------------------------------------------------------------
(* The graph is the neighbourhood of the root *)

\* One and two calls away from the root, and what lies within two.
Near(dir) == Found(dir, cursor.item)
Far(dir) == UNION {Found(dir, i) : i \in Near(dir)}
Within(dir) == {cursor.item} \cup Near(dir) \cup Far(dir)

\* The link drawn for an answer c to a request about i.
Link(dir, i, c) == IF dir = "incoming" THEN <<c, i>> ELSE <<i, c>>
LinksOf(dir) ==
  UNION {{Link(dir, i, c) : c \in Found(dir, i)} : i \in {cursor.item} \cup Near(dir)}

\* No two items share a key, and none but the root is on both sides of it.
Unmixed ==
  /\ \A i, j \in Within("incoming") \cup Within("outgoing") : SameKey(i, j) => i = j
  /\ Within("incoming") \cap Within("outgoing") = {cursor.item}

\* The answer to a request about the item has been entered.
Explored(dir, i) == \A c \in Found(dir, i) : c \in DOMAIN nodes /\ Link(dir, i, c) \in links

First(dir) == [dir |-> dir, item |-> cursor.item, depth |-> 0]

\* A direction is at its first request, and nothing of it is in the map but the root; or that
\* one is answered, and every neighbour is asked about, or answered as well.
Unasked(dir) ==
  /\ First(dir) \in pending
  /\ DOMAIN nodes \cap Within(dir) = {cursor.item}
  /\ \A r \in pending : r.dir = dir => r = First(dir)

Asked(dir) ==
  /\ Explored(dir, cursor.item)
  /\ \A i \in Near(dir) :
       \/ i = cursor.item \/ Explored(dir, i)
       \/ [dir |-> dir, item |-> i, depth |-> 1] \in pending
  /\ \A r \in pending : r.dir = dir => r.depth = 1 /\ r.item \in Near(dir)

\* Nothing is drawn but what is within two calls.
OnlyWithin ==
  /\ cursor.item \in DOMAIN nodes
  /\ DOMAIN nodes \subseteq Within("incoming") \cup Within("outgoing")
  /\ links \subseteq LinksOf("incoming") \cup LinksOf("outgoing")

Following == undisturbed /\ view \in {"collecting", "shown"} /\ Unmixed

GInv ==
  /\ TypeOK
  /\ Following => OnlyWithin /\ \A dir \in Directions : Unasked(dir) \/ Asked(dir)

\* The levels of the reference definition.
LEMMA Levels ==
  ASSUME NEW dir
  PROVE  /\ UpTo(dir, MaxDepth) = Within(dir)
         /\ UpTo(dir, MaxDepth - 1) = {cursor.item} \cup Near(dir)
<1> DEFINE Step(f) == [k \in 0..MaxDepth |->
                         IF k = 0 THEN {cursor.item} ELSE UNION {Found(dir, i) : i \in f[k - 1]}]
           levels == [k \in 0..MaxDepth |->
                        IF k = 0 THEN {cursor.item} ELSE IF k = 1 THEN Near(dir) ELSE Far(dir)]
           l == CHOOSE f : f = Step(f)
<1>1. 0..MaxDepth = {0, 1, 2} /\ 0..(MaxDepth - 1) = {0, 1} /\ 1 - 1 = 0 /\ 2 - 1 = 1
  BY SMT DEF MaxDepth
<1>2. levels = Step(levels)
  <2> SUFFICES ASSUME NEW k \in {0, 1, 2}
               PROVE  levels[k] = IF k = 0 THEN {cursor.item}
                                  ELSE UNION {Found(dir, i) : i \in levels[k - 1]}
    BY <1>1
  <2>1. CASE k = 0
    BY <1>1, <2>1
  <2>2. CASE k = 1
    <3>1. levels[0] = {cursor.item} /\ levels[1] = Near(dir)
      BY <1>1
    <3>2. UNION {Found(dir, i) : i \in {cursor.item}} = Near(dir)
      BY DEF Near
    <3> HIDE DEF levels
    <3> QED
      BY <1>1, <2>2, <3>1, <3>2
  <2>3. CASE k = 2
    <3>1. levels[1] = Near(dir) /\ levels[2] = Far(dir)
      BY <1>1
    <3> HIDE DEF levels
    <3> QED
      BY <1>1, <2>3, <3>1 DEF Far
  <2> QED
    BY <2>1, <2>2, <2>3
<1>3. l = Step(l)
  <2> HIDE DEF Step, levels
  <2> QED
    BY <1>2
<1>4. l[0] = {cursor.item} /\ l[1] = Near(dir) /\ l[2] = Far(dir)
  <2>1. \A k \in {0, 1, 2} : l[k] = IF k = 0 THEN {cursor.item}
                                    ELSE UNION {Found(dir, i) : i \in l[k - 1]}
    <3>1. \A f : \A k \in {0, 1, 2} : Step(f)[k] = IF k = 0 THEN {cursor.item}
                                    ELSE UNION {Found(dir, i) : i \in f[k - 1]}
      BY <1>1
    <3> HIDE DEF Step, l
    <3> QED
      BY <1>3, <3>1
  <2> HIDE DEF l
  <2>2. l[0] = {cursor.item}
    BY <2>1
  <2>3. l[1] = Near(dir)
    <3>1. l[1] = UNION {Found(dir, i) : i \in l[0]}
      BY <1>1, <2>1
    <3> QED
      BY <2>2, <3>1 DEF Near
  <2>4. l[2] = Far(dir)
    <3>1. l[2] = UNION {Found(dir, i) : i \in l[1]}
      BY <1>1, <2>1
    <3> QED
      BY <2>3, <3>1 DEF Far
  <2> QED
    BY <2>2, <2>3, <2>4
<1>5. Level(dir) = l
  BY SMT DEF Level
<1> HIDE DEF l, levels, Step
<1>6. UpTo(dir, MaxDepth) = UNION {l[j] : j \in {0, 1, 2}}
  BY <1>1, <1>5 DEF UpTo
<1>7. UpTo(dir, MaxDepth - 1) = UNION {l[j] : j \in {0, 1}}
  BY <1>1, <1>5 DEF UpTo
<1> QED
  BY <1>4, <1>6, <1>7 DEF Within

\* When keys are unique the answer holds all that was found.
LEMMA MergesAll ==
  ASSUME NEW S, \A i, j \in S : SameKey(i, j) => i = j, NEW T \in Merges(S)
  PROVE  T = S
BY DEF Merges

\* The program, the units and the cursor stay, so what is within two calls does.
LEMMA WithinStays ==
  ASSUME UNCHANGED <<calls, cached, cursor>>
  PROVE  /\ \A dir, i : Found(dir, i)' = Found(dir, i)
         /\ \A dir : Near(dir)' = Near(dir) /\ Within(dir)' = Within(dir)
         /\ \A dir : LinksOf(dir)' = LinksOf(dir) /\ First(dir)' = First(dir)
         /\ Unmixed' = Unmixed
<1>1. \A dir, i : Found(dir, i)' = Found(dir, i)
  BY DEF Found, Callers, Callees, Walked
<1>2. \A dir : Near(dir)' = Near(dir)
  BY <1>1 DEF Near
<1>3. \A dir : Far(dir)' = Far(dir)
  BY <1>1, <1>2 DEF Far
<1>4. \A dir : Within(dir)' = Within(dir)
  BY <1>2, <1>3 DEF Within
<1>5. \A dir : LinksOf(dir)' = LinksOf(dir)
  BY <1>1, <1>2 DEF LinksOf, Link
<1> QED
  BY <1>1, <1>2, <1>4, <1>5 DEF First, Unmixed

\* An answer to a request of a direction, entered while nothing disturbed it, keeps what the graph
\* holds: the first answer of a direction meets none of its own items, so all are asked about.
LEMMA AnswerFollows ==
  ASSUME GInv, Following, NEW r \in pending,
         CollectIncoming(r, Found(r.dir, r.item)) \/ CollectOutgoing(r, Found(r.dir, r.item))
  PROVE  OnlyWithin' /\ \A dir \in Directions : (Unasked(dir) \/ Asked(dir))'
<1> DEFINE d == r.dir
           answer == Found(d, r.item)
           new == answer \ DOMAIN nodes
           asked == Requests(d, new, r.depth + 1)
<1>1. r.dir \in Directions /\ r.depth \in {0, 1} /\ Directions = {"incoming", "outgoing"}
  BY SMT DEF GInv, TypeOK, MaxDepth, Directions
<1>2. /\ DOMAIN nodes' = DOMAIN nodes \cup answer
      /\ links' = links \cup {Link(d, r.item, c) : c \in answer}
      /\ pending' = (pending \ {r}) \cup asked
      /\ UNCHANGED <<calls, cached, cursor>>
  BY <1>1, SMT DEF CollectIncoming, CollectOutgoing, Collect, Link
<1> HIDE DEF asked
<1>3. /\ \A dir, i : Found(dir, i)' = Found(dir, i)
      /\ \A dir : Near(dir)' = Near(dir) /\ Within(dir)' = Within(dir)
      /\ \A dir : LinksOf(dir)' = LinksOf(dir) /\ First(dir)' = First(dir)
  BY <1>2, WithinStays
<1>4. OnlyWithin /\ \A dir \in Directions : Unasked(dir) \/ Asked(dir)
  BY DEF GInv
<1>5. /\ Within("incoming") \cap Within("outgoing") = {cursor.item}
      /\ \A dir : cursor.item \in Within(dir)
  BY DEF Following, Unmixed, Within
<1>6. \/ Unasked(d) /\ r = First(d) /\ r.item = cursor.item /\ r.depth = 0 /\ answer = Near(d)
      \/ Asked(d) /\ r.depth = 1 /\ r.item \in Near(d) /\ answer \subseteq Far(d)
  <2>1. CASE Unasked(d)
    <3>1. r = First(d)
      BY <2>1 DEF Unasked
    <3> QED
      BY <2>1, <3>1 DEF First, Near
  <2>2. CASE Asked(d)
    <3>1. r.depth = 1 /\ r.item \in Near(d)
      BY <2>2 DEF Asked
    <3> QED
      BY <2>2, <3>1 DEF Far
  <2> QED
    BY <1>1, <1>4, <2>1, <2>2
<1>7. answer \subseteq Within(d)
  BY <1>6 DEF Within
<1>8. OnlyWithin'
  <2>1. cursor'.item \in DOMAIN nodes'
    BY <1>2, <1>4 DEF OnlyWithin
  <2>2. DOMAIN nodes' \subseteq Within("incoming") \cup Within("outgoing")
    BY <1>1, <1>2, <1>4, <1>7 DEF OnlyWithin
  <2>3. links' \subseteq LinksOf("incoming") \cup LinksOf("outgoing")
    <3>1. {Link(d, r.item, c) : c \in answer} \subseteq LinksOf(d)
      BY <1>6 DEF LinksOf
    <3> QED
      BY <1>1, <1>2, <1>4, <3>1 DEF OnlyWithin
  <2> QED
    BY <1>3, <2>1, <2>2, <2>3 DEF OnlyWithin
<1>9. /\ \A dir, i : Explored(dir, i) => Explored(dir, i)'
      /\ Explored(d, r.item)'
  BY <1>2, <1>3 DEF Explored
<1>10. \A q \in asked : /\ q = [dir |-> d, item |-> q.item, depth |-> 1]
                        /\ r.depth = 0 /\ q.item \in new
  BY <1>1, SMT DEF asked, Requests, MaxDepth
<1>11. ASSUME r.depth = 0, NEW i \in new PROVE [dir |-> d, item |-> i, depth |-> 1] \in asked
  BY <1>11, SMT DEF asked, Requests, MaxDepth
<1>12. Asked(d)'
  <2>1. CASE Unasked(d) /\ r = First(d) /\ r.item = cursor.item /\ r.depth = 0 /\ answer = Near(d)
    <3>1. new = Near(d) \ {cursor.item}
      BY <2>1, <1>7 DEF Unasked
    <3>2. \A i \in Near(d) : i = cursor.item \/ [dir |-> d, item |-> i, depth |-> 1] \in pending'
      BY <1>2, <1>11, <2>1, <3>1
    <3>3. \A q \in pending' : q.dir = d => q.depth = 1 /\ q.item \in Near(d)
      <4>1. \A q \in pending \ {r} : q.dir # d
        BY <2>1 DEF Unasked
      <4>2. \A q \in asked : q.depth = 1 /\ q.item \in Near(d)
        BY <1>10, <3>1
      <4> QED
        BY <1>2, <4>1, <4>2
    <3> QED
      BY <1>2, <1>3, <1>9, <2>1, <3>2, <3>3 DEF Asked
  <2>2. CASE Asked(d) /\ r.depth = 1 /\ r.item \in Near(d) /\ answer \subseteq Far(d)
    <3>1. pending' = pending \ {r}
      BY <1>2, <1>10, <2>2
    <3>2. r = [dir |-> d, item |-> r.item, depth |-> 1]
      BY <2>2 DEF GInv, TypeOK
    <3>3. \A i \in Near(d) :
            \/ i = cursor.item \/ Explored(d, i)'
            \/ [dir |-> d, item |-> i, depth |-> 1] \in pending'
      <4> SUFFICES ASSUME NEW i \in Near(d)
                   PROVE  \/ i = cursor.item \/ Explored(d, i)'
                          \/ [dir |-> d, item |-> i, depth |-> 1] \in pending'
        OBVIOUS
      <4>1. CASE i = r.item
        BY <1>9, <4>1
      <4>2. CASE i # r.item
        <5>1. \/ i = cursor.item \/ Explored(d, i)
              \/ [dir |-> d, item |-> i, depth |-> 1] \in pending
          BY <2>2 DEF Asked
        <5>2. [dir |-> d, item |-> i, depth |-> 1] # r
          BY <4>2
        <5> QED
          BY <1>9, <3>1, <5>1, <5>2
      <4> QED
        BY <4>1, <4>2
    <3>4. \A q \in pending' : q.dir = d => q.depth = 1 /\ q.item \in Near(d)
      BY <2>2, <3>1 DEF Asked
    <3>5. Explored(d, cursor.item)'
      BY <1>2, <1>9, <2>2 DEF Asked
    <3> QED
      BY <1>2, <1>3, <3>3, <3>4, <3>5 DEF Asked
  <2> QED
    BY <1>6, <2>1, <2>2
<1>13. ASSUME NEW dir \in Directions, dir # d PROVE (Unasked(dir) \/ Asked(dir))'
  <2>1. \A q : q.dir = dir => (q \in pending' <=> q \in pending)
    <3>1. \A q \in asked : q.dir = d
      BY <1>10
    <3> QED
      BY <1>2, <1>13, <3>1
  <2>2. CASE Unasked(dir)
    <3>1. First(dir) \in pending'
      BY <2>1, <2>2 DEF Unasked, First
    <3>2. answer \cap Within(dir) \subseteq {cursor.item}
      BY <1>1, <1>5, <1>7, <1>13
    <3>3. DOMAIN nodes' \cap Within(dir) = {cursor.item}
      BY <1>2, <2>2, <3>2 DEF Unasked
    <3> QED
      BY <1>2, <1>3, <2>1, <2>2, <3>1, <3>3 DEF Unasked
  <2>3. CASE Asked(dir)
    <3>1. \A i \in Near(dir) :
            \/ i = cursor.item \/ Explored(dir, i)'
            \/ [dir |-> dir, item |-> i, depth |-> 1] \in pending'
      BY <1>9, <2>1, <2>3 DEF Asked
    <3>2. \A q \in pending' : q.dir = dir => q.depth = 1 /\ q.item \in Near(dir)
      BY <2>1, <2>3 DEF Asked
    <3> QED
      BY <1>2, <1>3, <1>9, <2>3, <3>1, <3>2 DEF Asked
  <2> QED
    BY <1>4, <2>2, <2>3
<1> QED
  BY <1>8, <1>12, <1>13

\* Nothing is followed before the command runs; it begins with one request a direction.
LEMMA GInductive == GInv /\ IInv /\ [Next]_vars => GInv'
<1> SUFFICES ASSUME GInv, IInv, [Next]_vars PROVE GInv'
  OBVIOUS
<1>1. TypeOK'
  BY Inductive DEF IInv
<1> SUFFICES ASSUME Following'
             PROVE  OnlyWithin' /\ \A dir \in Directions : (Unasked(dir) \/ Asked(dir))'
  BY <1>1 DEF GInv
<1>2. CASE Prepared
  <2>1. /\ nodes' = [i \in {cursor.item} |-> "root"] /\ UNCHANGED <<calls, cached, cursor, links>>
        /\ pending' = UNION {Requests(dir, {cursor.item}, 0) : dir \in Directions}
    BY <1>2 DEF Prepared
  <2>2. pending' = {First(dir) : dir \in Directions}
    <3>1. \A dir : Requests(dir, {cursor.item}, 0) = {First(dir)}
      BY SMT DEF Requests, MaxDepth, First
    <3> QED
      BY <2>1, <3>1
  <2>3. DOMAIN nodes' = {cursor.item} /\ links = {}
    BY <1>2, <2>1 DEF IInv, NothingYet, Prepared
  <2>4. \A dir : cursor.item \in Within(dir) /\ Within(dir)' = Within(dir) /\ First(dir)' = First(dir)
    BY <2>1, WithinStays DEF Within
  <2>5. \A dir, other : First(dir) = First(other) => dir = other
    BY DEF First
  <2>6. \A dir : First(dir).dir = dir
    BY DEF First
  <2>7. OnlyWithin'
    BY <2>1, <2>3, <2>4 DEF OnlyWithin
  <2>8. ASSUME NEW dir \in Directions PROVE Unasked(dir)'
    BY <2>1, <2>2, <2>3, <2>4, <2>6 DEF Unasked
  <2> QED
    BY <2>7, <2>8
<1>3. CASE Answered
  <2>1. PICK r \in pending :
          \E answer \in Merges(Found(r.dir, r.item)) :
             CollectIncoming(r, answer) \/ CollectOutgoing(r, answer)
    BY <1>3 DEF Answered
  <2>2. PICK answer \in Merges(Found(r.dir, r.item)) :
          CollectIncoming(r, answer) \/ CollectOutgoing(r, answer)
    BY <2>1
  <2>3. UNCHANGED <<calls, cached, view, cursor, undisturbed>>
    BY <1>3, <2>2 DEF Answered, CollectIncoming, CollectOutgoing, Collect
  <2>4. Following
    BY <2>3, WithinStays DEF Following
  <2>5. Found(r.dir, r.item) \subseteq Within(r.dir) /\ r.dir \in Directions
    <3>1. r.dir \in Directions /\ (Unasked(r.dir) \/ Asked(r.dir))
      BY <2>4 DEF GInv, TypeOK
    <3>2. r.item = cursor.item \/ r.item \in Near(r.dir)
      BY <3>1 DEF Unasked, Asked, First
    <3> QED
      BY <3>1, <3>2 DEF Within, Near, Far
  <2>6. answer = Found(r.dir, r.item)
    <3>1. \A i, j \in Found(r.dir, r.item) : SameKey(i, j) => i = j
      BY <2>4, <2>5 DEF Following, Unmixed, Directions
    <3> QED
      BY <3>1, MergesAll
  <2> QED
    BY <2>2, <2>4, <2>6, AnswerFollows
<1>4. CASE AnswerLost \/ UnitsChange \/ ShowCallGraph \/ NothingPrepared
  BY <1>4 DEF AnswerLost, UnitsChange, ShowCallGraph, NothingPrepared, Following
<1>5. CASE ShowPanel \/ UNCHANGED vars
  <2>1. UNCHANGED <<calls, cached, cursor, nodes, links, pending, undisturbed>>
    BY <1>5 DEF ShowPanel, vars, graph
  <2>2. Following /\ \A dir, i : Found(dir, i)' = Found(dir, i)
    BY <1>5, <2>1, WithinStays DEF Following, ShowPanel, vars
  <2>3. OnlyWithin'
    BY <2>1, <2>2, WithinStays DEF GInv, OnlyWithin
  <2>4. \A dir \in Directions : Unasked(dir)' = Unasked(dir) /\ Asked(dir)' = Asked(dir)
    BY <2>1, <2>2, WithinStays DEF Unasked, Asked, Explored
  <2> QED
    BY <2>2, <2>3, <2>4 DEF GInv
<1> QED
  BY <1>2, <1>3, <1>4, <1>5 DEF Next, Extension

-----------------------------------------------------------------------------
(* Its theorem *)

\* When the panel opens nothing is pending, so every item within a call of the root is explored.
LEMMA ShownIsWhole ==
  ASSUME GInv, IInv
  PROVE  GraphIsNeighbourhood
<1> DEFINE up == UpTo("incoming", MaxDepth)
           down == UpTo("outgoing", MaxDepth)
           into(items) == UNION {{<<c, i>> : c \in Found("incoming", i)} : i \in items}
           from(items) == UNION {{<<i, c>> : c \in Found("outgoing", i)} : i \in items}
           drawn == into(UpTo("incoming", MaxDepth - 1)) \cup from(UpTo("outgoing", MaxDepth - 1))
<1>1. SUFFICES ASSUME view = "shown", undisturbed,
                      \A i, j \in up \cup down : SameKey(i, j) => i = j,
                      up \cap down = {cursor.item}
               PROVE  DOMAIN nodes = up \cup down /\ links = drawn
  BY DEF GraphIsNeighbourhood
<1>2. up = Within("incoming") /\ down = Within("outgoing")
  BY Levels
<1>3. drawn = LinksOf("incoming") \cup LinksOf("outgoing")
  <2>1. /\ UpTo("incoming", MaxDepth - 1) = {cursor.item} \cup Near("incoming")
        /\ UpTo("outgoing", MaxDepth - 1) = {cursor.item} \cup Near("outgoing")
    BY Levels
  <2>2. LinksOf("incoming") = into({cursor.item} \cup Near("incoming"))
    BY DEF LinksOf, Link
  <2>3. LinksOf("outgoing") = from({cursor.item} \cup Near("outgoing"))
    BY DEF LinksOf, Link
  <2> HIDE DEF into, from
  <2> QED
    BY <2>1, <2>2, <2>3
<1> HIDE DEF up, down, drawn
<1>4. Following
  BY <1>1, <1>2 DEF Following, Unmixed
<1>5. pending = {}
  BY <1>1 DEF IInv, NothingYet
<1>6. \A dir \in Directions : Asked(dir)
  BY <1>4, <1>5 DEF GInv, Unasked
<1>7. \A dir \in Directions : \A i \in {cursor.item} \cup Near(dir) : Explored(dir, i)
  BY <1>5, <1>6 DEF Asked
<1>8. \A dir \in Directions : Within(dir) \subseteq DOMAIN nodes
  <2>1. cursor.item \in DOMAIN nodes
    BY <1>4 DEF GInv, OnlyWithin
  <2> QED
    BY <1>7, <2>1 DEF Explored, Within, Near, Far
<1>9. \A dir \in Directions : LinksOf(dir) \subseteq links
  BY <1>7 DEF Explored, LinksOf
<1> QED
  BY <1>2, <1>3, <1>4, <1>8, <1>9 DEF GInv, OnlyWithin, Directions

\* Whatever the program, the open panel shows the calls up to two levels in both directions and
\* nothing else, in whatever order the answers came, if none was lost, no unit came or went, no
\* two items share a key and none but the root is both a caller and a callee.
THEOREM GraphIsWhole == Spec => []GraphIsNeighbourhood
<1>1. Init => GInv
  BY Initially DEF Init, GInv, Following, IInv
<1> QED
  BY <1>1, Initially, Inductive, GInductive, ShownIsWhole, PTL DEF Spec
=============================================================================
