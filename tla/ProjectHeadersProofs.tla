------------------------ MODULE ProjectHeadersProofs ------------------------
(* Theorems about ProjectHeaders, for every set of servers and workspaces and every bound. *)
EXTENDS ProjectHeaders, TLAPS

Records == [pc : Steps, ws : Workspaces \cup {None}, found : SUBSET Headers, todo : SUBSET Headers,
            read : Texts \cup {None}, dirs : {"none", "Pods", "links"},
            include : {"none", "shared", "umbrella", "pch"}]

\* A server that is not off has a workspace.
OfWorkspaces == \A s \in Servers : ~At(s, "off") => server[s].ws \in Workspaces

Typed == TypeOK /\ OfWorkspaces

ServersTyped == server \in [Servers -> Records] /\ OfWorkspaces

-----------------------------------------------------------------------------
(* Types *)

LEMMA InitTyped == Init => Typed
<1> SUFFICES ASSUME Init PROVE Typed
  OBVIOUS
<1>1. Off \in Records
  BY DEF Off, Records, Steps
<1>2. 0 \in 0..MaxEdits /\ 0 \in 0..MaxStarts
  BY SMT, HeadersAssumption
<1>3. TypeOK
  BY <1>1, <1>2, HeadersAssumption DEF Init, TypeOK, Records
<1>4. OfWorkspaces
  BY DEF Init, OfWorkspaces, At, Off
<1> QED
  BY <1>3, <1>4 DEF Typed

\* A step of one server keeps the types of all.
LEMMA RecordKept ==
  ASSUME Typed, NEW s \in Servers, NEW r \in Records, server' = [server EXCEPT ![s] = r],
         r.pc # "off" => r.ws \in Workspaces
  PROVE  ServersTyped'
  BY DEF Typed, TypeOK, OfWorkspaces, ServersTyped, At, Records

\* A step that changes only how far a server is.
LEMMA GoesKept ==
  ASSUME Typed, NEW s \in Servers, NEW pc \in Steps, ~At(s, "off"), Goes(s, pc)
  PROVE  ServersTyped'
<1> DEFINE r == [server[s] EXCEPT !.pc = pc]
<1>1. server[s] \in Records
  BY DEF Typed, TypeOK, Records
<1>2. r \in Records /\ r.ws = server[s].ws
  BY <1>1 DEF Records
<1>3. server' = [server EXCEPT ![s] = r]
  BY DEF Goes, Typed, TypeOK
<1>4. server[s].ws \in Workspaces
  BY DEF Typed, OfWorkspaces
<1> QED
  BY <1>2, <1>3, <1>4, RecordKept

\* A start that ends with some kind of include.
LEMMA RunKept ==
  ASSUME Typed, NEW s \in Servers, NEW include \in {"none", "shared", "umbrella", "pch"},
         ~At(s, "off"), Run(s, include)
  PROVE  ServersTyped'
<1> DEFINE r == [server[s] EXCEPT !.pc = "running", !.include = include]
<1>1. server[s] \in Records
  BY DEF Typed, TypeOK, Records
<1>2. r \in Records /\ r.ws = server[s].ws
  BY <1>1 DEF Records, Steps
<1>3. server' = [server EXCEPT ![s] = r]
  BY DEF Run, Typed, TypeOK
<1>4. server[s].ws \in Workspaces
  BY DEF Typed, OfWorkspaces
<1> QED
  BY <1>2, <1>3, <1>4, RecordKept

\* The actions that change nothing but a server, its links or a history.
LEMMA StartTyped ==
  ASSUME Typed, NEW s \in Servers, NEW w \in Workspaces, Start(s, w)
  PROVE  Typed'
<1> DEFINE found == Collected(w)
           dirs == IF w \in pods THEN "Pods" ELSE IF found = {} THEN "none" ELSE "links"
           r == [pc |-> IF dirs = "links" THEN "linking" ELSE "prefix", ws |-> w,
                 found |-> IF dirs = "links" THEN found ELSE {},
                 todo |-> IF dirs = "links" THEN found ELSE {},
                 dirs |-> dirs, read |-> None, include |-> "none"]
<1>1. found \subseteq Headers
  BY DEF Collected, Typed, TypeOK
<1>2. dirs \in {"none", "Pods", "links"}
  OBVIOUS
<1> HIDE DEF found, dirs
<1>3. r \in Records /\ r.ws \in Workspaces
  BY <1>1, <1>2 DEF Records, Steps
<1>4. server' = [server EXCEPT ![s] = r]
  BY DEF Start, found, dirs
<1>5. ServersTyped'
  BY <1>3, <1>4, RecordKept
<1>6. starts' \in 0..MaxStarts
  BY SMT, HeadersAssumption DEF Start, Typed, TypeOK
<1> QED
  BY <1>5, <1>6 DEF Start, Typed, TypeOK, ServersTyped, Records, disk, temp, OfWorkspaces, At

LEMMA LinkTyped ==
  ASSUME Typed, NEW s \in Servers, Link(s) \/ LinkFails(s)
  PROVE  Typed'
<1>1. PICK h \in server[s].todo : server' = [server EXCEPT ![s].todo = @ \ {h}]
  BY DEF Link, LinkFails
<1> DEFINE r == [server[s] EXCEPT !.todo = server[s].todo \ {h}]
<1>2. server[s] \in Records /\ server[s].ws \in Workspaces
  BY DEF Typed, TypeOK, Records, OfWorkspaces, At, Link, LinkFails
<1>3. r \in Records /\ r.ws = server[s].ws
  BY <1>2 DEF Records
<1>4. server' = [server EXCEPT ![s] = r]
  BY <1>1 DEF Typed, TypeOK
<1>5. ServersTyped'
  BY <1>2, <1>3, <1>4, RecordKept
<1>6. server[s].todo \subseteq Headers
  BY <1>2 DEF Records
<1>7. CASE Link(s)
  <2>1. links' \in [Workspaces -> SUBSET Headers]
    BY <1>2, <1>6, <1>7 DEF Link, Typed, TypeOK
  <2> QED
    BY <1>5, <1>7, <2>1 DEF Link, Typed, TypeOK, ServersTyped, Records, disk, history, OfWorkspaces, At
<1>8. CASE LinkFails(s)
  <2>1. unlinked' \subseteq Workspaces \X Headers
    BY <1>2, <1>6, <1>8 DEF LinkFails, Typed, TypeOK
  <2> QED
    BY <1>5, <1>8, <2>1 DEF LinkFails, Typed, TypeOK, ServersTyped, Records, disk, temp, OfWorkspaces, At
<1> QED
  BY <1>7, <1>8

LEMMA PrefixTyped ==
  ASSUME Typed, NEW s \in Servers,
         Linked(s) \/ ReadPrefix(s) \/ PrefixUnreadable(s) \/ NoPrefix(s)
  PROVE  Typed'
<1>0. ~At(s, "off") /\ server[s] \in Records /\ server[s].ws \in Workspaces
  BY DEF Linked, ReadPrefix, PrefixUnreadable, NoPrefix, At, Typed, TypeOK, Records, OfWorkspaces
<1>1. CASE ReadPrefix(s)
  <2> DEFINE text == [ws |-> server[s].ws, version |-> pch[server[s].ws]]
             r == [server[s] EXCEPT !.pc = "create", !.read = text]
  <2>1. text \in Texts
    BY <1>0, <1>1 DEF ReadPrefix, Typed, TypeOK, Texts
  <2>2. r \in Records /\ r.ws = server[s].ws
    BY <1>0, <2>1 DEF Records, Steps, Writing
  <2>3. server' = [server EXCEPT ![s] = r]
    BY <1>1 DEF ReadPrefix, Typed, TypeOK
  <2>4. ServersTyped'
    BY <1>0, <2>2, <2>3, RecordKept
  <2>5. torn' \in BOOLEAN /\ writers' \subseteq Workspaces
    BY <1>0, <1>1 DEF ReadPrefix, Typed, TypeOK
  <2> QED
    BY <1>1, <2>4, <2>5 DEF ReadPrefix, Typed, TypeOK, ServersTyped, Records, disk, temp, OfWorkspaces, At
<1>2. CASE Linked(s) \/ PrefixUnreadable(s) \/ NoPrefix(s)
  <2>1. ServersTyped'
    BY <1>0, <1>2, GoesKept, RunKept DEF Linked, PrefixUnreadable, NoPrefix, Steps
  <2> QED
    BY <1>2, <2>1 DEF Linked, PrefixUnreadable, NoPrefix, Typed, TypeOK, ServersTyped, Records,
                      disk, temp, history, OfWorkspaces, At
<1> QED
  BY <1>1, <1>2

LEMMA SharedTyped ==
  ASSUME Typed, NEW s \in Servers, CreateShared(s) \/ WriteShared(s) \/ WriteSharedFails(s),
         At(s, "write") => server[s].read \in Texts /\ shared # None
  PROVE  Typed'
<1>0. ~At(s, "off")
  BY DEF CreateShared, WriteShared, WriteSharedFails, Writing, At
<1>1. ServersTyped'
  BY <1>0, GoesKept, RunKept DEF CreateShared, WriteShared, WriteSharedFails, Steps, Writing
<1>2. shared' = None \/ shared' \subseteq Texts
  BY DEF CreateShared, WriteShared, WriteSharedFails, Typed, TypeOK, temp
<1>3. torn' \in BOOLEAN
  BY DEF CreateShared, WriteShared, WriteSharedFails, Typed, TypeOK, history
<1> QED
  BY <1>1, <1>2, <1>3 DEF CreateShared, WriteShared, WriteSharedFails, Typed, TypeOK, ServersTyped,
                          Records, disk, temp, history, OfWorkspaces, At

LEMMA UmbrellaTyped ==
  ASSUME Typed, NEW s \in Servers,
         FindUmbrella(s) \/ CreateUmbrella(s) \/ FillUmbrella(s) \/ UmbrellaFails(s)
  PROVE  Typed'
<1>0. ~At(s, "off")
  BY DEF FindUmbrella, CreateUmbrella, FillUmbrella, UmbrellaFails, At
<1>1. ServersTyped'
  BY <1>0, GoesKept, RunKept DEF FindUmbrella, CreateUmbrella, FillUmbrella, UmbrellaFails, Steps
<1>2. torn' \in BOOLEAN
  BY DEF FindUmbrella, CreateUmbrella, FillUmbrella, UmbrellaFails, Typed, TypeOK, history
<1> QED
  BY <1>1, <1>2 DEF FindUmbrella, CreateUmbrella, FillUmbrella, UmbrellaFails, Typed, TypeOK,
                    ServersTyped, Records, disk, temp, history, OfWorkspaces, At

LEMMA OutsideTyped ==
  ASSUME Typed,
         \/ \E s \in Servers : End(s)
         \/ \E w \in Workspaces : EditPrefix(w) \/ MoveHeader(w) \/ PodInstall(w)
         \/ UNCHANGED vars
  PROVE  Typed'
<1>1. ASSUME NEW s \in Servers, End(s) PROVE Typed'
  <2>1. Off \in Records
    BY DEF Off, Records, Steps
  <2>2. ServersTyped'
    BY <1>1, <2>1, RecordKept DEF End, Off
  <2> QED
    BY <1>1, <2>2 DEF End, Typed, TypeOK, ServersTyped, Records, disk, temp, OfWorkspaces, At
<1>2. ASSUME NEW w \in Workspaces, EditPrefix(w) PROVE Typed'
  <2>1. pch' \in [Workspaces -> 0..MaxEdits \cup {None}]
    BY <1>2, SMT, HeadersAssumption DEF EditPrefix, Typed, TypeOK
  <2> QED
    BY <1>2, <2>1 DEF EditPrefix, Typed, TypeOK, temp, history, OfWorkspaces, At
<1>3. ASSUME NEW w \in Workspaces, MoveHeader(w) PROVE Typed'
  <2>1. tree' \in [Workspaces -> SUBSET Headers] /\ moved' \subseteq Workspaces \X Headers
    BY <1>3 DEF MoveHeader, Typed, TypeOK
  <2> QED
    BY <1>3, <2>1 DEF MoveHeader, Typed, TypeOK, temp, OfWorkspaces, At
<1>4. ASSUME NEW w \in Workspaces, PodInstall(w) PROVE Typed'
  BY <1>4 DEF PodInstall, Typed, TypeOK, temp, history, OfWorkspaces, At
<1>5. CASE UNCHANGED vars
  BY <1>5 DEF vars, Typed, TypeOK, OfWorkspaces, At
<1> QED
  BY <1>1, <1>2, <1>3, <1>4, <1>5

-----------------------------------------------------------------------------
(* The prefix header *)

\* A server that writes the shared header, or parses with it.
Reader(s) == server[s].pc \in Writing \/ (Running(s) /\ server[s].include = "shared")

\* What it read was a text of its workspace, which is no newer than the text is now.
ReadersKnown ==
  \A s \in Servers : Reader(s) =>
    /\ server[s].read \in Texts /\ server[s].read.ws = server[s].ws
    /\ server[s].ws \in writers
    /\ pch[server[s].ws] \in Nat /\ server[s].read.version <= pch[server[s].ws]

OneWriter ==
  ~torn => \A s, t \in Servers : server[s].pc \in Writing /\ server[t].pc \in Writing => s = t

\* The shared header is truncated while it is written, and one whole text otherwise.
SharedWhole ==
  /\ shared # None => \A text \in shared : text.ws \in writers
  /\ \A s \in Servers : Reader(s) /\ ~At(s, "create") => shared # None
  /\ ~torn => \A s \in Servers : At(s, "write") => shared = {}
  /\ ~torn /\ shared # None
       => (\E s \in Servers : At(s, "write")) \/ (\E text \in Texts : shared = {text})

\* What a server parses with was not written, and will not be, from a text older than it read.
NoOlder ==
  ~torn => \A s \in Servers : Running(s) /\ server[s].include = "shared" =>
    /\ \A text \in shared :
         text.ws = server[s].ws => text.version >= server[s].read.version
    /\ \A t \in Servers : server[t].pc \in Writing /\ server[t].ws = server[s].ws
         => server[t].read.version >= server[s].read.version

UmbrellaFilled ==
  /\ ~torn /\ umbrella = "empty" => \E s \in Servers : At(s, "fillUmbrella")
  /\ \A s \in Servers : Running(s) /\ server[s].include = "umbrella" => umbrella # "absent"

PrefixInv == ReadersKnown /\ OneWriter /\ SharedWhole /\ NoOlder /\ UmbrellaFilled

IInv == Typed /\ PrefixInv

\* The invariant is what the property needs.
LEMMA PrefixInvSuffices == IInv => OwnPrefixHeader
<1> SUFFICES ASSUME IInv, NEW s \in Servers, Running(s), Quiet, ~torn
             PROVE  /\ server[s].include = "shared" /\ writers = {server[s].ws}
                         => \E text \in Texts : /\ shared = {text}
                                                /\ text.ws = server[s].ws
                                                /\ text.version >= server[s].read.version
                    /\ server[s].include = "umbrella" => umbrella = "whole"
  BY DEF OwnPrefixHeader
<1>1. CASE server[s].include = "shared" /\ writers = {server[s].ws}
  <2>1. PICK text \in Texts : shared = {text}
    BY <1>1 DEF IInv, PrefixInv, SharedWhole, Reader, Running, At, Quiet, Writing
  <2>2. shared # None /\ text.ws = server[s].ws
    BY <1>1, <2>1 DEF IInv, PrefixInv, SharedWhole, Reader, Running, At
  <2>3. text.version >= server[s].read.version
    BY <1>1, <2>1, <2>2 DEF IInv, PrefixInv, NoOlder
  <2> QED
    BY <1>1, <2>1, <2>2, <2>3
<1>2. server[s].include = "umbrella" => umbrella = "whole"
  BY DEF IInv, PrefixInv, UmbrellaFilled, Typed, TypeOK, Quiet, At
<1> QED
  BY <1>1, <1>2

\* A server that neither writes nor parses with one of the two headers afterwards, nor breaks off
\* a write without a trace.
LEMMA Aside ==
  ASSUME IInv, NEW s \in Servers, \A t \in Servers \ {s} : server'[t] = server[t],
         server'[s].pc \notin Writing,
         ~(server'[s].pc = "running" /\ server'[s].include \in {"shared", "umbrella"}),
         UNCHANGED <<pch, shared, umbrella, writers>>,
         torn => torn', server[s].pc \in {"write", "fillUmbrella"} => torn'
  PROVE  PrefixInv'
<1>1. ReadersKnown'
  BY DEF IInv, PrefixInv, ReadersKnown, Reader, Running, At
<1>2. OneWriter'
  BY DEF IInv, PrefixInv, OneWriter
<1>3. SharedWhole'
  BY DEF IInv, PrefixInv, SharedWhole, Reader, Running, At, Writing
<1>4. NoOlder'
  BY DEF IInv, PrefixInv, NoOlder, Running, At
<1>5. UmbrellaFilled'
  BY DEF IInv, PrefixInv, UmbrellaFilled, Running, At
<1> QED
  BY <1>1, <1>2, <1>3, <1>4, <1>5 DEF PrefixInv

LEMMA ReadPrefixKept ==
  ASSUME IInv, Typed', NEW s \in Servers, ReadPrefix(s)
  PROVE  PrefixInv'
<1>1. /\ \A t \in Servers \ {s} : server'[t] = server[t]
      /\ server'[s].pc = "create" /\ server'[s].ws = server[s].ws
      /\ server'[s].read = [ws |-> server[s].ws, version |-> pch[server[s].ws]]
      /\ server[s].ws \in Workspaces /\ pch[server[s].ws] \in 0..MaxEdits
      /\ UNCHANGED <<pch, shared, umbrella>>
      /\ writers' = writers \cup {server[s].ws}
      /\ At(s, "prefix")
  BY DEF ReadPrefix, IInv, Typed, TypeOK, OfWorkspaces, At, disk, temp
<1>2. ReadersKnown'
  <2>1. server'[s].read \in Texts
    BY <1>1 DEF Texts
  <2>2. pch'[server'[s].ws] \in Nat /\ server'[s].read.version <= pch'[server'[s].ws]
    BY <1>1, HeadersAssumption, SMT
  <2> QED
    BY <1>1, <2>1, <2>2 DEF IInv, PrefixInv, ReadersKnown, Reader, Running, At
<1>3. OneWriter'
  BY <1>1 DEF ReadPrefix, IInv, PrefixInv, OneWriter
<1>4. SharedWhole'
  BY <1>1 DEF ReadPrefix, IInv, PrefixInv, SharedWhole, Reader, Running, At, Writing
<1>5. NoOlder'
  <2> SUFFICES ASSUME ~torn', NEW t \in Servers, (Running(t) /\ server[t].include = "shared")'
               PROVE  /\ \A text \in shared :
                           text.ws = server'[t].ws => text.version >= server'[t].read.version
                      /\ \A u \in Servers : server'[u].pc \in Writing /\ server'[u].ws = server'[t].ws
                           => server'[u].read.version >= server'[t].read.version
    BY <1>1 DEF NoOlder
  <2>1. t # s /\ ~torn /\ Running(t) /\ server[t].include = "shared" /\ server'[t] = server[t]
    BY <1>1 DEF Running, At, ReadPrefix
  <2>2. pch[server[t].ws] \in Nat /\ server[t].read.version <= pch[server[t].ws]
        /\ server[t].read \in Texts
    BY <2>1 DEF IInv, PrefixInv, ReadersKnown, Reader
  <2>3. server[s].ws = server[t].ws => server'[s].read.version >= server'[t].read.version
    <3>1. server[t].read.version \in Nat
      BY <2>2, HeadersAssumption, SMT DEF Texts
    <3> QED
      BY <1>1, <2>1, <2>2, <3>1
  <2> QED
    BY <1>1, <2>1, <2>3 DEF IInv, PrefixInv, NoOlder
<1>6. UmbrellaFilled'
  BY <1>1 DEF ReadPrefix, IInv, PrefixInv, UmbrellaFilled, Running, At
<1> QED
  BY <1>2, <1>3, <1>4, <1>5, <1>6 DEF PrefixInv

LEMMA CreateSharedKept ==
  ASSUME IInv, NEW s \in Servers, CreateShared(s)
  PROVE  PrefixInv'
<1>1. /\ \A t \in Servers \ {s} : server'[t] = server[t]
      /\ server'[s].pc = "write" /\ server'[s].ws = server[s].ws /\ server'[s].read = server[s].read
      /\ At(s, "create") /\ shared' = {}
      /\ UNCHANGED <<pch, umbrella, writers, torn>>
  BY DEF CreateShared, Goes, IInv, Typed, TypeOK, At, disk, history
<1>2. {} # None
  BY HeadersAssumption
<1>3. ReadersKnown'
  BY <1>1 DEF IInv, PrefixInv, ReadersKnown, Reader, Running, At, Writing
<1>4. OneWriter'
  BY <1>1 DEF IInv, PrefixInv, OneWriter, At, Writing
<1>5. SharedWhole'
  BY <1>1, <1>2 DEF IInv, PrefixInv, SharedWhole, At
<1>6. NoOlder'
  BY <1>1 DEF IInv, PrefixInv, NoOlder, Running, At, Writing
<1>7. UmbrellaFilled'
  BY <1>1 DEF IInv, PrefixInv, UmbrellaFilled, Running, At
<1> QED
  BY <1>3, <1>4, <1>5, <1>6, <1>7 DEF PrefixInv

LEMMA WriteSharedKept ==
  ASSUME IInv, NEW s \in Servers, WriteShared(s)
  PROVE  PrefixInv'
<1>1. /\ \A t \in Servers \ {s} : server'[t] = server[t]
      /\ server'[s].pc = "running" /\ server'[s].include = "shared"
      /\ server'[s].ws = server[s].ws /\ server'[s].read = server[s].read
      /\ At(s, "write")
      /\ UNCHANGED <<pch, umbrella, writers, torn>>
  BY DEF WriteShared, Run, IInv, Typed, TypeOK, At, disk, history
<1>2. Reader(s) /\ server[s].read \in Texts /\ server[s].read.ws = server[s].ws
      /\ server[s].ws \in writers /\ shared # None /\ shared \subseteq Texts
  BY <1>1 DEF IInv, PrefixInv, ReadersKnown, SharedWhole, Reader, At, Writing, Typed, TypeOK
<1>3. /\ shared' \subseteq Texts /\ shared' # None
      /\ \A text \in shared' : text = server[s].read \/ text \in shared
      /\ ~torn => shared' = {server[s].read}
  <2>1. shared' \in {{server[s].read}, {server[s].read} \cup shared}
    BY DEF WriteShared
  <2>2. ~torn => shared = {}
    BY <1>1 DEF IInv, PrefixInv, SharedWhole
  <2> QED
    BY <1>2, <2>1, <2>2, HeadersAssumption
<1>4. ReadersKnown'
  BY <1>1, <1>2 DEF IInv, PrefixInv, ReadersKnown, Reader, Running, At
<1>5. OneWriter'
  BY <1>1 DEF IInv, PrefixInv, OneWriter, Writing
<1>6. \A t \in Servers \ {s} : ~torn => server[t].pc \notin Writing
  BY <1>1 DEF IInv, PrefixInv, OneWriter, At, Writing
<1>7. SharedWhole'
  BY <1>1, <1>2, <1>3, <1>6 DEF IInv, PrefixInv, SharedWhole, At, Writing
<1>8. NoOlder'
  <2> SUFFICES ASSUME ~torn', NEW t \in Servers, (Running(t) /\ server[t].include = "shared")'
               PROVE  /\ \A text \in shared' :
                           text.ws = server'[t].ws => text.version >= server'[t].read.version
                      /\ \A u \in Servers : server'[u].pc \in Writing /\ server'[u].ws = server'[t].ws
                           => server'[u].read.version >= server'[t].read.version
    BY DEF NoOlder
  <2>1. \A u \in Servers : server'[u].pc \notin Writing
    BY <1>1, <1>6 DEF Writing
  <2>2. CASE t = s
    <3>1. server[s].read.version \in Nat
      BY <1>2, HeadersAssumption, SMT DEF Texts
    <3> QED
      BY <1>1, <1>3, <2>1, <2>2, <3>1
  <2>3. CASE t # s
    <3>1. server[s].ws = server[t].ws => server[s].read.version >= server[t].read.version
      BY <1>1, <2>3 DEF IInv, PrefixInv, NoOlder, Running, At, Writing
    <3> QED
      BY <1>1, <1>2, <1>3, <2>1, <2>3, <3>1
  <2> QED
    BY <2>2, <2>3
<1>9. UmbrellaFilled'
  BY <1>1 DEF IInv, PrefixInv, UmbrellaFilled, Running, At
<1> QED
  BY <1>4, <1>5, <1>7, <1>8, <1>9 DEF PrefixInv

\* A step of the umbrella's making, or a start that ends with it.
LEMMA UmbrellaKept ==
  ASSUME IInv, NEW s \in Servers,
         \/ FindUmbrella(s) /\ umbrella # "absent"
         \/ CreateUmbrella(s)
         \/ FillUmbrella(s)
  PROVE  PrefixInv'
<1>1. /\ \A t \in Servers \ {s} : server'[t] = server[t]
      /\ server[s].pc \in {"umbrella", "newUmbrella", "fillUmbrella"}
      /\ \/ server'[s].pc = "fillUmbrella" /\ umbrella' = "empty"
         \/ /\ server'[s].pc = "running" /\ server'[s].include = "umbrella"
            /\ \/ umbrella' = "whole"
               \/ umbrella' = umbrella /\ umbrella # "absent" /\ server[s].pc = "umbrella"
      /\ UNCHANGED <<pch, shared, writers, torn>>
  BY DEF FindUmbrella, CreateUmbrella, FillUmbrella, Goes, Run, IInv, Typed, TypeOK, At,
         disk, temp, history
<1>2. ReadersKnown'
  BY <1>1 DEF IInv, PrefixInv, ReadersKnown, Reader, Running, At, Writing
<1>3. OneWriter'
  BY <1>1 DEF IInv, PrefixInv, OneWriter, Writing
<1>4. SharedWhole'
  BY <1>1 DEF IInv, PrefixInv, SharedWhole, Reader, Running, At, Writing
<1>5. NoOlder'
  BY <1>1 DEF IInv, PrefixInv, NoOlder, Running, At, Writing
<1>6. UmbrellaFilled'
  BY <1>1 DEF IInv, PrefixInv, UmbrellaFilled, Running, At
<1> QED
  BY <1>2, <1>3, <1>4, <1>5, <1>6 DEF PrefixInv

\* The user edits, and the steps that only link.
LEMMA EditPrefixKept ==
  ASSUME IInv, NEW w \in Workspaces, EditPrefix(w)
  PROVE  PrefixInv'
<1>1. /\ UNCHANGED <<server, shared, umbrella, writers, torn>>
      /\ \A v \in Workspaces : pch'[v] = pch[v] \/ (pch[v] \in Nat /\ pch'[v] = pch[v] + 1)
    BY HeadersAssumption, SMT DEF EditPrefix, IInv, Typed, TypeOK, temp, history
<1>2. ReadersKnown'
  <2> SUFFICES ASSUME NEW s \in Servers, Reader(s)
               PROVE  pch'[server[s].ws] \in Nat /\ server[s].read.version <= pch'[server[s].ws]
    BY <1>1 DEF IInv, PrefixInv, ReadersKnown, Reader, Running, At
  <2>1. server[s].ws \in Workspaces
    BY DEF IInv, Typed, OfWorkspaces, Reader, Running, At, Writing
  <2>2. /\ pch[server[s].ws] \in Nat /\ server[s].read.version <= pch[server[s].ws]
        /\ server[s].read \in Texts
    BY DEF IInv, PrefixInv, ReadersKnown
  <2>3. server[s].read.version \in Nat
    BY <2>2, HeadersAssumption, SMT DEF Texts
  <2> QED
    BY <1>1, <2>1, <2>2, <2>3
<1> QED
  BY <1>1, <1>2 DEF IInv, PrefixInv, OneWriter, SharedWhole, NoOlder, UmbrellaFilled, Reader,
                    Running, At

LEMMA LinkKept ==
  ASSUME IInv, NEW s \in Servers, Link(s) \/ LinkFails(s)
  PROVE  PrefixInv'
<1>1. /\ \A t \in Servers \ {s} : server'[t] = server[t]
      /\ server'[s].pc = "linking" /\ server[s].pc = "linking"
      /\ UNCHANGED <<pch, shared, umbrella, writers, torn>>
  BY DEF Link, LinkFails, IInv, Typed, TypeOK, At, disk, temp, history
<1> QED
  BY <1>1, Aside DEF Writing

LEMMA InitPrefix == Init => PrefixInv
<1> SUFFICES ASSUME Init PROVE PrefixInv
  OBVIOUS
<1>1. \A s \in Servers : server[s].pc = "off"
  BY DEF Init, Off
<1> QED
  BY <1>1 DEF Init, PrefixInv, ReadersKnown, OneWriter, SharedWhole, NoOlder, UmbrellaFilled,
              Reader, Running, At, Writing

LEMMA Inductive == IInv /\ [Next]_vars => IInv'
<1> SUFFICES ASSUME IInv, [Next]_vars PROVE Typed' /\ PrefixInv'
  BY DEF IInv
<1>0. Typed
  BY DEF IInv
<1>1. ASSUME NEW s \in Servers, NEW w \in Workspaces, Start(s, w) PROVE Typed' /\ PrefixInv'
  <2>1. /\ \A t \in Servers \ {s} : server'[t] = server[t]
        /\ server'[s].pc \in {"linking", "prefix"} /\ server[s].pc = "off"
        /\ UNCHANGED <<pch, shared, umbrella, writers, torn>>
    BY <1>0, <1>1 DEF Start, Typed, TypeOK, At, disk, temp
  <2> QED
    BY <1>0, <1>1, <2>1, StartTyped, Aside DEF Writing
<1>2. ASSUME NEW s \in Servers, Link(s) \/ LinkFails(s) PROVE Typed' /\ PrefixInv'
  BY <1>0, <1>2, LinkTyped, LinkKept
<1>3. ASSUME NEW s \in Servers, ReadPrefix(s) PROVE Typed' /\ PrefixInv'
  BY <1>0, <1>3, PrefixTyped, ReadPrefixKept
<1>4. ASSUME NEW s \in Servers, Linked(s) \/ PrefixUnreadable(s) \/ NoPrefix(s)
      PROVE  Typed' /\ PrefixInv'
  <2>1. /\ \A t \in Servers \ {s} : server'[t] = server[t]
        /\ \/ server'[s].pc \in {"prefix", "umbrella"}
           \/ server'[s].pc = "running" /\ server'[s].include \in {"pch", "none"}
        /\ server[s].pc \in {"linking", "prefix"}
        /\ UNCHANGED <<pch, shared, umbrella, writers, torn>>
    BY <1>0, <1>4 DEF Linked, PrefixUnreadable, NoPrefix, Goes, Run, Typed, TypeOK, At,
                      disk, temp, history
  <2> QED
    BY <1>0, <1>4, <2>1, PrefixTyped, Aside DEF Writing
<1>5. ASSUME NEW s \in Servers, CreateShared(s) \/ WriteShared(s) PROVE Typed' /\ PrefixInv'
  <2>1. At(s, "write") => server[s].read \in Texts /\ shared # None
    BY DEF IInv, PrefixInv, ReadersKnown, SharedWhole, Reader, At, Writing
  <2> QED
    BY <1>0, <1>5, <2>1, SharedTyped, CreateSharedKept, WriteSharedKept
<1>6. ASSUME NEW s \in Servers, WriteSharedFails(s) PROVE Typed' /\ PrefixInv'
  <2>1. At(s, "write") => server[s].read \in Texts /\ shared # None
    BY DEF IInv, PrefixInv, ReadersKnown, SharedWhole, Reader, At, Writing
  <2>2. /\ \A t \in Servers \ {s} : server'[t] = server[t]
        /\ server'[s].pc = "running" /\ server'[s].include = "pch"
        /\ server[s].pc \in Writing
        /\ UNCHANGED <<pch, shared, umbrella, writers>>
        /\ torn' = (torn \/ At(s, "write"))
    BY <1>0, <1>6 DEF WriteSharedFails, Run, Typed, TypeOK, disk, temp
  <2> QED
    BY <1>0, <1>6, <2>1, <2>2, SharedTyped, Aside DEF Writing, At
<1>7. ASSUME NEW s \in Servers, FindUmbrella(s) PROVE Typed' /\ PrefixInv'
  <2>1. CASE umbrella = "absent"
    <3>1. /\ \A t \in Servers \ {s} : server'[t] = server[t]
          /\ server'[s].pc = "newUmbrella" /\ server[s].pc = "umbrella"
          /\ UNCHANGED <<pch, shared, umbrella, writers, torn>>
      BY <1>0, <1>7, <2>1 DEF FindUmbrella, Goes, Typed, TypeOK, At, disk, temp, history
    <3> QED
      BY <1>0, <1>7, <3>1, UmbrellaTyped, Aside DEF Writing
  <2>2. CASE umbrella # "absent"
    BY <1>0, <1>7, <2>2, UmbrellaTyped, UmbrellaKept
  <2> QED
    BY <2>1, <2>2
<1>8. ASSUME NEW s \in Servers, CreateUmbrella(s) \/ FillUmbrella(s) PROVE Typed' /\ PrefixInv'
  BY <1>0, <1>8, UmbrellaTyped, UmbrellaKept
<1>9. ASSUME NEW s \in Servers, UmbrellaFails(s) PROVE Typed' /\ PrefixInv'
  <2>1. /\ \A t \in Servers \ {s} : server'[t] = server[t]
        /\ server'[s].pc = "running" /\ server'[s].include = "none"
        /\ server[s].pc \in {"newUmbrella", "fillUmbrella"}
        /\ UNCHANGED <<pch, shared, umbrella, writers>>
        /\ torn' = (torn \/ At(s, "fillUmbrella"))
    BY <1>0, <1>9 DEF UmbrellaFails, Run, Typed, TypeOK, disk, temp
  <2> QED
    BY <1>0, <1>9, <2>1, UmbrellaTyped, Aside DEF Writing, At
<1>10. ASSUME NEW s \in Servers, End(s) PROVE Typed' /\ PrefixInv'
  <2>1. /\ \A t \in Servers \ {s} : server'[t] = server[t]
        /\ server'[s].pc = "off"
        /\ UNCHANGED <<pch, shared, umbrella, writers>>
        /\ torn' = (torn \/ server[s].pc \in {"write", "fillUmbrella"})
    BY <1>0, <1>10 DEF End, Off, Typed, TypeOK, disk, temp
  <2> QED
    BY <1>0, <1>10, <2>1, OutsideTyped, Aside DEF Writing
<1>11. ASSUME NEW w \in Workspaces, EditPrefix(w) PROVE Typed' /\ PrefixInv'
  BY <1>0, <1>11, OutsideTyped, EditPrefixKept
<1>12. ASSUME \/ \E w \in Workspaces : MoveHeader(w) \/ PodInstall(w)
              \/ UNCHANGED vars
       PROVE  Typed' /\ PrefixInv'
  <2>1. UNCHANGED <<pch, shared, umbrella, server, writers, torn>>
    BY <1>12 DEF MoveHeader, PodInstall, vars, temp, history
  <2>2. PrefixInv'
    BY <2>1 DEF IInv, PrefixInv, ReadersKnown, OneWriter, SharedWhole, NoOlder, UmbrellaFilled,
                Reader, Running, At
  <2> QED
    BY <1>0, <1>12, <2>2, OutsideTyped
<1> QED
  BY <1>1, <1>2, <1>3, <1>4, <1>5, <1>6, <1>7, <1>8, <1>9, <1>10, <1>11, <1>12 DEF Next, Begin

LEMMA Initially == Init => IInv
  BY InitTyped, InitPrefix DEF IInv

-----------------------------------------------------------------------------
(* The links *)

\* A link leads to a file that is there or that the user moved.
LinksLead == \A w \in Workspaces : \A g \in links[w] : g \in tree[w] \/ <<w, g>> \in moved

\* A header found is still to be linked, or has its link, or the link could not be made; one that
\* is still to be linked is there or was moved.
Progress(r) ==
  /\ \A h \in r.found : h \in r.todo \/ <<r.ws, h>> \in unlinked \/ Linking(r.ws, h) # {}
  /\ \A h \in r.todo : h \in tree[r.ws] \/ <<r.ws, h>> \in moved
  /\ r.pc # "linking" => r.todo = {}

InProgress == \A s \in Servers : ~At(s, "off") => Progress(server[s])

LinksInv == LinksLead /\ InProgress

AllInv == IInv /\ LinksInv

\* Paths of links tell apart pods and names, so a link at a header's path leads to a header of
\* its pod and name; if that header is not where it was, it was moved.
LEMMA LinksInvSuffices == AllInv => ImportsReachHeaders
<1> SUFFICES ASSUME AllInv, NEW s \in Servers, Running(s), server[s].dirs = "links",
                    NEW h \in server[s].found,
                    \A g \in Headers : <<server[s].ws, g>> \in moved \cup unlinked
                                         => g.pod # h.pod \/ g.name # h.name
             PROVE  /\ Linking(server[s].ws, h) # {}
                    /\ \A g \in Linking(server[s].ws, h) :
                         g \in tree[server[s].ws] /\ g.pod = h.pod /\ g.name = h.name
  BY DEF ImportsReachHeaders
<1> DEFINE w == server[s].ws
<1>1. w \in Workspaces /\ h \in Headers /\ links[w] \subseteq Headers
  BY DEF AllInv, IInv, Typed, TypeOK, OfWorkspaces, Running, At
<1>2. Linking(w, h) # {}
  <2>1. <<w, h>> \notin unlinked
    BY <1>1
  <2>2. h \in server[s].todo \/ <<w, h>> \in unlinked \/ Linking(w, h) # {}
    BY DEF AllInv, LinksInv, InProgress, Progress, Running, At
  <2>3. server[s].todo = {}
    BY DEF AllInv, LinksInv, InProgress, Progress, Running, At
  <2> QED
    BY <2>1, <2>2, <2>3
<1>3. ASSUME NEW g \in Linking(w, h) PROVE g \in tree[w] /\ g.pod = h.pod /\ g.name = h.name
  <2>1. g \in links[w] /\ LinkPath(g) = LinkPath(h)
    BY DEF Linking
  <2>2. g.pod = h.pod /\ g.name = h.name
    BY <2>1 DEF LinkPath
  <2>3. <<w, g>> \notin moved
    BY <1>1, <2>1, <2>2
  <2> QED
    BY <1>1, <2>1, <2>2, <2>3 DEF AllInv, LinksInv, LinksLead
<1> QED
  BY <1>2, <1>3

\* Links, failures and moves only accumulate, so what is done stays done.
LEMMA ProgressKept ==
  ASSUME Typed, NEW s \in Servers, ~At(s, "off"), Progress(server[s]),
         \A w \in Workspaces : /\ links[w] \subseteq links'[w]
                                /\ \A h \in tree[w] : h \in tree'[w] \/ <<w, h>> \in moved',
         unlinked \subseteq unlinked', moved \subseteq moved',
         server'[s].ws = server[s].ws, server'[s].found = server[s].found,
         server'[s].todo = server[s].todo,
         server'[s].pc # "linking" => server[s].pc # "linking" \/ server[s].todo = {}
  PROVE  Progress(server[s])'
<1>1. server[s].ws \in Workspaces
  BY DEF Typed, OfWorkspaces
<1>2. \A h : Linking(server[s].ws, h) \subseteq Linking(server[s].ws, h)'
  BY <1>1 DEF Linking
<1> QED
  BY <1>1, <1>2 DEF Progress, Linking

\* A step of one server that makes no link.
LEMMA NoLinkMade ==
  ASSUME AllInv, NEW s \in Servers, \A t \in Servers \ {s} : server'[t] = server[t],
         UNCHANGED <<tree, links, moved, unlinked>>,
         ~At(s, "off")' => Progress(server[s])'
  PROVE  LinksInv'
<1>1. LinksLead'
  BY DEF AllInv, LinksInv, LinksLead
<1>2. ASSUME NEW t \in Servers, ~At(t, "off")' PROVE Progress(server[t])'
  <2>1. CASE t = s
    BY <1>2, <2>1
  <2>2. CASE t # s
    <3>1. ~At(t, "off") /\ Progress(server[t]) /\ server'[t] = server[t]
      BY <1>2, <2>2 DEF AllInv, LinksInv, InProgress, At
    <3> QED
      BY <3>1, ProgressKept DEF AllInv, IInv
  <2> QED
    BY <2>1, <2>2
<1> QED
  BY <1>1, <1>2 DEF LinksInv, InProgress

\* The steps that follow the links.
LEMMA Onward ==
  ASSUME AllInv, NEW s \in Servers, NEW pc, NEW include, ~At(s, "off"),
         At(s, "linking") => server[s].todo = {},
         \/ Goes(s, pc)
         \/ Run(s, include)
         \/ server' = [server EXCEPT ![s].pc = "create",
                             ![s].read = [ws |-> server[s].ws, version |-> pch[server[s].ws]]],
         UNCHANGED <<tree, links, moved, unlinked>>
  PROVE  LinksInv'
<1>1. server \in [Servers -> Records]
  BY DEF AllInv, IInv, Typed, TypeOK, Records
<1>2. /\ \A t \in Servers \ {s} : server'[t] = server[t]
      /\ server'[s].ws = server[s].ws
      /\ server'[s].found = server[s].found /\ server'[s].todo = server[s].todo
  BY <1>1 DEF Goes, Run, Records
<1>3. Progress(server[s])
  BY DEF AllInv, LinksInv, InProgress
<1>4. Progress(server[s])'
  BY <1>2, <1>3, ProgressKept DEF AllInv, IInv, At
<1> QED
  BY <1>2, <1>4, NoLinkMade

LEMMA StartLinks ==
  ASSUME AllInv, NEW s \in Servers, NEW w \in Workspaces, Start(s, w)
  PROVE  LinksInv'
<1>1. /\ \A t \in Servers \ {s} : server'[t] = server[t]
      /\ server'[s].found = server'[s].todo /\ server'[s].ws = w
      /\ server'[s].todo \subseteq tree[w]
      /\ server'[s].pc # "linking" => server'[s].todo = {}
      /\ UNCHANGED <<tree, links, moved, unlinked>>
  BY DEF Start, Collected, AllInv, IInv, Typed, TypeOK, disk, temp
<1>2. Progress(server[s])'
  BY <1>1 DEF Progress
<1> QED
  BY <1>1, <1>2, NoLinkMade

LEMMA LinkLinks ==
  ASSUME AllInv, NEW s \in Servers, Link(s) \/ LinkFails(s)
  PROVE  LinksInv'
<1> DEFINE w == server[s].ws
<1>1. PICK h \in server[s].todo :
        /\ server' = [server EXCEPT ![s].todo = @ \ {h}]
        /\ \/ Linking(w, h) # {} /\ UNCHANGED <<links, unlinked>>
           \/ links' = [links EXCEPT ![w] = @ \cup {h}] /\ UNCHANGED unlinked
           \/ unlinked' = unlinked \cup {<<w, h>>} /\ UNCHANGED links
  BY DEF Link, LinkFails, history, temp
<1>2. /\ UNCHANGED <<tree, moved>> /\ At(s, "linking")
      /\ server \in [Servers -> Records] /\ w \in Workspaces
      /\ links \in [Workspaces -> SUBSET Headers]
  BY DEF Link, LinkFails, AllInv, IInv, Typed, TypeOK, OfWorkspaces, Records, At, disk, history
<1>3. Progress(server[s])
  BY <1>2 DEF AllInv, LinksInv, InProgress, At
<1>4. /\ \A v \in Workspaces : links[v] \subseteq links'[v]
      /\ unlinked \subseteq unlinked'
  BY <1>1, <1>2
<1>5. /\ \A t \in Servers \ {s} : server'[t] = server[t]
      /\ server'[s].ws = w /\ server'[s].found = server[s].found /\ server'[s].pc = "linking"
      /\ server'[s].todo = server[s].todo \ {h}
  BY <1>1, <1>2 DEF Records, At
<1>6. h \in server[s].todo /\ (h \in tree[w] \/ <<w, h>> \in moved)
  BY <1>3 DEF Progress
<1>7. LinksLead'
  BY <1>1, <1>2, <1>6 DEF AllInv, LinksInv, LinksLead
<1>8. Progress(server[s])'
  <2>1. <<w, h>> \in unlinked' \/ Linking(w, h)' # {}
    BY <1>1, <1>2, <1>5 DEF Linking
  <2>2. \A g : Linking(w, g) \subseteq Linking(w, g)'
    BY <1>2, <1>4, <1>5 DEF Linking
  <2> QED
    BY <1>2, <1>3, <1>4, <1>5, <2>1, <2>2 DEF Progress
<1>9. ASSUME NEW t \in Servers, t # s, ~At(t, "off")' PROVE Progress(server[t])'
  <2>1. ~At(t, "off") /\ Progress(server[t]) /\ server'[t] = server[t]
    BY <1>5, <1>9 DEF AllInv, LinksInv, InProgress, At
  <2> QED
    BY <1>2, <1>4, <2>1, ProgressKept DEF AllInv, IInv
<1> QED
  BY <1>7, <1>8, <1>9 DEF LinksInv, InProgress

LEMMA MoveLinks ==
  ASSUME AllInv, NEW w \in Workspaces, MoveHeader(w)
  PROVE  LinksInv'
<1>1. /\ tree \in [Workspaces -> SUBSET Headers]
      /\ UNCHANGED <<links, server, unlinked>>
  BY DEF MoveHeader, AllInv, IInv, Typed, TypeOK, temp
<1>2. PICK h \in tree[w], g \in Headers \ tree[w] :
        /\ tree' = [tree EXCEPT ![w] = (@ \ {h}) \cup {g}]
        /\ moved' = moved \cup {<<w, h>>}
  BY DEF MoveHeader
<1>3. \A v \in Workspaces : \A f \in tree[v] : f \in tree'[v] \/ <<v, f>> \in moved'
  BY <1>1, <1>2
<1>4. LinksLead'
  BY <1>1, <1>2, <1>3 DEF AllInv, LinksInv, LinksLead
<1>5. ASSUME NEW t \in Servers, ~At(t, "off")' PROVE Progress(server[t])'
  <2>1. ~At(t, "off") /\ Progress(server[t]) /\ server'[t] = server[t]
    BY <1>1, <1>5 DEF AllInv, LinksInv, InProgress, At
  <2>2. moved \subseteq moved' /\ unlinked \subseteq unlinked'
    BY <1>1, <1>2
  <2>3. \A v \in Workspaces : links[v] \subseteq links'[v]
    BY <1>1
  <2> QED
    BY <1>3, <2>1, <2>2, <2>3, ProgressKept DEF AllInv, IInv
<1> QED
  BY <1>4, <1>5 DEF LinksInv, InProgress

LEMMA LinksInductive == AllInv /\ [Next]_vars => AllInv'
<1> SUFFICES ASSUME AllInv, [Next]_vars PROVE LinksInv'
  BY Inductive DEF AllInv
<1>0. \A s \in Servers : ~At(s, "off") /\ ~At(s, "linking") => server[s].todo = {}
  BY DEF AllInv, LinksInv, InProgress, Progress, At
<1>1. ASSUME NEW s \in Servers, NEW w \in Workspaces, Start(s, w) PROVE LinksInv'
  BY <1>1, StartLinks
<1>2. ASSUME NEW s \in Servers, Link(s) \/ LinkFails(s) PROVE LinksInv'
  BY <1>2, LinkLinks
<1>3. ASSUME NEW s \in Servers, Linked(s) \/ ReadPrefix(s) \/ PrefixUnreadable(s) \/ NoPrefix(s)
      PROVE  LinksInv'
  <2>1. ~At(s, "off") /\ (At(s, "linking") => server[s].todo = {})
    BY <1>3 DEF Linked, ReadPrefix, PrefixUnreadable, NoPrefix, At
  <2>2. UNCHANGED <<tree, links, moved, unlinked>>
    BY <1>3 DEF Linked, ReadPrefix, PrefixUnreadable, NoPrefix, disk, temp, history
  <2>3. \/ \E pc \in Steps : Goes(s, pc)
        \/ \E include \in {"pch", "none"} : Run(s, include)
        \/ server' = [server EXCEPT ![s].pc = "create",
                            ![s].read = [ws |-> server[s].ws, version |-> pch[server[s].ws]]]
    BY <1>3 DEF Linked, ReadPrefix, PrefixUnreadable, NoPrefix, Steps
  <2> QED
    BY <2>1, <2>2, <2>3, Onward
<1>4. ASSUME NEW s \in Servers, CreateShared(s) \/ WriteShared(s) \/ WriteSharedFails(s)
      PROVE  LinksInv'
  <2>1. ~At(s, "off") /\ ~At(s, "linking")
    BY <1>4 DEF CreateShared, WriteShared, WriteSharedFails, At, Writing
  <2>2. UNCHANGED <<tree, links, moved, unlinked>>
    BY <1>4 DEF CreateShared, WriteShared, WriteSharedFails, disk, temp, history
  <2>3. \/ \E pc \in Steps : Goes(s, pc)
        \/ \E include \in {"pch", "shared"} : Run(s, include)
    BY <1>4 DEF CreateShared, WriteShared, WriteSharedFails, Steps, Writing
  <2> QED
    BY <2>1, <2>2, <2>3, Onward
<1>5. ASSUME NEW s \in Servers,
             FindUmbrella(s) \/ CreateUmbrella(s) \/ FillUmbrella(s) \/ UmbrellaFails(s)
      PROVE  LinksInv'
  <2>1. ~At(s, "off") /\ ~At(s, "linking")
    BY <1>5 DEF FindUmbrella, CreateUmbrella, FillUmbrella, UmbrellaFails, At
  <2>2. UNCHANGED <<tree, links, moved, unlinked>>
    BY <1>5 DEF FindUmbrella, CreateUmbrella, FillUmbrella, UmbrellaFails, disk, temp, history
  <2>3. \/ \E pc \in Steps : Goes(s, pc)
        \/ \E include \in {"umbrella", "none"} : Run(s, include)
    BY <1>5 DEF FindUmbrella, CreateUmbrella, FillUmbrella, UmbrellaFails, Steps
  <2> QED
    BY <2>1, <2>2, <2>3, Onward
<1>6. ASSUME NEW s \in Servers, End(s) PROVE LinksInv'
  <2>1. /\ \A t \in Servers \ {s} : server'[t] = server[t]
        /\ server'[s].pc = "off"
        /\ UNCHANGED <<tree, links, moved, unlinked>>
    BY <1>6 DEF End, Off, AllInv, IInv, Typed, TypeOK, disk, temp
  <2> QED
    BY <2>1, NoLinkMade DEF At
<1>7. ASSUME NEW w \in Workspaces, MoveHeader(w) PROVE LinksInv'
  BY <1>7, MoveLinks
<1>8. ASSUME (\E w \in Workspaces : EditPrefix(w) \/ PodInstall(w)) \/ UNCHANGED vars
      PROVE  LinksInv'
  <2>1. UNCHANGED <<tree, links, server, moved, unlinked>>
    BY <1>8 DEF EditPrefix, PodInstall, vars, temp, history
  <2> QED
    BY <2>1 DEF AllInv, LinksInv, LinksLead, InProgress, Progress, Linking, At
<1> QED
  BY <1>1, <1>2, <1>3, <1>4, <1>5, <1>6, <1>7, <1>8 DEF Next, Begin

LEMMA LinksInitially == Init => AllInv
<1> SUFFICES ASSUME Init PROVE LinksLead /\ InProgress
  BY Initially DEF AllInv, LinksInv
<1>1. \A s \in Servers : At(s, "off")
  BY DEF Init, Off, At
<1> QED
  BY <1>1 DEF Init, LinksLead, InProgress

-----------------------------------------------------------------------------
(* Theorems *)

\* The disk, the temporary directory and the servers keep their types: every start works on a
\* workspace, and what it read is a prefix header's text (sdk.rs:168-242).
THEOREM TypeCorrect == Spec => []TypeOK
<1>1. IInv => TypeOK
  BY DEF IInv, Typed
<1> QED
  BY <1>1, Initially, Inductive, PTL DEF Spec

\* However many servers write, read and die in whatever order, a server parses with a whole text
\* of its workspace's prefix header that is no older than its start, if no other workspace writes
\* the one file of all and no write of it overlaps another or breaks off (sdk.rs:204-241).
THEOREM OwnHeader == Spec => []OwnPrefixHeader
  BY PrefixInvSuffices, Initially, Inductive, PTL DEF Spec

\* A header that a server found without Pods has a link, and every link at its path leads to a
\* header of its pod and name, unless one of these was moved or could not be linked: the links of
\* earlier and concurrent starts are as good as its own (sdk.rs:598-646).
THEOREM ImportsReach == Spec => []ImportsReachHeaders
  BY LinksInvSuffices, LinksInitially, LinksInductive, PTL DEF Spec
=============================================================================
