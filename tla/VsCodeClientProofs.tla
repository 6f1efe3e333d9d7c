------------------------- MODULE VsCodeClientProofs -------------------------
(***************************************************************************)
(* Theorems about VsCodeClient for every set of restarts and every bound,  *)
(* and, at the end, about EditorViews.  Two of them are about restarts     *)
(* that do not overlap, which is what the code is written for: with two at *)
(* a time, run vscode_two_servers shows the opposite.                      *)
(***************************************************************************)
EXTENDS VsCodeClient, EditorViews, TLAPS, FiniteSetTheorems, SequenceTheorems

ClientRecords == [state : States, settings : 0..MaxSettings]
TaskRecords == [pc : {"free", "stopping", "starting"} \cup Over,
                made : 0..Len(clients), asked : 0..MaxSettings]

-----------------------------------------------------------------------------
(* The inductive invariant *)

\* Nothing happens before activate, and no server without a binary.
Begins ==
  /\ ~Activated \/ ~binary => clients = << >>
  /\ ~Activated => prompts = 0
  /\ prompts <= settings

\* The module's client is the last one made.
LastIsClient == client = Len(clients)

\* A task asked no later than now, and its client has the settings of then or newer ones.
AskedBefore ==
  \A t \in Tasks :
    /\ task[t].asked <= settings
    /\ task[t].made # 0 => task[t].asked <= clients[task[t].made].settings

\* Only restarts wait for a stop, and one does while the client is stopping.
StopAwaited ==
  /\ task[Activation].pc # "stopping"
  /\ ClientState = "stopping" => Waiting # {}

IInv == TypeOK /\ Begins /\ LastIsClient /\ AskedBefore /\ StopAwaited

-----------------------------------------------------------------------------
(* Starting clients *)

\* The tasks that wait, in some order.
LEMMA SetToSeqOrders ==
  ASSUME NEW S, IsFiniteSet(S)
  PROVE  /\ Cardinality(S) \in Nat
         /\ SetToSeq(S) \in [1..Cardinality(S) -> S]
         /\ \A x \in S : \E i \in 1..Cardinality(S) : SetToSeq(S)[i] = x
<1> DEFINE n == Cardinality(S)
           g == SetToSeq(S)
<1>1. n \in Nat /\ ExistsBijection(1..n, S)
  BY FS_CardinalityType
<1>2. PICK h \in [1..n -> S] : IsInjective(h)
  BY <1>1 DEF ExistsBijection, Bijection, Injection, IsInjective
<1>3. g \in [1..n -> S] /\ IsInjective(g)
  BY <1>2 DEF SetToSeq
<1>4. IsFiniteSet(1..n) /\ Cardinality(1..n) = n
  BY <1>1, FS_Interval
<1>5. g \in Injection(1..n, S)
  BY <1>3 DEF Injection, IsInjective
<1>6. g \in Surjection(1..n, S)
  BY <1>4, <1>5, FS_Injection
<1> QED
  BY <1>1, <1>3, <1>6 DEF Surjection, IsInjective

\* The record of a client that begins.
LEMMA NewClientTyped ==
  ASSUME settings \in 0..MaxSettings
  PROVE  NewClient \in ClientRecords /\ NewClient.state = "starting" /\ NewClient.settings = settings
  BY DEF NewClient, ClientRecords, States

\* What startClient does for the tasks of S when there is a binary: one client each, behind those
\* there were, and the last is the module's.
LEMMA StartMakes ==
  ASSUME NEW S, IsFiniteSet(S), S \subseteq Tasks, NEW before \in Seq(ClientRecords),
         settings \in 0..MaxSettings, binary, Start(S, before)
  PROVE  /\ clients' \in Seq(ClientRecords)
         /\ Cardinality(S) \in Nat /\ Len(before) \in Nat
         /\ Len(clients') = Len(before) + Cardinality(S)
         /\ Len(clients') <= MaxClients
         /\ \A c \in 1..Len(clients') :
              clients'[c] = IF c <= Len(before) THEN before[c] ELSE NewClient
         /\ client' = Len(clients')
         /\ status' = "starting"
         /\ \E place \in [S -> (Len(before) + 1)..Len(clients')] :
              task' = [t \in Tasks |->
                         IF t \notin S THEN task[t]
                           ELSE [pc |-> "starting", made |-> place[t],
                                 asked |-> IF task[t].pc = "stopping" THEN task[t].asked
                                                                      ELSE settings]]
<1> DEFINE n == Cardinality(S)
           b == Len(before)
           order == SetToSeq(S)
           place(t) == CHOOSE i \in DOMAIN order : order[i] = t
           made == [i \in DOMAIN order |-> NewClient]
<1>1. /\ n \in Nat /\ order \in [1..n -> S]
      /\ \A t \in S : \E i \in 1..n : order[i] = t
  BY SetToSeqOrders
<1>2. DOMAIN order = 1..n /\ b \in Nat
  BY <1>1, LenProperties
<1>3. order \in Seq(S) /\ Len(order) = n
  BY <1>1
<1>4. \A t \in S : place(t) \in 1..n
  BY <1>1, <1>2
<1>5. made \in Seq(ClientRecords) /\ Len(made) = n /\ \A i \in 1..n : made[i] = NewClient
  <2>1. made \in [1..n -> ClientRecords]
    BY <1>2, NewClientTyped
  <2> HIDE DEF made
  <2>2. made \in Seq(ClientRecords) /\ Len(made) = n
    BY <1>1, <2>1
  <2> QED
    BY <1>2, <2>2 DEF made
<1>6. /\ b + n <= MaxClients
      /\ clients' = before \o made
      /\ client' = b + n /\ status' = "starting"
      /\ task' = [t \in Tasks |->
                    IF t \notin S THEN task[t]
                      ELSE [pc |-> "starting", made |-> b + place(t),
                            asked |-> IF task[t].pc = "stopping" THEN task[t].asked ELSE settings]]
  BY <1>3 DEF Start
<1> HIDE DEF made, order
<1>7. /\ clients' \in Seq(ClientRecords) /\ Len(clients') = b + n
      /\ \A c \in 1..(b + n) : clients'[c] = IF c <= b THEN before[c] ELSE made[c - b]
  BY <1>5, <1>6, ConcatProperties
<1>8. \A c \in 1..(b + n) : ~(c <= b) => made[c - b] = NewClient
  BY <1>1, <1>2, <1>5
<1>9. [t \in S |-> b + place(t)] \in [S -> (b + 1)..(b + n)]
  BY <1>1, <1>2, <1>4
<1>10. task' = [t \in Tasks |->
                  IF t \notin S THEN task[t]
                    ELSE [pc |-> "starting", made |-> [u \in S |-> b + place(u)][t],
                          asked |-> IF task[t].pc = "stopping" THEN task[t].asked ELSE settings]]
  BY <1>6
<1> QED
  BY <1>1, <1>2, <1>6, <1>7, <1>8, <1>9, <1>10

\* Without a binary there is no client, and startClient ends at once.
LEMMA StartMakesNothing ==
  ASSUME NEW S, NEW before, ~binary, Start(S, before)
  PROVE  /\ clients' = before /\ client' = 0 /\ status' = status
         /\ task' = [t \in Tasks |->
                       IF t \notin S THEN task[t] ELSE [task[t] EXCEPT !.pc = "done", !.made = 0]]
  BY DEF Start, WithoutBinary

\* startClient keeps the invariant, whoever calls it: no client is stopping any more, and the
\* clients so far are those there were, in other states.
LEMMA StartKept ==
  ASSUME IInv, NEW S, IsFiniteSet(S), S \subseteq Tasks,
         NEW before \in Seq(ClientRecords), Len(before) = Len(clients),
         \A c \in DOMAIN clients : before[c].settings = clients[c].settings,
         client # 0 => before[client].state # "stopping",
         Start(S, before), UNCHANGED <<binary, settings, formatter, crashes>>,
         prompts' \in 0..prompts, Activation \in S \/ Activated
  PROVE  IInv'
<1> USE DEF IInv
<1>0. /\ clients \in Seq(ClientRecords) /\ task \in [Tasks -> TaskRecords]
      /\ Len(clients) \in Nat /\ settings \in 0..MaxSettings /\ MaxSettings \in Nat
      /\ prompts \in 0..MaxSettings /\ Activation \in Tasks
      /\ client = Len(clients)
  BY ClientAssumption, LenProperties DEF TypeOK, ClientRecords, TaskRecords, LastIsClient, Tasks
<1>1. prompts' \in 0..MaxSettings /\ prompts' <= settings' /\ settings' \in 0..MaxSettings
  BY <1>0, SMT DEF Begins
<1>2. CASE binary
  <2>1. PICK place \in [S -> (Len(before) + 1)..Len(clients')] :
          task' = [t \in Tasks |->
                     IF t \notin S THEN task[t]
                       ELSE [pc |-> "starting", made |-> place[t],
                             asked |-> IF task[t].pc = "stopping" THEN task[t].asked ELSE settings]]
    BY <1>0, <1>2, StartMakes
  <2>2. /\ clients' \in Seq(ClientRecords)
        /\ Len(clients') \in Nat /\ Len(clients') >= Len(clients)
        /\ \A c \in 1..Len(clients') :
             clients'[c] = IF c <= Len(clients) THEN before[c] ELSE NewClient
        /\ client' = Len(clients') /\ status' = "starting"
    BY <1>0, <1>2, StartMakes, SMT
  <2>3. ASSUME NEW t \in Tasks
        PROVE  /\ t \notin S => task'[t] = task[t]
               /\ t \in S => /\ task'[t].pc = "starting" /\ task'[t].made = place[t]
                             /\ task'[t].asked \in 0..settings
                             /\ task'[t] \in [pc : {"starting"}, made : {place[t]},
                                              asked : 0..settings]
    <3>1. task[t].asked \in 0..settings
      <4>1. task[t].asked <= settings /\ task[t] \in TaskRecords
        BY <1>0 DEF AskedBefore
      <4> QED
        BY <4>1, <1>0, SMT DEF TaskRecords
    <3> QED
      BY <2>1, <3>1, <1>0, SMT
  <2>4. task' \in [Tasks -> TaskRecords']
    <3>1. ASSUME NEW t \in Tasks PROVE task'[t] \in TaskRecords'
      <4>1. CASE t \in S
        <5>1. place[t] \in 0..Len(clients')
          BY <1>0, <2>1, <2>2, <4>1, SMT
        <5>2. \A k \in 0..settings : k \in 0..MaxSettings
          BY <1>0, SMT
        <5> QED
          BY <2>3, <4>1, <5>1, <5>2 DEF TaskRecords
      <4>2. CASE t \notin S
        <5>1. task[t] \in TaskRecords
          BY <1>0
        <5>2. \A k \in 0..Len(clients) : k \in 0..Len(clients')
          BY <1>0, <2>2, SMT
        <5> QED
          BY <2>3, <4>2, <5>1, <5>2 DEF TaskRecords
      <4> QED
        BY <4>1, <4>2
    <3> QED
      BY <2>1, <3>1
  <2>5. TypeOK'
    <3>1. formatter' \in 0..Len(clients') /\ client' \in 0..Len(clients')
      <4>1. formatter \in 0..Len(clients)
        BY DEF TypeOK
      <4> QED
        BY <1>0, <2>2, <4>1, SMT
    <3> QED
      BY <1>0, <1>1, <2>2, <2>4, <3>1 DEF TypeOK, ClientRecords, TaskRecords
  <2>6. task'[Activation].pc \notin {"free", "stopping"}
    BY <1>0, <2>3 DEF Activated, StopAwaited
  <2>7. Begins'
    BY <1>1, <1>2, <2>6 DEF Begins, Activated
  <2>8. AskedBefore'
    <3> SUFFICES ASSUME NEW t \in Tasks
                 PROVE  /\ task'[t].asked <= settings
                        /\ task'[t].made # 0 => task'[t].asked <= clients'[task'[t].made].settings
      BY DEF AskedBefore
    <3>1. CASE t \in S
      <4>1. place[t] \in (Len(before) + 1)..Len(clients')
        BY <2>1, <3>1
      <4>2. clients'[place[t]] = NewClient
        BY <1>0, <2>2, <4>1, SMT
      <4>3. NewClient.settings = settings
        BY DEF NewClient
      <4> QED
        BY <1>0, <2>3, <3>1, <4>2, <4>3, SMT
    <3>2. CASE t \notin S
      <4>1. /\ task'[t] = task[t] /\ task[t].asked <= settings
            /\ task[t].made # 0 => task[t].asked <= clients[task[t].made].settings
            /\ task[t].made \in 0..Len(clients)
        BY <1>0, <2>3, <3>2 DEF AskedBefore, TaskRecords
      <4>2. ASSUME task[t].made # 0
            PROVE  clients'[task[t].made] = before[task[t].made] /\ task[t].made \in DOMAIN clients
        BY <1>0, <2>2, <4>1, <4>2, SMT
      <4> QED
        BY <4>1, <4>2
    <3> QED
      BY <3>1, <3>2
  <2>9. ClientState' # "stopping"
    <3>1. CASE Len(clients') = Len(clients)
      BY <1>0, <2>2, <3>1 DEF ClientState
    <3>2. CASE Len(clients') # Len(clients)
      <4>1. clients'[Len(clients')] = NewClient
        BY <1>0, <2>2, <3>2, SMT
      <4> QED
        BY <2>2, <4>1 DEF ClientState, NewClient
    <3> QED
      BY <3>1, <3>2
  <2> QED
    BY <2>2, <2>5, <2>6, <2>7, <2>8, <2>9 DEF LastIsClient, StopAwaited
<1>3. CASE ~binary
  <2>1. clients = << >> /\ Len(clients) = 0
    BY <1>3 DEF Begins
  <2>2. before = << >>
    BY <1>0, <2>1, EmptySeq
  <2>3. /\ clients' = clients /\ client' = 0 /\ status' = status
        /\ task' = [t \in Tasks |->
                      IF t \notin S THEN task[t] ELSE [task[t] EXCEPT !.pc = "done", !.made = 0]]
    BY <1>3, <2>1, <2>2, StartMakesNothing
  <2>10. Len(clients') = 0 /\ 0 \in 0..Len(clients')
    <3>1. Len(clients') = Len(clients)
      BY <2>3
    <3>2. 0 \in 0..0
      BY SMT
    <3> QED
      BY <2>1, <3>1, <3>2
  <2>4. task' \in [Tasks -> TaskRecords']
    <3>1. ASSUME NEW t \in Tasks PROVE task'[t] \in TaskRecords'
      <4>1. task[t] \in TaskRecords
        BY <1>0
      <4> QED
        BY <2>3, <2>10, <4>1 DEF TaskRecords, Over
    <3> QED
      BY <2>3, <3>1
  <2>5. TypeOK'
    <3>1. client' \in 0..Len(clients')
      BY <2>3, <2>10
    <3> QED
      BY <1>0, <1>1, <2>3, <2>4, <3>1 DEF TypeOK, TaskRecords
  <2>6. task'[Activation].pc \notin {"free", "stopping"}
    BY <1>0, <2>3 DEF Activated, StopAwaited, TaskRecords
  <2>7. Begins'
    BY <1>1, <2>1, <2>3, <2>6 DEF Begins, Activated
  <2>8. AskedBefore'
    BY <1>0, <2>3 DEF AskedBefore, TaskRecords
  <2> QED
    BY <2>1, <2>3, <2>5, <2>6, <2>7, <2>8 DEF LastIsClient, StopAwaited, ClientState
<1> QED
  BY <1>2, <1>3

-----------------------------------------------------------------------------
(* Steps that make no client *)

\* Such a step changes states of clients, the progress of tasks, settings and prompts.
LEMMA QuietKept ==
  ASSUME IInv, UNCHANGED <<binary, client>>,
         clients' \in Seq(ClientRecords), Len(clients') = Len(clients),
         \A c \in DOMAIN clients : clients'[c].settings = clients[c].settings,
         settings' \in settings..MaxSettings, prompts' \in 0..settings',
         Activated \/ prompts' = 0,
         task' \in [Tasks -> TaskRecords],
         \A t \in Tasks : /\ task'[t].pc = "free" => task[t].pc = "free"
                          /\ task'[t].asked <= settings'
                          /\ \/ task'[t].made = 0
                             \/ task'[t].made = task[t].made /\ task'[t].asked = task[t].asked,
         formatter' \in 0..Len(clients), crashes' \in 0..MaxCrashes,
         status' \in {"notStarted", "starting", "ready", "stopped"},
         StopAwaited'
  PROVE  IInv'
<1> USE DEF IInv
<1>0. /\ clients \in Seq(ClientRecords) /\ task \in [Tasks -> TaskRecords]
      /\ Len(clients) \in Nat /\ settings \in 0..MaxSettings /\ MaxSettings \in Nat
      /\ DOMAIN clients = 1..Len(clients) /\ Activation \in Tasks
      /\ client = Len(clients)
  BY ClientAssumption, LenProperties DEF TypeOK, ClientRecords, TaskRecords, LastIsClient, Tasks
<1>1. TypeOK'
  <2>1. settings' \in 0..MaxSettings /\ prompts' \in 0..MaxSettings /\ client' \in 0..Len(clients)
    BY <1>0, SMT
  <2>2. task' \in [Tasks -> TaskRecords']
    BY <1>0 DEF TaskRecords
  <2> QED
    BY <2>1, <2>2 DEF TypeOK, ClientRecords, TaskRecords
<1>2. Begins'
  <2>1. clients = << >> => clients' = << >>
    <3>1. clients = << >> => Len(clients) = 0
      BY EmptySeq
    <3> QED
      BY <3>1, EmptySeq
  <2>2. prompts' <= settings'
    BY <1>0, SMT
  <2> QED
    BY <1>0, <2>1, <2>2 DEF Begins, Activated
<1>3. LastIsClient'
  BY DEF LastIsClient
<1>4. AskedBefore'
  <2> SUFFICES ASSUME NEW t \in Tasks
               PROVE  /\ task'[t].asked <= settings'
                      /\ task'[t].made # 0 => task'[t].asked <= clients'[task'[t].made].settings
    BY DEF AskedBefore
  <2>1. ASSUME task'[t].made # 0
        PROVE  task'[t].asked <= clients'[task'[t].made].settings
    <3>1. task'[t].made = task[t].made /\ task'[t].asked = task[t].asked
      BY <2>1
    <3>2. task[t].made \in DOMAIN clients
      <4>1. task[t].made \in 0..Len(clients)
        BY <1>0 DEF TaskRecords
      <4> QED
        BY <1>0, <2>1, <3>1, <4>1, SMT
    <3>3. task[t].asked <= clients[task[t].made].settings
      BY <2>1, <3>1 DEF AskedBefore
    <3> QED
      BY <3>1, <3>2, <3>3
  <2> QED
    BY <2>1
<1> QED
  BY <1>1, <1>2, <1>3, <1>4

\* A client gets another state.
LEMMA BecomesTyped ==
  ASSUME clients \in Seq(ClientRecords), NEW c \in DOMAIN clients, NEW state \in States,
         Becomes(c, state)
  PROVE  /\ clients' \in Seq(ClientRecords) /\ Len(clients') = Len(clients)
         /\ clients'[c].state = state
         /\ \A d \in DOMAIN clients : /\ clients'[d].settings = clients[d].settings
                                      /\ d # c => clients'[d] = clients[d]
         /\ status' = Shown(state)
         /\ status' \in {"notStarted", "starting", "ready", "stopped"}
<1>0. DOMAIN clients = 1..Len(clients)
  BY LenProperties
<1>1. clients' = [clients EXCEPT ![c] = [clients[c] EXCEPT !.state = state]]
  BY DEF Becomes
<1>2. clients[c] \in ClientRecords
  BY ElementOfSeq, <1>0
<1>3. [clients[c] EXCEPT !.state = state] \in ClientRecords
  BY <1>2 DEF ClientRecords
<1>4. clients' \in Seq(ClientRecords) /\ Len(clients') = Len(clients)
  BY <1>0, <1>1, <1>3, ExceptSeq
<1>5. clients'[c] = [clients[c] EXCEPT !.state = state]
  BY <1>1
<1>6. clients'[c].state = state /\ clients'[c].settings = clients[c].settings
  BY <1>2, <1>5 DEF ClientRecords
<1>7. \A d \in DOMAIN clients : d # c => clients'[d] = clients[d]
  BY <1>1
<1> QED
  BY <1>4, <1>6, <1>7 DEF Becomes, Shown

\* What IInv says of the variables the steps read.
LEMMA InvariantFacts ==
  ASSUME IInv
  PROVE  /\ clients \in Seq(ClientRecords) /\ task \in [Tasks -> TaskRecords]
         /\ Len(clients) \in Nat /\ DOMAIN clients = 1..Len(clients)
         /\ settings \in 0..MaxSettings /\ MaxSettings \in Nat
         /\ settings \in settings..MaxSettings /\ settings \in 0..settings
         /\ prompts \in 0..settings /\ prompts \in Nat /\ formatter \in 0..Len(clients)
         /\ status \in {"notStarted", "starting", "ready", "stopped"}
         /\ crashes \in 0..MaxCrashes /\ MaxCrashes \in Nat
         /\ client = Len(clients)
         /\ client # 0 => client \in DOMAIN clients
         /\ Activation \in Tasks /\ Activation \notin Restarts /\ Restarts \subseteq Tasks
         /\ Activated \/ prompts = 0
         /\ \A t \in Tasks : task[t].asked <= settings /\ task[t].asked \in 0..settings
<1>1. clients \in Seq(ClientRecords) /\ task \in [Tasks -> TaskRecords]
  BY DEF IInv, TypeOK, ClientRecords, TaskRecords
<1>2. Len(clients) \in Nat /\ DOMAIN clients = 1..Len(clients)
  BY <1>1, LenProperties
<1>3. settings \in 0..MaxSettings /\ MaxSettings \in Nat /\ MaxCrashes \in Nat
  BY ClientAssumption DEF IInv, TypeOK
<1>4. settings \in settings..MaxSettings /\ settings \in 0..settings
  BY <1>3, SMT
<1>5. prompts \in 0..settings /\ prompts \in Nat
  <2>1. prompts \in 0..MaxSettings /\ prompts <= settings
    BY DEF IInv, TypeOK, Begins
  <2> QED
    BY <1>3, <2>1, SMT
<1>6. client = Len(clients) /\ (client # 0 => client \in DOMAIN clients)
  <2>1. client = Len(clients)
    BY DEF IInv, LastIsClient
  <2> QED
    BY <1>2, <2>1, SMT
<1>7. ASSUME NEW t \in Tasks PROVE task[t].asked <= settings /\ task[t].asked \in 0..settings
  <2>1. task[t].asked <= settings /\ task[t].asked \in 0..MaxSettings
    BY <1>1 DEF IInv, AskedBefore, TaskRecords
  <2> QED
    BY <1>3, <2>1, SMT
<1> QED
  BY <1>1, <1>2, <1>3, <1>4, <1>5, <1>6, <1>7, ClientAssumption DEF IInv, TypeOK, Begins, Tasks

-----------------------------------------------------------------------------
(* The actions *)

LEMMA ActivateKept ==
  ASSUME IInv, Activate
  PROVE  IInv'
<1>1. /\ clients \in Seq(ClientRecords) /\ prompts \in 0..prompts
      /\ client # 0 => client \in DOMAIN clients
  <2>1. prompts \in Nat
    BY InvariantFacts
  <2>2. prompts \in 0..prompts
    BY <2>1, SMT
  <2> QED
    BY <2>2, InvariantFacts
<1>2. client = 0
  <2>1. clients = << >>
    BY DEF Activate, IInv, Begins, Activated
  <2> QED
    BY <1>1, <2>1, InvariantFacts, EmptySeq
<1>3. IsFiniteSet({Activation}) /\ {Activation} \subseteq Tasks
  BY FS_Singleton, InvariantFacts
<1> QED
  BY <1>1, <1>2, <1>3, StartKept DEF Activate

\* A task that waits for the stop or whose restart failed.
LEMMA EndsUpTyped ==
  ASSUME IInv, NEW t \in Restarts, NEW pc \in {"stopping", "failed"}, EndsUp(t, pc)
  PROVE  /\ task' \in [Tasks -> TaskRecords]
         /\ task'[t] = [pc |-> pc, made |-> 0, asked |-> settings]
         /\ \A u \in Tasks : u # t => task'[u] = task[u]
         /\ \A u \in Tasks : /\ task'[u].pc = "free" => task[u].pc = "free"
                             /\ task'[u].asked <= settings
                             /\ \/ task'[u].made = 0
                                \/ task'[u].made = task[u].made /\ task'[u].asked = task[u].asked
         /\ task'[Activation].pc = task[Activation].pc
<1>1. /\ t \in Tasks /\ t # Activation /\ Activation \in Tasks
      /\ task \in [Tasks -> TaskRecords] /\ settings \in 0..MaxSettings
      /\ settings <= settings /\ 0 \in 0..Len(clients)
  BY InvariantFacts, SMT
<1> DEFINE r == [pc |-> pc, made |-> 0, asked |-> settings]
<1>2. r \in TaskRecords /\ r.pc # "free" /\ r.made = 0 /\ r.asked = settings
  BY <1>1 DEF TaskRecords, Over
<1>3. task' = [task EXCEPT ![t] = r]
  BY DEF EndsUp
<1> HIDE DEF r
<1>4. task' \in [Tasks -> TaskRecords] /\ task'[t] = r /\ \A u \in Tasks : u # t => task'[u] = task[u]
  BY <1>1, <1>2, <1>3
<1>5. ASSUME NEW u \in Tasks
      PROVE  /\ task'[u].pc = "free" => task[u].pc = "free"
             /\ task'[u].asked <= settings
             /\ \/ task'[u].made = 0
                \/ task'[u].made = task[u].made /\ task'[u].asked = task[u].asked
  BY <1>1, <1>2, <1>4, InvariantFacts
<1> QED
  BY <1>1, <1>4, <1>5 DEF r

\* stopClient, and startClient when there is nothing to wait for.
LEMMA StopThenStartKept ==
  ASSUME IInv, NEW t \in Restarts, Activated, StopThenStart(t), prompts' \in 0..prompts,
         UNCHANGED <<binary, settings, formatter, crashes>>
  PROVE  IInv'
<1>1. /\ clients \in Seq(ClientRecords) /\ t \in Tasks /\ Len(clients) \in Nat
      /\ client # 0 => client \in DOMAIN clients
      /\ task[Activation].pc # "stopping"
  <2>1. task[Activation].pc # "stopping"
    BY DEF IInv, StopAwaited
  <2> QED
    BY <2>1, InvariantFacts
<1>2. prompts' \in 0..settings'
  <2>1. prompts \in 0..settings /\ settings \in 0..MaxSettings
    BY InvariantFacts
  <2> QED
    BY <2>1, SMT
<1>3. CASE ClientState \in {"none", "stopped"} /\ Start({t}, clients)
  <2>1. client # 0 => clients[client].state # "stopping"
    BY <1>3 DEF ClientState
  <2>2. IsFiniteSet({t}) /\ {t} \subseteq Tasks
    BY <1>1, FS_Singleton
  <2> QED
    BY <1>1, <1>3, <2>1, <2>2, StartKept
<1>4. ASSUME ClientState = "running", Becomes(client, "stopping"), EndsUp(t, "stopping"),
             UNCHANGED client
      PROVE  IInv'
  <2>1. client \in DOMAIN clients
    BY <1>1, <1>4 DEF ClientState
  <2>2. "stopping" \in States
    BY DEF States
  <2>3. t \in Waiting' /\ task'[Activation].pc # "stopping"
    BY <1>1, <1>4, EndsUpTyped DEF Waiting
  <2>4. StopAwaited'
    BY <2>3 DEF StopAwaited
  <2> QED
    BY <1>1, <1>2, <1>4, <2>1, <2>2, <2>4, BecomesTyped, EndsUpTyped, InvariantFacts, QuietKept
<1>5. ASSUME NEW pc \in {"stopping", "failed"}, EndsUp(t, pc),
             ClientState = "stopping" <=> pc = "stopping",
             UNCHANGED <<clients, client, status>>
      PROVE  IInv'
  <2>1. StopAwaited'
    <3>1. task'[Activation].pc # "stopping"
      BY <1>1, <1>5, EndsUpTyped
    <3>2. ClientState' = ClientState
      BY <1>5 DEF ClientState
    <3>3. pc = "stopping" => t \in Waiting'
      BY <1>1, <1>5, EndsUpTyped DEF Waiting
    <3> QED
      BY <1>5, <3>1, <3>2, <3>3 DEF StopAwaited
  <2> QED
    BY <1>2, <1>5, <2>1, EndsUpTyped, InvariantFacts, QuietKept
<1> QED
  BY <1>3, <1>4, <1>5 DEF StopThenStart

\* Waiting: those who wait are restarts, and finitely many.
LEMMA WaitingAreRestarts ==
  ASSUME IInv
  PROVE  Waiting \subseteq Restarts /\ IsFiniteSet(Waiting) /\ Waiting \subseteq Tasks
<1>1. Waiting \subseteq Restarts
  BY DEF Waiting, Tasks, IInv, StopAwaited
<1> QED
  BY <1>1, ClientAssumption, FS_Subset DEF Tasks

\* The clients there were when the stop is over.
LEMMA StoppedBefore ==
  ASSUME IInv, ClientState = "stopping"
  PROVE  LET before == [clients EXCEPT ![client].state = "stopped"]
         IN /\ client \in DOMAIN clients
            /\ before \in Seq(ClientRecords) /\ Len(before) = Len(clients)
            /\ \A c \in DOMAIN clients : /\ before[c].settings = clients[c].settings
                                         /\ c # client => before[c] = clients[c]
            /\ before[client].state = "stopped"
<1> DEFINE stopped == [clients[client] EXCEPT !.state = "stopped"]
<1>1. client \in 1..Len(clients) /\ clients \in Seq(ClientRecords) /\ DOMAIN clients = 1..Len(clients)
  BY InvariantFacts DEF ClientState
<1>2. clients[client] \in ClientRecords
  BY <1>1, ElementOfSeq
<1>3. /\ stopped \in ClientRecords /\ stopped.state = "stopped"
      /\ stopped.settings = clients[client].settings
  BY <1>2 DEF ClientRecords, States
<1>4. [clients EXCEPT ![client].state = "stopped"] = [clients EXCEPT ![client] = stopped]
  OBVIOUS
<1> HIDE DEF stopped
<1> QED
  BY <1>1, <1>3, <1>4, ExceptSeq

LEMMA StopResolvesKept ==
  ASSUME IInv, StopResolves
  PROVE  IInv'
<1> DEFINE before == [clients EXCEPT ![client].state = "stopped"]
<1>1. /\ before \in Seq(ClientRecords) /\ Len(before) = Len(clients)
      /\ \A c \in DOMAIN clients : before[c].settings = clients[c].settings
      /\ before[client].state # "stopping"
  BY StoppedBefore DEF StopResolves
<1>2. Start(Waiting, before) /\ UNCHANGED <<binary, settings, prompts, formatter, crashes>>
  BY DEF StopResolves
<1> HIDE DEF before
<1>3. Activated
  <2>1. clients # << >>
    BY InvariantFacts, EmptySeq DEF StopResolves, ClientState
  <2> QED
    BY <2>1 DEF IInv, Begins
<1>4. prompts' \in 0..prompts
  <2>1. prompts \in Nat
    BY InvariantFacts
  <2> QED
    BY <1>2, <2>1, SMT
<1> QED
  BY <1>1, <1>2, <1>3, <1>4, WaitingAreRestarts, StartKept

\* Tasks whose await comes to an end.
LEMMA TasksEndTyped ==
  ASSUME IInv, NEW pc \in Over, NEW S,
         task' = [t \in Tasks |-> IF t \in S THEN [task[t] EXCEPT !.pc = pc] ELSE task[t]]
  PROVE  /\ task' \in [Tasks -> TaskRecords]
         /\ \A t \in Tasks : /\ task'[t].pc = IF t \in S THEN pc ELSE task[t].pc
                             /\ task'[t].made = task[t].made
                             /\ task'[t].asked = task[t].asked
                             /\ task'[t].pc = "free" => task[t].pc = "free"
                             /\ task'[t].asked <= settings
                             /\ task'[t].pc = "stopping" <=> task[t].pc = "stopping" /\ t \notin S
<1>1. ASSUME NEW t \in Tasks
      PROVE  /\ task'[t] \in TaskRecords
             /\ task'[t].pc = IF t \in S THEN pc ELSE task[t].pc
             /\ task'[t].made = task[t].made /\ task'[t].asked = task[t].asked
             /\ task[t].asked <= settings
  <2>1. task[t] \in TaskRecords /\ task[t].asked <= settings
    BY InvariantFacts
  <2>2. task'[t] = IF t \in S THEN [task[t] EXCEPT !.pc = pc] ELSE task[t]
    OBVIOUS
  <2>3. [task[t] EXCEPT !.pc = pc] = [pc |-> pc, made |-> task[t].made, asked |-> task[t].asked]
    BY <2>1 DEF TaskRecords
  <2> QED
    BY <2>1, <2>2, <2>3 DEF TaskRecords
<1> QED
  BY <1>1 DEF Over

LEMMA StopRejectsKept ==
  ASSUME IInv, StopRejects
  PROVE  IInv'
<1>1. client \in DOMAIN clients /\ "stopped" \in States /\ "failed" \in Over
  BY InvariantFacts DEF StopRejects, ClientState, States, Over
<1>2. /\ task' \in [Tasks -> TaskRecords]
      /\ \A t \in Tasks : /\ task'[t].pc = "free" => task[t].pc = "free"
                          /\ task'[t].made = task[t].made /\ task'[t].asked = task[t].asked
                          /\ task'[t].asked <= settings
      /\ \A t \in Tasks : task'[t].pc = "stopping" <=> task[t].pc = "stopping" /\ t \notin Waiting
  BY <1>1, TasksEndTyped DEF StopRejects
<1>3. /\ clients' \in Seq(ClientRecords) /\ Len(clients') = Len(clients)
      /\ clients'[client].state = "stopped"
      /\ \A d \in DOMAIN clients : clients'[d].settings = clients[d].settings
      /\ status' \in {"notStarted", "starting", "ready", "stopped"}
  BY <1>1, InvariantFacts, BecomesTyped DEF StopRejects
<1>4. UNCHANGED <<binary, settings, prompts, client, formatter, crashes>>
  BY DEF StopRejects
<1>5. StopAwaited'
  <2>1. ClientState' # "stopping"
    BY <1>3, <1>4 DEF ClientState
  <2>2. task'[Activation].pc # "stopping"
    BY <1>2, InvariantFacts DEF Waiting
  <2> QED
    BY <2>1, <2>2 DEF StopAwaited
<1> QED
  BY <1>2, <1>3, <1>4, <1>5, InvariantFacts, QuietKept

\* client.start() of c ends; nobody waits for a stop less than before.
LEMMA StartEndsKept ==
  ASSUME IInv, NEW c \in DOMAIN clients, NEW state \in {"running", "startFailed"}, NEW pc \in Over,
         Becomes(c, state), Ended(c, pc),
         UNCHANGED <<binary, settings, prompts, client>>,
         formatter' \in 0..Len(clients), crashes' \in 0..MaxCrashes
  PROVE  IInv'
<1>1. state \in States
  BY DEF States
<1>2. /\ task' \in [Tasks -> TaskRecords]
      /\ \A t \in Tasks : /\ task'[t].pc = "free" => task[t].pc = "free"
                          /\ task'[t].made = task[t].made /\ task'[t].asked = task[t].asked
                          /\ task'[t].asked <= settings
      /\ \A t \in Tasks : task'[t].pc = "stopping" <=> task[t].pc = "stopping" /\ t \notin Starters(c)
  BY TasksEndTyped DEF Ended
<1>3. /\ clients' \in Seq(ClientRecords) /\ Len(clients') = Len(clients)
      /\ clients'[c].state = state
      /\ \A d \in DOMAIN clients : /\ clients'[d].settings = clients[d].settings
                                   /\ d # c => clients'[d] = clients[d]
      /\ status' \in {"notStarted", "starting", "ready", "stopped"}
  BY <1>1, InvariantFacts, BecomesTyped
<1>4. StopAwaited'
  <2>1. ClientState' = "stopping" => ClientState = "stopping"
    BY <1>3, InvariantFacts DEF ClientState
  <2>2. Waiting' = Waiting
    BY <1>2 DEF Waiting, Starters
  <2>3. task'[Activation].pc # "stopping"
    <3>1. task[Activation].pc # "stopping"
      BY DEF IInv, StopAwaited
    <3> QED
      BY <1>2, <3>1, InvariantFacts
  <2>4. ClientState = "stopping" => Waiting # {}
    BY DEF IInv, StopAwaited
  <2> QED
    BY <2>1, <2>2, <2>3, <2>4 DEF StopAwaited
<1> QED
  BY <1>2, <1>3, <1>4, InvariantFacts, QuietKept

LEMMA OneMoreCrash ==
  ASSUME IInv, crashes < MaxCrashes, crashes' = crashes + 1
  PROVE  crashes' \in 0..MaxCrashes
<1>1. crashes \in 0..MaxCrashes /\ MaxCrashes \in Nat
  BY InvariantFacts
<1> QED
  BY <1>1, SMT

LEMMA StartAnswersKept ==
  ASSUME IInv, NEW c \in DOMAIN clients, StartResolves(c) \/ StartRejects(c)
  PROVE  IInv'
<1>1. ASSUME StartResolves(c) PROVE IInv'
  <2>1. formatter' \in 0..Len(clients) /\ crashes' \in 0..MaxCrashes
    <3>1. client \in 0..Len(clients) /\ formatter \in 0..Len(clients)
      BY DEF IInv, TypeOK
    <3> QED
      BY <1>1, <3>1, InvariantFacts DEF StartResolves
  <2> QED
    BY <1>1, <2>1, StartEndsKept DEF StartResolves, Over
<1>2. ASSUME StartRejects(c) PROVE IInv'
  <2>1. formatter' \in 0..Len(clients) /\ crashes' \in 0..MaxCrashes
    BY <1>2, OneMoreCrash, InvariantFacts DEF StartRejects
  <2> QED
    BY <1>2, <2>1, StartEndsKept DEF StartRejects, Over
<1> QED
  BY <1>1, <1>2

LEMMA ServerDiesKept ==
  ASSUME IInv, NEW c \in DOMAIN clients, ServerDies(c)
  PROVE  IInv'
<1>1. PICK state \in {"starting", "stopped"} : Becomes(c, state)
  BY DEF ServerDies
<1>2. /\ clients' \in Seq(ClientRecords) /\ Len(clients') = Len(clients)
      /\ clients'[c].state = state
      /\ \A d \in DOMAIN clients : /\ clients'[d].settings = clients[d].settings
                                   /\ d # c => clients'[d] = clients[d]
      /\ status' \in {"notStarted", "starting", "ready", "stopped"}
  BY <1>1, InvariantFacts, BecomesTyped DEF States
<1>3. /\ UNCHANGED <<binary, settings, prompts, client, task, formatter>>
      /\ crashes' \in 0..MaxCrashes
  BY OneMoreCrash DEF ServerDies
<1>4. StopAwaited'
  <2>1. ClientState' = "stopping" => ClientState = "stopping"
    BY <1>2, <1>3, InvariantFacts DEF ClientState
  <2>2. Waiting' = Waiting
    BY <1>3 DEF Waiting
  <2> QED
    BY <1>3, <2>1, <2>2 DEF IInv, StopAwaited
<1>5. task' \in [Tasks -> TaskRecords] /\ \A t \in Tasks : task'[t].asked <= settings'
  BY <1>3, InvariantFacts
<1> QED
  BY <1>2, <1>3, <1>4, <1>5, InvariantFacts, QuietKept

\* Steps that leave clients and tasks alone.
LEMMA SettingsKept ==
  ASSUME IInv, UNCHANGED <<clients, client, task, formatter, status, crashes>>,
         settings' \in settings..MaxSettings, prompts' \in 0..settings', Activated \/ prompts' = 0,
         binary' = binary
  PROVE  IInv'
<1>1. StopAwaited'
  <2>1. ClientState' = ClientState /\ Waiting' = Waiting
    BY DEF ClientState, Waiting
  <2> QED
    BY <2>1 DEF IInv, StopAwaited
<1>2. ASSUME NEW t \in Tasks PROVE task'[t].asked <= settings'
  <2>1. task[t].asked \in 0..settings /\ settings \in 0..MaxSettings
    BY InvariantFacts
  <2> QED
    BY <2>1, SMT
<1> QED
  BY <1>1, <1>2, InvariantFacts, QuietKept

LEMMA InstallBinaryKept ==
  ASSUME IInv, InstallBinary
  PROVE  IInv'
<1> USE DEF IInv, InstallBinary
<1>1. TypeOK'
  BY DEF TypeOK
<1>2. Begins'
  BY DEF Begins, Activated
<1>3. LastIsClient' /\ AskedBefore'
  BY DEF LastIsClient, AskedBefore
<1>4. StopAwaited'
  BY DEF StopAwaited, ClientState, Waiting
<1> QED
  BY <1>1, <1>2, <1>3, <1>4

\* The state before activate.
LEMMA InitHolds ==
  ASSUME Init
  PROVE  IInv
<1>1. /\ clients = << >> /\ Len(clients) = 0 /\ 0 \in 0..Len(clients) /\ 0 \in 0..MaxSettings
      /\ 0 \in 0..MaxCrashes /\ 0 <= 0 /\ clients \in Seq(ClientRecords)
  <2>1. clients = << >> /\ Len(clients) = 0 /\ clients \in Seq(ClientRecords)
    BY EmptySeq DEF Init
  <2>2. 0 \in 0..0 /\ 0 \in 0..MaxSettings /\ 0 \in 0..MaxCrashes /\ 0 <= 0
    BY ClientAssumption, SMT
  <2> QED
    BY <2>1, <2>2
<1>2. Activation \in Tasks
  BY DEF Tasks
<1>3. task \in [Tasks -> TaskRecords]
  BY <1>1 DEF Init, TaskRecords
<1>4. TypeOK
  BY <1>1, <1>3 DEF Init, TypeOK, ClientRecords, TaskRecords
<1>5. Begins
  BY <1>1 DEF Init, Begins
<1>6. LastIsClient /\ AskedBefore
  BY <1>1 DEF Init, LastIsClient, AskedBefore
<1>7. StopAwaited
  BY <1>2 DEF Init, StopAwaited, ClientState
<1> QED
  BY <1>4, <1>5, <1>6, <1>7 DEF IInv

\* Every step keeps the invariant.
LEMMA StepKeeps ==
  ASSUME IInv, [Next]_vars
  PROVE  IInv'
<1>1. /\ prompts \in 0..prompts
      /\ prompts > 0 => prompts - 1 \in 0..prompts /\ prompts - 1 \in 0..settings
  <2>1. prompts \in 0..settings /\ settings \in 0..MaxSettings
    BY InvariantFacts
  <2> QED
    BY <2>1, SMT
<1>2. prompts > 0 => Activated
  <2>1. Activated \/ prompts = 0
    BY InvariantFacts
  <2> QED
    BY <2>1, SMT
<1>3. CASE Activate
  BY <1>3, ActivateKept
<1>4. ASSUME NEW t \in Restarts, RestartCommand(t) \/ PromptRestart(t) PROVE IInv'
  BY <1>1, <1>2, <1>4, StopThenStartKept DEF RestartCommand, PromptRestart
<1>5. CASE PromptDismiss
  BY <1>1, <1>2, <1>5, InvariantFacts, SettingsKept DEF PromptDismiss
<1>6. CASE StopResolves \/ StopRejects
  BY <1>6, StopResolvesKept, StopRejectsKept
<1>7. ASSUME NEW c \in DOMAIN clients, StartResolves(c) \/ StartRejects(c) \/ ServerDies(c)
      PROVE  IInv'
  BY <1>7, StartAnswersKept, ServerDiesKept
<1>8. CASE ChangeSettings
  <2>1. settings' \in settings..MaxSettings /\ prompts' \in 0..settings'
    <3>1. prompts \in 0..settings /\ settings \in 0..MaxSettings /\ MaxSettings \in Nat
      BY InvariantFacts
    <3> QED
      BY <1>8, <3>1, SMT DEF ChangeSettings
  <2> QED
    BY <1>8, <2>1, SettingsKept DEF ChangeSettings
<1>9. CASE InstallBinary
  BY <1>9, InstallBinaryKept
<1>10. CASE UNCHANGED vars
  BY <1>10, InvariantFacts, SettingsKept DEF vars
<1> QED
  BY <1>3, <1>4, <1>5, <1>6, <1>7, <1>8, <1>9, <1>10 DEF Next, ClientAnswers

\* The invariant of the client holds in every reachable state, whatever restarts overlap.
THEOREM ClientInvariant == Spec => []IInv
<1>1. Init => IInv
  BY InitHolds
<1>2. IInv /\ [Next]_vars => IInv'
  BY StepKeeps
<1> QED
  BY <1>1, <1>2, PTL DEF Spec

\* extension.ts, server.ts: every variable of the extension keeps its type.
THEOREM TypeCorrect == Spec => []TypeOK
<1>1. IInv => TypeOK
  BY DEF IInv
<1> QED
  BY <1>1, ClientInvariant, PTL

\* The module's client is the last one made, however many restarts overlap and whatever fails.
THEOREM NewestClient == Spec => []ClientIsNewest
<1>1. IInv => ClientIsNewest
  <2> SUFFICES ASSUME IInv PROVE ClientIsNewest
    OBVIOUS
  <2>1. client = Len(clients) /\ DOMAIN clients = 1..Len(clients)
    BY InvariantFacts
  <2>2. client = 0 => DOMAIN clients = {}
    BY <2>1, SMT
  <2> QED
    BY <2>1, <2>2 DEF ClientIsNewest
<1> QED
  BY <1>1, ClientInvariant, PTL

\* A restart runs with the settings of the moment the user asked, or newer ones.
THEOREM SettingsApply == Spec => []RestartAppliesSettings
<1>1. IInv => RestartAppliesSettings
  <2> SUFFICES ASSUME IInv, NEW t \in Tasks, task[t].made # 0
               PROVE  clients[task[t].made].settings >= task[t].asked
    BY DEF RestartAppliesSettings
  <2>1. task[t].asked <= clients[task[t].made].settings
    BY DEF IInv, AskedBefore
  <2>2. task[t].asked \in Nat /\ clients[task[t].made].settings \in Nat
    <3>1. /\ clients \in Seq(ClientRecords) /\ task[t] \in TaskRecords
          /\ Len(clients) \in Nat /\ MaxSettings \in Nat
      BY InvariantFacts
    <3>2. task[t].made \in 1..Len(clients) /\ task[t].asked \in 0..MaxSettings
      <4>1. task[t].made \in 0..Len(clients) /\ task[t].asked \in 0..MaxSettings
        BY <3>1 DEF TaskRecords
      <4> QED
        BY <3>1, <4>1, SMT
    <3>3. clients[task[t].made] \in ClientRecords
      BY <3>1, <3>2, ElementOfSeq
    <3>4. clients[task[t].made].settings \in 0..MaxSettings
      BY <3>3 DEF ClientRecords
    <3> QED
      BY <3>1, <3>2, <3>4, SMT
  <2> QED
    BY <2>1, <2>2, SMT
<1> QED
  BY <1>1, ClientInvariant, PTL

-----------------------------------------------------------------------------
(* One restart at a time *)

\* Restarts do not overlap: what SingletonClient supposes.
OneRestart == \A t, u \in Restarts : t = u

\* Every client but the last is over.
OldAreOver == \A c \in DOMAIN clients : c # client => clients[c].state \notin Live

SInv == IInv /\ OldAreOver /\ StatusTellsClient

\* startClient, run once: one more client, and it alone may live.
LEMMA StartAlone ==
  ASSUME IInv, NEW t \in Tasks, NEW before \in Seq(ClientRecords), Len(before) = Len(clients),
         \A c \in DOMAIN clients : before[c].state \notin Live,
         Start({t}, before)
  PROVE  OldAreOver' /\ StatusTellsClient'
<1>1. settings \in 0..MaxSettings /\ IsFiniteSet({t}) /\ Cardinality({t}) = 1 /\ {t} \subseteq Tasks
  BY InvariantFacts, FS_Singleton
<1>2. CASE binary
  <2>1. /\ Len(clients) \in Nat /\ clients' \in Seq(ClientRecords)
        /\ Len(clients') = Len(clients) + 1
        /\ \A c \in 1..Len(clients') : clients'[c] = IF c <= Len(clients) THEN before[c] ELSE NewClient
        /\ client' = Len(clients') /\ status' = "starting"
        /\ DOMAIN clients = 1..Len(clients) /\ DOMAIN clients' = 1..Len(clients')
    BY <1>1, <1>2, StartMakes, InvariantFacts, LenProperties
  <2>2. OldAreOver'
    <3> SUFFICES ASSUME NEW c \in DOMAIN clients', c # client'
                 PROVE  clients'[c].state \notin Live
      BY DEF OldAreOver
    <3>1. c \in DOMAIN clients /\ clients'[c] = before[c]
      BY <2>1, SMT
    <3> QED
      BY <3>1
  <2>3. clients'[client'] = NewClient
    BY <2>1, SMT
  <2> QED
    BY <2>1, <2>2, <2>3 DEF StatusTellsClient, NewClient, Shown
<1>3. CASE ~binary
  <2>1. clients' = before /\ client' = 0
    BY <1>3, StartMakesNothing
  <2>2. clients = << >>
    BY <1>3 DEF IInv, Begins
  <2>3. DOMAIN before = {}
    <3>1. Len(clients) = 0
      BY <2>2, EmptySeq
    <3>2. DOMAIN before = 1..0
      BY <3>1, LenProperties
    <3> QED
      BY <3>2, SMT
  <2> QED
    BY <2>1, <2>3 DEF OldAreOver, StatusTellsClient
<1> QED
  BY <1>2, <1>3

\* What changes the state of the module's client tells the status bar.
LEMMA ClientMoves ==
  ASSUME SInv, client \in DOMAIN clients, NEW state \in States, Becomes(client, state),
         UNCHANGED client
  PROVE  OldAreOver' /\ StatusTellsClient'
<1>1. /\ Len(clients') = Len(clients) /\ DOMAIN clients' = DOMAIN clients
      /\ clients'[client].state = state
      /\ \A d \in DOMAIN clients : d # client => clients'[d] = clients[d]
      /\ status' = Shown(state)
  <2>1. clients \in Seq(ClientRecords)
    BY InvariantFacts DEF SInv
  <2> QED
    BY <2>1, BecomesTyped, LenProperties
<1> QED
  BY <1>1 DEF SInv, OldAreOver, StatusTellsClient, Shown

LEMMA Unmoved ==
  ASSUME SInv, UNCHANGED <<clients, client, status>>
  PROVE  OldAreOver' /\ StatusTellsClient'
  BY DEF SInv, OldAreOver, StatusTellsClient, Shown

LEMMA StopThenStartAlone ==
  ASSUME SInv, NEW t \in Restarts, StopThenStart(t)
  PROVE  OldAreOver' /\ StatusTellsClient'
<1>1. t \in Tasks /\ clients \in Seq(ClientRecords) /\ (client # 0 => client \in DOMAIN clients)
  BY InvariantFacts DEF SInv
<1>2. CASE ClientState \in {"none", "stopped"} /\ Start({t}, clients)
  <2>1. ASSUME NEW c \in DOMAIN clients PROVE clients[c].state \notin Live
    <3>1. CASE c = client
      <4>1. client # 0
        BY <3>1, InvariantFacts, SMT DEF SInv
      <4> QED
        BY <1>2, <3>1, <4>1 DEF ClientState, Live
    <3>2. CASE c # client
      BY <3>2 DEF SInv, OldAreOver
    <3> QED
      BY <3>1, <3>2
  <2> QED
    BY <1>1, <1>2, <2>1, StartAlone DEF SInv
<1>3. CASE ClientState = "running" /\ Becomes(client, "stopping") /\ UNCHANGED client
  BY <1>1, <1>3, ClientMoves DEF ClientState, States
<1> QED
  BY <1>2, <1>3, Unmoved DEF StopThenStart

LEMMA StopResolvesAlone ==
  ASSUME SInv, OneRestart, StopResolves
  PROVE  OldAreOver' /\ StatusTellsClient'
<1> DEFINE before == [clients EXCEPT ![client].state = "stopped"]
<1>1. PICK t \in Waiting : TRUE
  BY DEF SInv, IInv, StopAwaited, StopResolves
<1>2. Waiting = {t} /\ t \in Tasks
  BY <1>1, WaitingAreRestarts DEF SInv, OneRestart
<1>3. /\ client \in DOMAIN clients
      /\ before \in Seq(ClientRecords) /\ Len(before) = Len(clients)
      /\ \A c \in DOMAIN clients : c # client => before[c] = clients[c]
      /\ before[client].state = "stopped"
  BY StoppedBefore DEF StopResolves, SInv
<1>4. Start({t}, before)
  BY <1>2 DEF StopResolves
<1> HIDE DEF before
<1>5. \A c \in DOMAIN clients : before[c].state \notin Live
  BY <1>3 DEF SInv, OldAreOver, Live
<1> QED
  BY <1>2, <1>3, <1>4, <1>5, StartAlone DEF SInv

\* Only the module's client has something to tell.
LEMMA OnlyClientLives ==
  ASSUME SInv, NEW c \in DOMAIN clients, clients[c].state \in Live
  PROVE  c = client
  BY DEF SInv, OldAreOver

LEMMA AloneKept ==
  ASSUME SInv, OneRestart, [Next]_vars
  PROVE  SInv'
<1>0. IInv'
  BY StepKeeps DEF SInv
<1>1. CASE Activate
  <2>1. clients = << >>
    BY <1>1 DEF Activate, SInv, IInv, Begins, Activated
  <2>2. \A c \in DOMAIN clients : clients[c].state \notin Live
    <3>1. DOMAIN clients = 1..0
      BY <2>1, EmptySeq, LenProperties
    <3> QED
      BY <3>1, SMT
  <2> QED
    BY <1>0, <1>1, <2>2, StartAlone, InvariantFacts DEF Activate, SInv
<1>2. ASSUME NEW t \in Restarts, RestartCommand(t) \/ PromptRestart(t) PROVE SInv'
  BY <1>0, <1>2, StopThenStartAlone DEF RestartCommand, PromptRestart, SInv
<1>3. CASE StopResolves
  BY <1>0, <1>3, StopResolvesAlone DEF SInv
<1>4. CASE StopRejects
  <2>1. client \in DOMAIN clients
    BY <1>4, InvariantFacts DEF StopRejects, ClientState, SInv
  <2> QED
    BY <1>0, <1>4, <2>1, ClientMoves DEF StopRejects, States, SInv
<1>5. ASSUME NEW c \in DOMAIN clients, StartResolves(c) \/ StartRejects(c) \/ ServerDies(c)
      PROVE  SInv'
  <2>1. c = client
    BY <1>5, OnlyClientLives DEF StartResolves, StartRejects, ServerDies, Live
  <2>2. PICK state \in {"running", "startFailed", "starting", "stopped"} : Becomes(c, state)
    BY <1>5 DEF StartResolves, StartRejects, ServerDies
  <2>3. UNCHANGED client
    BY <1>5 DEF StartResolves, StartRejects, ServerDies
  <2> QED
    BY <1>0, <2>1, <2>2, <2>3, ClientMoves DEF SInv, States
<1>6. CASE PromptDismiss \/ ChangeSettings \/ InstallBinary \/ UNCHANGED vars
  BY <1>0, <1>6, Unmoved DEF PromptDismiss, ChangeSettings, InstallBinary, vars, SInv
<1> QED
  BY <1>1, <1>2, <1>3, <1>4, <1>5, <1>6 DEF Next, ClientAnswers

LEMMA AloneInvariant == OneRestart /\ Spec => []SInv
<1>1. ASSUME Init PROVE SInv
  <2>1. IInv /\ client = 0 /\ clients = << >>
    BY <1>1, InitHolds DEF Init
  <2>2. DOMAIN clients = {}
    <3>1. DOMAIN clients = 1..0
      BY <2>1, EmptySeq, LenProperties
    <3> QED
      BY <3>1, SMT
  <2> QED
    BY <2>1, <2>2 DEF SInv, OldAreOver, StatusTellsClient
<1>2. OneRestart /\ SInv /\ [Next]_vars => SInv'
  BY AloneKept
<1>3. SUFFICES ASSUME OneRestart PROVE Spec => []SInv
  OBVIOUS
<1>4. SInv /\ [Next]_vars => SInv'
  BY <1>2, <1>3
<1> QED
  BY <1>1, <1>4, PTL DEF Spec

\* server.ts:11, "Singleton client, recreated on restart": while restarts do not overlap there
\* is one server at a time, whatever crashes, is stopped late or fails to start.
THEOREM OneServer == OneRestart /\ Spec => []SingletonClient
<1>1. SInv => SingletonClient
  <2> SUFFICES ASSUME SInv PROVE SingletonClient
    OBVIOUS
  <2> DEFINE L == {c \in DOMAIN clients : clients[c].state \in Live}
  <2>1. L \subseteq {client}
    BY DEF SInv, OldAreOver
  <2>2. L = {} \/ L = {client}
    BY <2>1
  <2>3. Cardinality(L) = 0 \/ Cardinality(L) = 1
    BY <2>2, FS_EmptySet, FS_Singleton
  <2> HIDE DEF L
  <2>4. Cardinality(L) <= 1
    BY <2>3, SMT
  <2> QED
    BY <2>4 DEF SingletonClient, L
<1> QED
  BY <1>1, AloneInvariant, PTL

\* updateStatusBar: while restarts do not overlap, the status bar tells the state of the
\* module's client.
THEOREM StatusTells == OneRestart /\ Spec => []StatusTellsClient
<1>1. SInv => StatusTellsClient
  BY DEF SInv
<1> QED
  BY <1>1, AloneInvariant, PTL

-----------------------------------------------------------------------------
(***************************************************************************)
(* The extension's views beside the client: EditorViews.                   *)
(***************************************************************************)

ViewsIInv == ViewsTypeOK /\ NoUpdateLost

-----------------------------------------------------------------------------
(* The handlers' parts *)

\* What an editor is drawn with is a version of its document.
LEMMA UpdateKeepsType ==
  ASSUME ViewsTypeOK, NEW d \in Docs, Update(d)
  PROVE  drawn' \in [Docs -> Versions \cup {None}]
  BY DEF ViewsTypeOK, Update

\* An update of one editor leaves the decorations of the others.
LEMMA UpdateLeavesOthers ==
  ASSUME ViewsTypeOK, NEW d \in Docs, Update(d), NEW e \in Docs, e # d
  PROVE  drawn'[e] = drawn[e]
  BY DEF ViewsTypeOK, Update

\* An update of a visible Objective-C editor makes its decorations those of its text.
LEMMA UpdateIsCurrent ==
  ASSUME ViewsTypeOK, enabled' \in BOOLEAN, NEW d \in Docs, Update(d), d \in visible, d \in objc
  PROVE  drawn'[d] = IF enabled' THEN text[d] ELSE None
  BY DEF ViewsTypeOK, Update

\* A schedule keeps the types of the timer and of the history.
LEMMA ScheduleKeepsType ==
  ASSUME ViewsTypeOK, NEW d \in Docs, Schedule(d)
  PROVE  timer' \in Docs \cup {None} /\ displaced' \subseteq Docs
  BY DEF ViewsTypeOK, Schedule

\* The outline is asked about the active document.
LEMMA BuildKeepsType ==
  ASSUME ViewsTypeOK, active' \in Docs \cup {None}, BuildOutline
  PROVE  /\ build' \in [doc : Docs \cup {None}, symbols : Versions \cup {None}]
         /\ relabelled' \subseteq Docs /\ unanswered' \subseteq Docs
<1>1. build' \in [doc : Docs \cup {None}, symbols : Versions \cup {None}]
  BY SMT DEF ViewsTypeOK, BuildOutline
<1>2. relabelled' \subseteq Docs /\ unanswered' \subseteq Docs
  BY SMT DEF ViewsTypeOK, BuildOutline
<1> QED
  BY <1>1, <1>2

TreeTyped ==
  /\ build = None \/ build \in [doc : Docs \cup {None}, symbols : Versions \cup {None}]
  /\ again \in BOOLEAN
  /\ outline \in [doc : Docs \cup {None}, symbols : Versions \cup {None},
                  marks : Versions \cup {None}]
  /\ serving \in BOOLEAN /\ relabelled \subseteq Docs /\ unanswered \subseteq Docs

LEMMA RefreshKeepsType ==
  ASSUME ViewsTypeOK, active' \in Docs \cup {None}, Refresh
  PROVE  TreeTyped'
<1>1. CASE build = None
  BY <1>1, BuildKeepsType DEF Refresh, TreeTyped, ViewsTypeOK
<1>2. CASE build # None
  BY <1>2 DEF Refresh, TreeTyped, ViewsTypeOK
<1> QED
  BY <1>1, <1>2

-----------------------------------------------------------------------------
(* Types *)

LEMMA ViewsInitTyped ==
  ASSUME ViewsInit
  PROVE  ViewsTypeOK
<1>1. 0 \in Versions /\ 0 \in 0..MaxSwitches
  BY SMT, ViewsAssumption DEF Versions
<1>2. active \in objc => active \in Docs
  BY DEF ViewsInit
<1> QED
  BY <1>1, <1>2 DEF ViewsInit, ViewsTypeOK, Empty

LEMMA SwitchesStay ==
  ASSUME ViewsTypeOK, Counted
  PROVE  switches' \in 0..MaxSwitches
  BY SMT, ViewsAssumption DEF ViewsTypeOK, Counted

LEMMA ViewsNextTyped ==
  ASSUME ViewsTypeOK, [ViewsNext]_viewsVars
  PROVE  ViewsTypeOK'
<1>1. ASSUME NEW d \in Docs, Edit(d) PROVE ViewsTypeOK'
  <2>1. text' \in [Docs -> Versions]
    BY <1>1, SMT, ViewsAssumption DEF Edit, ViewsTypeOK, Versions
  <2>2. timer' \in Docs \cup {None} /\ displaced' \subseteq Docs
    BY <1>1, ScheduleKeepsType DEF Edit, ViewsTypeOK
  <2> QED
    BY <1>1, <2>1, <2>2 DEF Edit, ViewsTypeOK, tree
<1>2. ASSUME NEW d \in Docs, Save(d) PROVE ViewsTypeOK'
  <2>1. TreeTyped'
    BY <1>2, RefreshKeepsType DEF Save, ViewsTypeOK
  <2> QED
    BY <1>2, <2>1 DEF Save, ViewsTypeOK, TreeTyped, decorations
<1>3. ASSUME NEW d \in Docs, ActivateEditor(d) PROVE ViewsTypeOK'
  <2>1. TreeTyped'
    BY <1>3, RefreshKeepsType DEF ActivateEditor
  <2>2. timer' \in Docs \cup {None} /\ displaced' \subseteq Docs
    BY <1>3, ScheduleKeepsType DEF ActivateEditor
  <2>3. visible' \subseteq Docs /\ d \in visible' /\ drawn' \in [Docs -> Versions \cup {None}]
    BY <1>3 DEF ActivateEditor, ViewsTypeOK
  <2>4. switches' \in 0..MaxSwitches
    BY <1>3, SwitchesStay DEF ActivateEditor
  <2> QED
    BY <1>3, <2>1, <2>2, <2>3, <2>4 DEF ActivateEditor, ViewsTypeOK, TreeTyped, docs
<1>4. ASSUME NEW d \in Docs, ChangeLanguage(d) PROVE ViewsTypeOK'
  <2>1. timer' \in Docs \cup {None} /\ displaced' \subseteq Docs
    BY <1>4, ScheduleKeepsType DEF ChangeLanguage, ViewsTypeOK
  <2>2. switches' \in 0..MaxSwitches
    BY <1>4, SwitchesStay DEF ChangeLanguage
  <2> QED
    BY <1>4, <2>1, <2>2 DEF ChangeLanguage, ViewsTypeOK
<1>5. CASE NoEditor
  <2>1. TreeTyped'
    BY <1>5, RefreshKeepsType DEF NoEditor
  <2>2. switches' \in 0..MaxSwitches
    BY <1>5, SwitchesStay DEF NoEditor
  <2> QED
    BY <1>5, <2>1, <2>2 DEF NoEditor, ViewsTypeOK, TreeTyped, docs
<1>6. CASE ToggleDecorators
  <2>1. drawn' \in [Docs -> Versions \cup {None}]
    BY <1>6, UpdateKeepsType DEF ToggleDecorators, ViewsTypeOK
  <2>2. switches' \in 0..MaxSwitches
    BY <1>6, SwitchesStay DEF ToggleDecorators
  <2> QED
    BY <1>6, <2>1, <2>2 DEF ToggleDecorators, ViewsTypeOK, docs, tree
<1>7. CASE TimerFires
  <2>1. timer \in Docs
    BY <1>7 DEF TimerFires, ViewsTypeOK
  <2>2. drawn' \in [Docs -> Versions \cup {None}]
    BY <1>7, <2>1, UpdateKeepsType DEF TimerFires
  <2> QED
    BY <1>7, <2>2 DEF TimerFires, ViewsTypeOK, docs, tree
<1>8. CASE OutlineBuilt
  <2>1. outline' \in [doc : Docs \cup {None}, symbols : Versions \cup {None},
                      marks : Versions \cup {None}]
    <3>1. build \in [doc : Docs \cup {None}, symbols : Versions \cup {None}]
      BY <1>8 DEF OutlineBuilt, ViewsTypeOK
    <3>2. CASE build.doc = None
      BY <1>8, <3>2 DEF OutlineBuilt, Empty
    <3>3. CASE build.doc # None
      <4>1. build.doc \in Docs /\ text[build.doc] \in Versions
        BY <3>1, <3>3 DEF ViewsTypeOK
      <4>2. PICK v \in IF build.symbols = None THEN {None} ELSE build.symbols..text[build.doc] :
              outline' = [doc |-> build.doc, symbols |-> v, marks |-> text[build.doc]]
        BY <1>8, <3>3 DEF OutlineBuilt
      <4>3. v \in Versions \cup {None}
        BY <3>1, <4>1, <4>2, ViewsAssumption DEF Versions
      <4> QED
        BY <4>1, <4>2, <4>3
    <3> QED
      BY <3>2, <3>3
  <2>2. /\ build' = None \/ build' \in [doc : Docs \cup {None}, symbols : Versions \cup {None}]
        /\ relabelled' \subseteq Docs /\ unanswered' \subseteq Docs
    BY <1>8, BuildKeepsType DEF OutlineBuilt, ViewsTypeOK
  <2> QED
    BY <1>8, <2>1, <2>2 DEF OutlineBuilt, ViewsTypeOK, docs, decorations
<1>9. CASE UNCHANGED viewsVars
  BY <1>9 DEF viewsVars, ViewsTypeOK
<1>10. CASE ServerStarts
  BY <1>10 DEF ServerStarts, ViewsTypeOK, docs, window, decorations
<1>11. CASE ServerGone
  <2>1. switches' \in 0..MaxSwitches
    BY <1>11, SwitchesStay DEF ServerGone
  <2>2. (build' = None \/ build' \in [doc : Docs \cup {None}, symbols : Versions \cup {None}])
        /\ unanswered' \subseteq Docs
    BY <1>11 DEF ServerGone, ViewsTypeOK
  <2> QED
    BY <1>11, <2>1, <2>2 DEF ServerGone, ViewsTypeOK, docs, window, decorations
<1> QED
  BY <1>1, <1>2, <1>3, <1>4, <1>5, <1>6, <1>7, <1>8, <1>9, <1>10, <1>11 DEF ViewsNext, User

-----------------------------------------------------------------------------
(* The one timer *)

\* While the active editor stays the same, neither its text nor the setting changes and it is not
\* redrawn, its update can only be taken away by a schedule for another editor, which is recorded.
LEMMA UpdateUndisturbed ==
  ASSUME ViewsIInv,
         active \in Docs => text'[active] = text[active] /\ drawn'[active] = drawn[active],
         enabled' = enabled, active' = active, active \in objc' => active \in objc,
         \/ UNCHANGED <<timer, displaced>>
         \/ \E d \in Docs : d # active /\ Schedule(d)
  PROVE  NoUpdateLost'
<1> SUFFICES ASSUME active \in objc \ displaced'
             PROVE  drawn[active] = (IF enabled THEN text[active] ELSE None) \/ timer' = active
  BY DEF NoUpdateLost, ViewsIInv, ViewsTypeOK
<1>1. CASE UNCHANGED <<timer, displaced>>
  BY <1>1 DEF ViewsIInv, NoUpdateLost
<1>2. CASE \E d \in Docs : d # active /\ Schedule(d)
  BY <1>2, ViewsAssumption DEF ViewsIInv, NoUpdateLost, Schedule, ViewsTypeOK
<1> QED
  BY <1>1, <1>2

LEMMA NoUpdateLostInduction ==
  ASSUME ViewsIInv, [ViewsNext]_viewsVars
  PROVE  NoUpdateLost'
<1>0. ViewsTypeOK
  BY DEF ViewsIInv
<1>1. ASSUME NEW d \in Docs, Edit(d) PROVE NoUpdateLost'
  <2>1. CASE d = active
    BY <1>1, <2>1 DEF Edit, Schedule, NoUpdateLost
  <2>2. CASE d # active
    <3>1. active \in Docs => text'[active] = text[active] /\ drawn'[active] = drawn[active]
      BY <1>0, <1>1, <2>2 DEF Edit, ViewsTypeOK
    <3> QED
      BY <1>1, <2>2, <3>1, UpdateUndisturbed DEF Edit
  <2> QED
    BY <2>1, <2>2
<1>2. ASSUME NEW d \in Docs, Save(d) PROVE NoUpdateLost'
  BY <1>2, UpdateUndisturbed DEF Save, decorations
<1>3. ASSUME NEW d \in Docs, ActivateEditor(d) PROVE NoUpdateLost'
  BY <1>3 DEF ActivateEditor, Schedule, NoUpdateLost
<1>4. ASSUME NEW d \in Docs, ChangeLanguage(d) PROVE NoUpdateLost'
  <2>1. CASE d = active
    BY <1>0, <1>4, <2>1, ViewsAssumption DEF ChangeLanguage, Schedule, NoUpdateLost, ViewsTypeOK
  <2>2. CASE d # active
    BY <1>4, <2>2, UpdateUndisturbed DEF ChangeLanguage
  <2> QED
    BY <2>1, <2>2
<1>5. CASE NoEditor
  BY <1>0, <1>5, ViewsAssumption DEF NoEditor, NoUpdateLost, ViewsTypeOK, docs
<1>6. CASE ToggleDecorators
  <2>1. enabled' \in BOOLEAN /\ UNCHANGED <<text, objc, visible, active>>
    BY <1>6 DEF ToggleDecorators, docs
  <2>2. active # None /\ active \in objc =>
          drawn'[active] = IF enabled' THEN text[active] ELSE None
    BY <1>0, <1>6, <2>1, UpdateIsCurrent DEF ToggleDecorators, ViewsTypeOK
  <2> QED
    BY <1>0, <2>1, <2>2, ViewsAssumption DEF NoUpdateLost, ViewsTypeOK
<1>7. CASE TimerFires
  <2>1. timer \in Docs /\ Update(timer) /\ UNCHANGED <<text, objc, visible, active, enabled, displaced>>
    BY <1>0, <1>7 DEF TimerFires, ViewsTypeOK, docs
  <2>2. CASE timer = active
    <3>1. active \in objc => drawn'[active] = IF enabled' THEN text[active] ELSE None
      BY <1>0, <2>1, <2>2, UpdateIsCurrent, ViewsAssumption DEF ViewsTypeOK
    <3> QED
      BY <2>1, <3>1 DEF NoUpdateLost
  <2>3. CASE timer # active
    <3>1. active \in Docs => drawn'[active] = drawn[active]
      BY <1>0, <2>1, <2>3, UpdateLeavesOthers
    <3> QED
      BY <1>0, <2>1, <2>3, <3>1 DEF NoUpdateLost, ViewsIInv, ViewsTypeOK
  <2> QED
    BY <2>2, <2>3
<1>8. CASE OutlineBuilt
  BY <1>8, UpdateUndisturbed DEF OutlineBuilt, docs, decorations
<1>9. CASE UNCHANGED viewsVars
  BY <1>9, UpdateUndisturbed DEF viewsVars
<1>10. CASE ServerStarts \/ ServerGone
  BY <1>10, UpdateUndisturbed DEF ServerStarts, ServerGone, docs, window, decorations
<1> QED
  BY <1>1, <1>2, <1>3, <1>4, <1>5, <1>6, <1>7, <1>8, <1>9, <1>10 DEF ViewsNext, User

LEMMA ViewsInductive ==
  (ViewsIInv /\ [ViewsNext]_viewsVars => ViewsIInv') /\ (ViewsInit => ViewsIInv)
<1>1. ASSUME ViewsIInv, [ViewsNext]_viewsVars PROVE ViewsIInv'
  BY <1>1, ViewsNextTyped, NoUpdateLostInduction DEF ViewsIInv
<1>2. ASSUME ViewsInit PROVE ViewsIInv
  BY <1>2, ViewsInitTyped DEF ViewsInit, ViewsIInv, NoUpdateLost
<1> QED
  BY <1>1, <1>2

\* Type correctness of the extension's views: whatever the user does, an editor shows the
\* decorations of some version of its document and the outline is about one document.
THEOREM ViewsTypeCorrect == ViewsSpec => []ViewsTypeOK
<1>1. ViewsIInv => ViewsTypeOK
  BY DEF ViewsIInv
<1> QED
  BY <1>1, ViewsInductive, PTL DEF ViewsSpec

\* The one debounce timer of all editors loses no update of the active editor, whatever edits and
\* changes of editor come within the delay (decorators.ts:302-363).
THEOREM TimerServesActive == ViewsSpec => []NoUpdateLost
<1>1. ViewsIInv => NoUpdateLost
  BY DEF ViewsIInv
<1> QED
  BY <1>1, ViewsInductive, PTL DEF ViewsSpec
=============================================================================
