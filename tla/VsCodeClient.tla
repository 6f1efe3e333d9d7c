---------------------------- MODULE VsCodeClient ----------------------------
(***************************************************************************)
(* The VS Code extension's side of the server's life:                      *)
(* editors/vscode/src/extension.ts and server.ts.                          *)
(*                                                                         *)
(* The extension runs on one JavaScript thread, so the code between two    *)
(* awaits is one action, together with the microtasks that follow it; what *)
(* interleaves is what happens while a restart awaits client.stop() or     *)
(* client.start(): the user asks for another restart, changes a setting,   *)
(* the server crashes.                                                     *)
(*                                                                         *)
(* LanguageClient (vscode-languageclient 9) is external: stop() resolves   *)
(* at once for a stopped client, joins a stop under way, rejects after a   *)
(* timeout, and throws for a client that is not running.                   *)
(***************************************************************************)
EXTENDS Naturals, Sequences, FiniteSets, SequencesExt

CONSTANTS
  Restarts,     \* invocations of the restart command or of the prompt's button under way
  Activation,   \* the invocation of activate
  MaxClients,   \* bound: clients created
  MaxSettings,  \* bound: changes of the settings
  MaxCrashes    \* bound: crashes of a server

ASSUME ClientAssumption ==
  /\ IsFiniteSet(Restarts) /\ Activation \notin Restarts
  /\ MaxClients \in Nat \ {0} /\ MaxSettings \in Nat /\ MaxCrashes \in Nat

Tasks == Restarts \cup {Activation}

VARIABLES
  binary,     \* findServerBinary finds one
  settings,   \* version of the settings
  prompts,    \* "settings changed" prompts on the screen
  clients,    \* every LanguageClient created, oldest first
  client,     \* the module's variable: index in clients, 0 for undefined
  task,       \* each invocation: where it is, the client it made, the settings it saw
  formatter,  \* client the formatting provider uses, 0 before it is registered
  status,     \* what the status bar says
  crashes

vars == <<binary, settings, prompts, clients, client, task, formatter, status, crashes>>

States == {"starting", "running", "stopping", "stopped", "startFailed"}
Live == {"starting", "running", "stopping"}
Over == {"done", "failed"}

TypeOK ==
  /\ binary \in BOOLEAN
  /\ settings \in 0..MaxSettings
  /\ prompts \in 0..MaxSettings
  /\ clients \in Seq([state : States, settings : 0..MaxSettings])
  /\ client \in 0..Len(clients)
  /\ task \in [Tasks -> [pc : {"free", "stopping", "starting"} \cup Over,
                         made : 0..Len(clients), asked : 0..MaxSettings]]
  /\ formatter \in 0..Len(clients)
  /\ status \in {"notStarted", "starting", "ready", "stopped"}
  /\ crashes \in 0..MaxCrashes

Init ==
  /\ binary \in BOOLEAN
  /\ settings = 0
  /\ prompts = 0
  /\ clients = << >>
  /\ client = 0
  /\ task = [t \in Tasks |-> [pc |-> "free", made |-> 0, asked |-> 0]]
  /\ formatter = 0
  /\ status = "notStarted"
  /\ crashes = 0

-----------------------------------------------------------------------------
(* Status bar *)

\* updateStatusBar; the client reports Stopped for every other state.
Shown(state) ==
  CASE state = "starting" -> "starting"
    [] state = "running"  -> "ready"
    [] OTHER              -> "stopped"

\* Mutant of Becomes: only progress is reported.
BecomesQuietly(c, state) ==
  /\ clients' = [clients EXCEPT ![c].state = state]
  /\ status' = IF state \in {"starting", "running"} THEN Shown(state) ELSE status

\* The client changes its state and tells the status bar.
Becomes(c, state) ==
  /\ clients' = [clients EXCEPT ![c].state = state]
  /\ status' = Shown(state)

-----------------------------------------------------------------------------
(* startClient and stopClient *)

\* Mutant of NewClient: the configuration is read once.
NewClientAsBefore ==
  [state |-> "starting", settings |-> IF clients = << >> THEN settings ELSE clients[1].settings]

\* readConfig, buildInitializationOptions: the settings of now.
NewClient == [state |-> "starting", settings |-> settings]

\* Mutant of WithoutBinary: startClient awaits promptInstall.
WithoutBinaryAwaited(S) ==
  task' = [t \in Tasks |->
             IF t \notin S THEN task[t] ELSE [task[t] EXCEPT !.pc = "starting", !.made = 0]]

\* startClient without a binary: the install prompt is not awaited.
WithoutBinary(S) ==
  task' = [t \in Tasks |->
             IF t \notin S THEN task[t] ELSE [task[t] EXCEPT !.pc = "done", !.made = 0]]

\* startClient, run by the tasks of S one after the other, when the clients so far are
\* `before`: each makes a client, and the last becomes the module's.
Start(S, before) ==
  IF binary
    THEN LET order == SetToSeq(S)
             place(t) == CHOOSE i \in DOMAIN order : order[i] = t
         IN /\ Len(before) + Len(order) <= MaxClients
            /\ clients' = before \o [i \in DOMAIN order |-> NewClient]
            /\ client' = Len(before) + Len(order)
            /\ task' = [t \in Tasks |->
                          IF t \notin S THEN task[t]
                            ELSE [pc |-> "starting", made |-> Len(before) + place(t),
                                  asked |-> IF task[t].pc = "stopping" THEN task[t].asked
                                                                       ELSE settings]]
            /\ status' = "starting"
    ELSE /\ clients' = before
         /\ client' = 0
         /\ WithoutBinary(S)
         /\ UNCHANGED status

Activate ==
  /\ task[Activation].pc = "free"
  /\ Start({Activation}, clients)
  /\ UNCHANGED <<binary, settings, prompts, formatter, crashes>>

EndsUp(t, pc) == task' = [task EXCEPT ![t] = [pc |-> pc, made |-> 0, asked |-> settings]]

ClientState == IF client = 0 THEN "none" ELSE clients[client].state

\* Mutant of StopThenStart: the client is not awaited.
StartAtOnce(t) ==
  IF ClientState = "running"
    THEN Start({t}, [clients EXCEPT ![client].state = "stopping"])
    ELSE Start({t}, clients)

\* stopClient up to its await, and on to startClient when there is nothing to wait for.
StopThenStart(t) ==
  \/ /\ ClientState \in {"none", "stopped"}
     /\ Start({t}, clients)
  \/ /\ ClientState = "running"
     /\ Becomes(client, "stopping")
     /\ EndsUp(t, "stopping")
     /\ UNCHANGED client
  \/ /\ ClientState = "stopping"
     /\ EndsUp(t, "stopping")
     /\ UNCHANGED <<clients, client, status>>
  \/ /\ ClientState \in {"starting", "startFailed"}
     /\ EndsUp(t, "failed")
     /\ UNCHANGED <<clients, client, status>>

\* Restart commands are registered before activate awaits the first client.
Idle(t) == task[t].pc \in {"free"} \cup Over
Activated == task[Activation].pc # "free"

RestartCommand(t) ==
  /\ Activated /\ Idle(t)
  /\ StopThenStart(t)
  /\ UNCHANGED <<binary, settings, prompts, formatter, crashes>>

\* onDidChangeConfiguration: one prompt for each change, whose button restarts.
PromptRestart(t) ==
  /\ prompts > 0 /\ Idle(t)
  /\ prompts' = prompts - 1
  /\ StopThenStart(t)
  /\ UNCHANGED <<binary, settings, formatter, crashes>>

PromptDismiss ==
  /\ prompts > 0
  /\ prompts' = prompts - 1
  /\ UNCHANGED <<binary, settings, clients, client, task, formatter, status, crashes>>

Waiting == {t \in Tasks : task[t].pc = "stopping"}

\* Mutant of StopResolves: the variable is cleared after the new client was put there.
StopResolvesClearsLast ==
  /\ ClientState = "stopping" /\ binary /\ Len(clients) < MaxClients
  /\ clients' = Append([clients EXCEPT ![client].state = "stopped"], NewClient)
  /\ client' = 0
  /\ task' = [t \in Tasks |->
                IF t \notin Waiting THEN task[t]
                  ELSE [task[t] EXCEPT !.pc = "starting", !.made = Len(clients) + 1]]
  /\ status' = "starting"
  /\ UNCHANGED <<binary, settings, prompts, formatter, crashes>>

\* client.stop() resolves for everyone who waits for it: client = undefined, then startClient.
StopResolves ==
  /\ ClientState = "stopping"
  /\ Start(Waiting, [clients EXCEPT ![client].state = "stopped"])
  /\ UNCHANGED <<binary, settings, prompts, formatter, crashes>>

\* client.stop() rejects (the server fails or does not answer in time): the client stays.
StopRejects ==
  /\ ClientState = "stopping"
  /\ Becomes(client, "stopped")
  /\ task' = [t \in Tasks |-> IF t \in Waiting THEN [task[t] EXCEPT !.pc = "failed"] ELSE task[t]]
  /\ UNCHANGED <<binary, settings, prompts, client, formatter, crashes>>

Starters(c) == {t \in Tasks : task[t].pc = "starting" /\ task[t].made = c}

Ended(c, pc) ==
  task' = [t \in Tasks |-> IF t \in Starters(c) THEN [task[t] EXCEPT !.pc = pc] ELSE task[t]]

\* client.start() resolves; activate then registers its formatting provider.
StartResolves(c) ==
  /\ clients[c].state = "starting"
  /\ Becomes(c, "running")
  /\ Ended(c, "done")
  /\ formatter' = IF Activation \in Starters(c) THEN client ELSE formatter
  /\ UNCHANGED <<binary, settings, prompts, client, crashes>>

\* client.start() rejects: initialize failed, or the process ended before it answered.
StartRejects(c) ==
  /\ clients[c].state = "starting"
  /\ crashes < MaxCrashes
  /\ crashes' = crashes + 1
  /\ Becomes(c, "startFailed")
  /\ Ended(c, "failed")
  /\ UNCHANGED <<binary, settings, prompts, client, formatter>>

-----------------------------------------------------------------------------
(* The environment *)

\* The server process dies.  The client starts it again, or gives up.
ServerDies(c) ==
  /\ clients[c].state = "running"
  /\ crashes < MaxCrashes
  /\ crashes' = crashes + 1
  /\ \E state \in {"starting", "stopped"} : Becomes(c, state)
  /\ UNCHANGED <<binary, settings, prompts, client, task, formatter>>

ChangeSettings ==
  /\ Activated /\ settings < MaxSettings
  /\ settings' = settings + 1
  /\ prompts' = prompts + 1
  /\ UNCHANGED <<binary, clients, client, task, formatter, status, crashes>>

InstallBinary ==
  /\ ~binary
  /\ binary' = TRUE
  /\ UNCHANGED <<settings, prompts, clients, client, task, formatter, status, crashes>>

-----------------------------------------------------------------------------
(* Specification *)

ClientAnswers ==
  \/ StopResolves \/ StopRejects
  \/ \E c \in DOMAIN clients : StartResolves(c) \/ StartRejects(c)

Next ==
  \/ Activate
  \/ \E t \in Restarts : RestartCommand(t) \/ PromptRestart(t)
  \/ PromptDismiss
  \/ ClientAnswers
  \/ \E c \in DOMAIN clients : ServerDies(c)
  \/ ChangeSettings \/ InstallBinary

Spec == Init /\ [][Next]_vars

\* stop() has a timeout and initialize is answered before the server does anything slow.
FairSpec ==
  /\ Spec
  /\ WF_vars(StopRejects)
  /\ \A c \in 1..MaxClients : WF_vars(c \in DOMAIN clients /\ StartResolves(c))

-----------------------------------------------------------------------------
(* Properties *)

\* server.ts:11, "Singleton client, recreated on restart": never two servers at a time.
\* Holds while restarts do not overlap; two that wait for the same stop() each start one.
SingletonClient ==
  Cardinality({c \in DOMAIN clients : clients[c].state \in Live}) <= 1

\* updateStatusBar: the status bar tells the state of the module's client, whatever crashed,
\* failed or was restarted before.
StatusTellsClient ==
  client # 0 => status = Shown(clients[client].state)

\* A restart that made a client made it with the settings the user had when asking, or newer.
RestartAppliesSettings ==
  \A t \in Tasks : task[t].made # 0 => clients[task[t].made].settings >= task[t].asked

\* startClient, stopClient: no continuation of an old restart drops a live client or puts an
\* older one back, however restarts overlap.
ClientIsNewest ==
  IF client = 0 THEN \A c \in DOMAIN clients : clients[c].state \notin Live
                ELSE client = Len(clients)

\* Every restart comes to an end, also when the server does not answer the shutdown.
RestartsEnd ==
  \A t \in Tasks : task[t].pc \in {"stopping", "starting"} ~> Idle(t)

\* "Singleton client, recreated on restart" (server.ts:11): no restart ends without a new client
\* because the client before it failed to start.
\* Not kept: VsCodeClientFailedStart.cfg has the counterexample.
RestartRecreates ==
  [][\A t \in Restarts : ClientState = "startFailed" /\ task'[t].pc = "failed"
                           => task[t].pc = "failed"]_vars

=============================================================================
