-------------------------- MODULE SessionServices --------------------------
(***************************************************************************)
(* A session and the clients of its control socket: processes as in        *)
(* SessionProcess, of which the running one drives a coordinator as in     *)
(* ServiceRequests, with the transport of crates/wm-ipc/src/lib.rs between *)
(* the two, and clients as src/bin/horyctl.rs and others would be.         *)
(*                                                                         *)
(* The loop is that of run_nested and of run_headless_loop in src/main.rs: *)
(* events, at most one connection, a poll of the files.  The loop blocks   *)
(* while it reads a request, everybody else goes on.  A client asks once,  *)
(* and what it reads is what it would have read had it not run out of      *)
(* patience first.                                                         *)
(*                                                                         *)
(* A window is committed, unmapped and given metadata by its client; the   *)
(* configure handshake is NestedSession's.  Left out: answers too large    *)
(* for a frame, and a listener whose queue of connections is full.         *)
(***************************************************************************)
EXTENDS SessionProcess, ServiceRequests

CONSTANTS
  Client,
  Patient,     \* the clients that wait for as long as it takes
  NoClient,
  MaxEvents    \* bound on the events of one iteration

ASSUME ServicesAssumption ==
  /\ Patient \subseteq Client
  /\ NoClient \notin Client
  /\ MaxEvents \in Nat

VARIABLES
  phase,       \* of the loop
  \* clients and their connections
  client,      \* what each is doing, and in the end what it was told
  sent,        \* connections that hold a whole request, read or not
  backlog,     \* connections not yet accepted, oldest first
  serving,     \* the connection poll reads from
  executed,    \* history: how often a client's request was handled
  \* windows
  shown,       \* the server's mapped toplevels
  metadata_of, \* what their clients have set
  events,      \* queued BackendEvents
  news         \* history: windows with something new for the rules in these events

ipcVars == <<client, sent, backlog, serving, executed>>
windowVars == <<shown, metadata_of, events, news>>
vars == <<sessionVars, serviceVars, ipcVars, windowVars, phase>>

Phase == {"stopped", "clients", "events", "poll", "reading", "reload"}

ClientState == {"idle", "connected", "waiting", "success", "error", "failed"}

Event == [kind : {"Mapped", "Unmapped"}, window : Window]
  \cup [kind : {"MetadataChanged"}, window : Window, metadata : Metadata]

Running(p) == step[p] = "running"

\* Connections of the socket that have not been answered.
Queued == {backlog[i] : i \in DOMAIN backlog}
Open == Queued \cup ({serving} \ {NoClient})
-----------------------------------------------------------------------------
Init ==
  /\ SessionInit
  /\ ServiceInit
  /\ phase = "stopped"
  /\ client = [c \in Client |-> "idle"]
  /\ sent = {}
  /\ backlog = <<>>
  /\ serving = NoClient
  /\ executed = [c \in Client |-> 0]
  /\ shown = {}
  /\ metadata_of \in [Window -> Metadata]
  /\ events = <<>>
  /\ news = {}

\* Nothing happens to requests and windows.
SessionOnly(A) == A /\ UNCHANGED <<serviceVars, ipcVars, windowVars, phase>>

\* The process's coordinator is made before its socket is.
StartCoordinator(p) ==
  /\ LoadConfiguration(p)
  /\ StartServices
  /\ UNCHANGED <<ipcVars, windowVars, phase>>

StartLoop(p) ==
  /\ BindSocket(p)
  /\ phase' = "clients"
  /\ UNCHANGED <<serviceVars, ipcVars, windowVars>>

\* Whoever still waits on one of these connections is disconnected.
Disconnect(connections, kept) ==
  /\ client' = [c \in Client |->
                  IF c \in connections /\ client[c] \in {"connected", "waiting"}
                  THEN "failed" ELSE client[c]]
  /\ sent' = sent \ connections
  /\ backlog' = kept
  /\ serving' = NoClient
  /\ UNCHANGED executed

\* The loop is over, and with it the coordinator and the windows.
StopLoop ==
  /\ phase' = "stopped"
  /\ ForgetServices
  /\ shown' = {}
  /\ events' = <<>>
  /\ news' = {}
  /\ UNCHANGED metadata_of

\* A process stops in the middle of anything.  A panic closes the connection
\* that is being served, the others stay with the listener until it is dropped.
StopAbruptly(p) ==
  /\ Die(p) \/ Panic(p)
  /\ IF step'[p] = "off" /\ Listening(p) THEN Disconnect(Open, <<>>)
     ELSE IF Running(p) THEN Disconnect({serving}, backlog)
     ELSE UNCHANGED ipcVars
  /\ IF step[p] \in {"binding", "running"} THEN StopLoop
     ELSE UNCHANGED <<serviceVars, windowVars, phase>>

\* The loop returns between two iterations; clients wait until the drop.
ReturnFromLoop(p) ==
  /\ phase = "clients"
  /\ CloseSession(p)
  /\ StopLoop
  /\ UNCHANGED ipcVars

CloseListener(p) ==
  /\ DropServer(p)
  /\ Disconnect(Open, <<>>)
  /\ UNCHANGED <<serviceVars, windowVars, phase>>
-----------------------------------------------------------------------------
(* Clients of the control socket.                                          *)

Served == \E p \in Process : Listening(p) /\ socket = p

Connect(c) ==
  /\ client[c] = "idle"
  /\ IF Served
     THEN /\ client' = [client EXCEPT ![c] = "connected"]
          /\ backlog' = Append(backlog, c)
     ELSE /\ client' = [client EXCEPT ![c] = "failed"]
          /\ UNCHANGED backlog
  /\ UNCHANGED <<sessionVars, serviceVars, windowVars, phase, sent, serving, executed>>

\* A whole frame with any request: which one shows when it is read.  Who sends
\* less is as one who sends nothing.
Send(c) ==
  /\ client[c] = "connected"
  /\ client' = [client EXCEPT ![c] = "waiting"]
  /\ sent' = sent \cup {c}
  /\ UNCHANGED <<sessionVars, serviceVars, windowVars, phase, backlog, serving, executed>>

\* After 250 ms, or at will; the connection and what it holds stay queued.
GiveUp(c) ==
  /\ c \notin Patient
  /\ client[c] \in {"connected", "waiting"}
  /\ client' = [client EXCEPT ![c] = "failed"]
  /\ UNCHANGED <<sessionVars, serviceVars, windowVars, phase, sent, backlog, serving, executed>>
-----------------------------------------------------------------------------
(* The loop of the running process.                                        *)

LoopStep == \E p \in Process : Running(p)

Accept ==
  /\ phase = "poll"
  /\ backlog # <<>>
  /\ serving' = Head(backlog)
  /\ backlog' = Tail(backlog)
  /\ phase' = "reading"
  /\ UNCHANGED <<serviceVars, windowVars, client, sent, executed>>

NothingToAccept ==
  /\ phase = "poll"
  /\ backlog = <<>>
  /\ phase' = "reload"
  /\ UNCHANGED <<serviceVars, ipcVars, windowVars>>

\* Mutant: the connection is kept, and what it holds is read once more.
ReplyAndKeep(result) ==
  /\ client' = IF client[serving] = "failed" THEN client
               ELSE [client EXCEPT ![serving] = result]
  /\ backlog' = Append(backlog, serving)
  /\ serving' = NoClient
  /\ phase' = "reload"
  /\ UNCHANGED <<sent, windowVars>>

\* The answer reaches a client that is still there, and the stream is closed.
Reply(result) ==
  /\ client' = IF client[serving] = "failed" THEN client
               ELSE [client EXCEPT ![serving] = result]
  /\ sent' = sent \ {serving}
  /\ serving' = NoClient
  /\ phase' = "reload"
  /\ UNCHANGED <<backlog, windowVars>>

ServeRequest ==
  /\ phase = "reading"
  /\ serving \in sent
  /\ \E request \in Request, result \in {"success", "error"} :
       HandleIpc(request, result) /\ Reply(result)
  /\ executed' = [executed EXCEPT ![serving] = @ + 1]

\* Mutant: the stream has no read timeout.
RefuseClosedRequest ==
  /\ phase = "reading"
  /\ serving \notin sent
  /\ client[serving] = "failed"
  /\ Reply("error")
  /\ UNCHANGED <<serviceVars, executed>>

\* 100 ms pass without a frame, the stream ends, or what came is no request.
RefuseRequest ==
  /\ phase = "reading"
  /\ serving \notin sent
  /\ Reply("error")
  /\ UNCHANGED <<serviceVars, executed>>

ReloadFiles ==
  /\ phase = "reload"
  /\ PollReload
  /\ phase' = "clients"
  /\ UNCHANGED <<ipcVars, windowVars>>

\* The dispatch of client requests is over, events are handled next.
Dispatched ==
  /\ phase = "clients"
  /\ phase' = "events"
  /\ UNCHANGED <<serviceVars, ipcVars, windowVars>>

ApplyEvent ==
  /\ phase = "events"
  /\ events # <<>>
  /\ LET event == Head(events)
     IN  CASE event.kind = "Mapped" -> WindowMapped(event.window)
           [] event.kind = "Unmapped" -> WindowUnmapped(event.window)
           [] OTHER -> WindowMetadataChanged(event.window, event.metadata)
  /\ events' = Tail(events)
  /\ UNCHANGED <<ipcVars, shown, metadata_of, news, phase>>

EventsDone ==
  /\ phase = "events"
  /\ events = <<>>
  /\ phase' = "poll"
  /\ news' = {}
  /\ UNCHANGED <<serviceVars, ipcVars, shown, metadata_of, events>>

Loop ==
  /\ LoopStep
  /\ \/ Dispatched
     \/ ApplyEvent
     \/ EventsDone
     \/ Accept
     \/ NothingToAccept
     \/ ServeRequest
     \/ RefuseRequest
     \/ ReloadFiles
  /\ UNCHANGED sessionVars
-----------------------------------------------------------------------------
(* Windows, during the dispatch of their clients' requests.  The server    *)
(* finds the window of a request by the protocol id of its surface, which  *)
(* is taken to be unique here (NestedSession's runs show what comes of two *)
(* clients with the same ids).                                             *)

MetadataEvent(w, m) == [kind |-> "MetadataChanged", window |-> w, metadata |-> m]

Enqueue(new) ==
  /\ phase = "clients"
  /\ Len(events) + Len(new) <= MaxEvents
  /\ events' = events \o new

\* Mutant: a mapped window's metadata is not announced.
CommitSilently(w) ==
  /\ Enqueue(<<[kind |-> "Mapped", window |-> w]>>)
  /\ shown' = shown \cup {w}
  /\ news' = news \cup ({w} \ shown)
  /\ UNCHANGED metadata_of

\* A commit that ends a handshake, the first one or one after a resize.
CommitWindow(w) ==
  /\ Enqueue(<<[kind |-> "Mapped", window |-> w], MetadataEvent(w, metadata_of[w])>>)
  /\ shown' = shown \cup {w}
  /\ news' = news \cup ({w} \ shown)
  /\ UNCHANGED metadata_of

\* A title is announced whether or not the window is mapped.
SetMetadata(w, m) ==
  /\ metadata_of' = [metadata_of EXCEPT ![w] = m]
  /\ Enqueue(<<MetadataEvent(w, m)>>)
  /\ news' = IF w \in shown /\ m # metadata_of[w] THEN news \cup {w} ELSE news
  /\ UNCHANGED shown

UnmapWindow(w) ==
  /\ w \in shown
  /\ Enqueue(<<[kind |-> "Unmapped", window |-> w]>>)
  /\ shown' = shown \ {w}
  /\ news' = news \cup {w}
  /\ UNCHANGED metadata_of

WindowRequest ==
  /\ \E w \in Window :
       \/ CommitWindow(w)
       \/ \E m \in Metadata : SetMetadata(w, m)
       \/ UnmapWindow(w)
  /\ UNCHANGED <<sessionVars, serviceVars, ipcVars, phase>>
-----------------------------------------------------------------------------
Next ==
  \/ \E p \in Process :
       \/ SessionOnly(Start(p) \/ Install(p) \/ OpenLogger(p) \/ RejectConfiguration(p))
       \/ StartCoordinator(p)
       \/ StartLoop(p)
       \/ ReturnFromLoop(p)
       \/ CloseListener(p)
       \/ SessionOnly(DropLock(p))
       \/ StopAbruptly(p)
  \/ SessionOnly(RemoveStaleLock \/ \E d \in Default : EditDefault(d) \/ SaveInPlace(d))
  \/ \E c \in Client : Connect(c) \/ Send(c) \/ GiveUp(c)
  \/ WindowRequest
  \/ Loop

Spec == Init /\ [][Next]_vars

\* A running loop does not stop between its steps, its reads and writes have
\* deadlines, and a process whose loop has returned drops its locals.
FairSpec ==
  /\ Spec
  /\ WF_vars(Loop)
  /\ WF_vars(\E p \in Process : CloseListener(p))
-----------------------------------------------------------------------------
TypeOK ==
  /\ SessionTypeOK
  /\ ServiceTypeOK
  /\ phase \in Phase
  /\ phase = "stopped" <=> \A p \in Process : ~Running(p)
  /\ client \in [Client -> ClientState]
  /\ sent \subseteq Client
  /\ backlog \in Seq(Client)
  /\ serving \in Client \cup {NoClient}
  /\ serving # NoClient <=> phase = "reading"
  /\ executed \in [Client -> Nat]
  /\ shown \subseteq Window
  /\ metadata_of \in [Window -> Metadata]
  /\ events \in Seq(Event)
  /\ news \subseteq Window

\* A request is handled at most once, whatever becomes of its client, of its
\* connection and of the process; a client that was told of a success had its
\* request handled, and one that is still waiting had not.
AnswersMatchExecution ==
  \A c \in Client :
    /\ executed[c] <= 1
    /\ client[c] = "success" => executed[c] = 1
    /\ client[c] \in {"idle", "connected", "waiting"} => executed[c] = 0

\* A request that is answered with an error has left the desktop as it was:
\* layout, camera, windows, pending launch and hooks.  (The mode, the consumed
\* chords and the configuration it may have changed: PressInput, ReloadConfig.)
FailedRequestsLeaveTheDesktop ==
  [][\A c \in Client :
       executed'[c] # executed[c] /\ client'[c] = "error" =>
         UNCHANGED <<coreVars, pending_spawn, hookVars>>]_vars

\* As long as the quota lasts, a window that opens runs its hook: no earlier
\* hook, reload, failed request or window has left the dispatcher busy or used
\* up what the quota allows.
HooksRunWithinQuota ==
  [][phase = "events" /\ phase' = "events" /\ ~(windows' \subseteq windows)
     /\ "on_window_open" \in Hook /\ dispatched < HookLimit
       => dispatched' = dispatched + 1]_vars

\* Once the events of an iteration are applied, the core manages the windows
\* that the server shows, and the rules have seen what their clients set last,
\* whatever was set before a window was mapped or while it was away.
RulesSeeCurrentMetadata ==
  phase \in {"poll", "reading", "reload"} =>
    /\ windows = shown
    /\ \A w \in Window :
         window_metadata[w] = IF w \in shown THEN metadata_of[w] ELSE NoMetadata

\* The rules act on launch and layout only for a window that is shown anew, goes
\* away or has another title since the last iteration: however often a client
\* redraws, is resized or repeats its title, and whatever the user has asked for
\* in between, what the user has cancelled or selected is not undone.
RulesActOnNews ==
  [][phase = "events" /\ phase' = "events" /\ <<pending_spawn, layout>>' # <<pending_spawn, layout>>
       => Head(events).window \in news]_vars

\* A client that has sent its request and waits for as long as it takes is
\* answered or disconnected, whatever the clients before it send, or do not
\* send, and whatever becomes of the process.
PatientClientsAreAnswered ==
  \A c \in Patient : client[c] = "waiting" ~> client[c] # "waiting"
=============================================================================
