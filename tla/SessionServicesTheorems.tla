---------------------- MODULE SessionServicesTheorems ----------------------
(***************************************************************************)
(* A session with its services is a session: whatever clients, windows and *)
(* the loop do, processes and files behave as SessionProcess says, so that *)
(* all that is proved there holds here.  What a client is told matches     *)
(* what was done for it, for any number of clients; the rules see every    *)
(* window that is shown under its current title; and evaluating the rules  *)
(* comes to what RuleEvaluation says of it, for lists of any length.       *)
(***************************************************************************)
EXTENDS SessionServices, SessionProcessTheorems, FiniteSetTheorems, WellFoundedInduction

\* Every step of the whole is a step of the session or leaves it alone.
THEOREM ServicesImplementSession == Spec => SessionSpec
  <1>1. Init => SessionInit
    BY DEF Init
  <1>2. ASSUME [Next]_vars PROVE [SessionNext]_sessionVars
    <2>1. CASE \E p \in Process :
                 SessionOnly(Start(p) \/ Install(p) \/ OpenLogger(p) \/ RejectConfiguration(p))
      BY <2>1 DEF SessionOnly, SessionNext, Configure
    <2>2. CASE \E p \in Process : StartCoordinator(p) \/ StartLoop(p)
      BY <2>2 DEF StartCoordinator, StartLoop, SessionNext, Configure
    <2>3. CASE \E p \in Process :
                 ReturnFromLoop(p) \/ CloseListener(p) \/ SessionOnly(DropLock(p)) \/ StopAbruptly(p)
      BY <2>3 DEF ReturnFromLoop, CloseListener, SessionOnly, StopAbruptly, SessionNext, End
    <2>4. CASE SessionOnly(RemoveStaleLock \/ \E d \in Default : EditDefault(d) \/ SaveInPlace(d))
      BY <2>4 DEF SessionOnly, SessionNext
    <2>5. CASE \E c \in Client : Connect(c) \/ Send(c) \/ GiveUp(c)
      BY <2>5 DEF Connect, Send, GiveUp
    <2>6. CASE WindowRequest \/ Loop
      BY <2>6 DEF WindowRequest, Loop
    <2>7. CASE UNCHANGED vars
      BY <2>7 DEF vars
    <2> QED BY <1>2, <2>1, <2>2, <2>3, <2>4, <2>5, <2>6, <2>7 DEF Next
  <1> QED BY <1>1, <1>2, PTL DEF Spec, SessionSpec
-----------------------------------------------------------------------------
(* Answers.  A connection holds the only chance of its client's request to *)
(* be handled: a client has at most one, from Connect to the reply, and    *)
(* nothing was handled for it before.                                      *)

OneConnection ==
  /\ \A i, j \in DOMAIN backlog : backlog[i] = backlog[j] => i = j
  /\ serving \notin Queued
  /\ \A c \in Client : client[c] = "idle" => c \notin Queued /\ c # serving

Unanswered ==
  \A c \in Client :
    c \in Queued \/ c = serving =>
      executed[c] = 0 /\ client[c] \in {"connected", "waiting", "failed"}

AnswersInv ==
  /\ client \in [Client -> ClientState]
  /\ executed \in [Client -> Nat]
  /\ backlog \in Seq(Client)
  /\ serving \in Client \cup {NoClient}
  /\ phase = "reading" => serving \in Client
  /\ OneConnection
  /\ Unanswered
  /\ AnswersMatchExecution

\* The first clients have no connections.
LEMMA InitAnswers == Init => AnswersInv
  BY ServicesAssumption DEF Init, AnswersInv, OneConnection, Unanswered, AnswersMatchExecution, Queued, ClientState

\* What is in a queue that has grown at its end.
LEMMA LongerQueue ==
  ASSUME backlog \in Seq(Client), NEW c \in Client
  PROVE  /\ Append(backlog, c) \in Seq(Client)
         /\ {Append(backlog, c)[i] : i \in DOMAIN Append(backlog, c)}
              = {backlog[i] : i \in DOMAIN backlog} \cup {c}
  <1>1. Append(backlog, c) \in Seq(Client)
    OBVIOUS
  <1>2. DOMAIN Append(backlog, c) = DOMAIN backlog \cup {Len(backlog) + 1}
    OBVIOUS
  <1>3. \A i \in DOMAIN backlog : Append(backlog, c)[i] = backlog[i]
    OBVIOUS
  <1>4. Append(backlog, c)[Len(backlog) + 1] = c
    OBVIOUS
  <1> QED BY <1>1, <1>2, <1>3, <1>4

\* A client's own steps: it connects once, with one new connection at the end
\* of the queue, sends, and gives up.
LEMMA ClientKeepsAnswers ==
  ASSUME AnswersInv, NEW c \in Client, Connect(c) \/ Send(c) \/ GiveUp(c)
  PROVE  AnswersInv'
  <1> USE DEF AnswersInv, OneConnection, Unanswered, AnswersMatchExecution, ClientState
  <1>1. CASE Connect(c) /\ backlog' = Append(backlog, c)
    <2> USE <1>1 DEF Connect
    <2>1. Queued' = Queued \cup {c}
      <3>1. backlog' = Append(backlog, c) /\ backlog \in Seq(Client)
        OBVIOUS
      <3> QED BY ONLY <3>1, LongerQueue DEF Queued
    <2>2. backlog' \in Seq(Client) /\ client' \in [Client -> ClientState]
      BY LongerQueue
    <2>3. \A i, j \in DOMAIN backlog' : backlog'[i] = backlog'[j] => i = j
      BY DEF Queued
    <2>4. client[c] = "idle" /\ \A d \in Client \ {c} : client'[d] = client[d]
      OBVIOUS
    <2>5. OneConnection' /\ Unanswered' /\ AnswersMatchExecution'
      BY <2>1, <2>3, <2>4
    <2> QED BY <2>2, <2>5
  <1>2. CASE (Connect(c) /\ backlog' = backlog) \/ Send(c) \/ GiveUp(c)
    <2> USE <1>2 DEF Connect, Send, GiveUp
    <2>1. Queued' = Queued /\ client' \in [Client -> ClientState]
      BY DEF Queued
    <2>2. \A d \in Client \ {c} : client'[d] = client[d]
      OBVIOUS
    <2>3. client'[c] \in {"connected", "waiting", "failed"} /\ executed[c] = 0
      OBVIOUS
    <2>4. OneConnection' /\ Unanswered' /\ AnswersMatchExecution'
      BY <2>1, <2>2, <2>3
    <2> QED BY <2>1, <2>4
  <1> QED BY <1>1, <1>2 DEF Connect

\* The connection at the head of the queue becomes the one that is served.
LEMMA AcceptKeepsAnswers ==
  ASSUME AnswersInv, Accept
  PROVE  AnswersInv'
  <1> USE DEF AnswersInv, OneConnection, Unanswered, AnswersMatchExecution, Accept
  <1>1. serving' = backlog[1] /\ serving' \in Client /\ backlog' \in Seq(Client)
    OBVIOUS
  <1>2. \A i \in DOMAIN backlog' : i + 1 \in DOMAIN backlog /\ backlog'[i] = backlog[i + 1]
    OBVIOUS
  <1>3. Queued' \subseteq Queued /\ serving' \in Queued /\ serving' \notin Queued'
    BY <1>1, <1>2 DEF Queued
  <1>4. \A i, j \in DOMAIN backlog' : backlog'[i] = backlog'[j] => i = j
    BY <1>2
  <1> QED BY <1>1, <1>3, <1>4

\* A reply ends the connection, and with it the client's one request.
LEMMA ReplyKeepsAnswers ==
  ASSUME AnswersInv, ServeRequest \/ RefuseRequest
  PROVE  AnswersInv'
  <1> USE DEF AnswersInv, OneConnection, Unanswered, AnswersMatchExecution
  <1>1. PICK result \in {"success", "error"} :
          Reply(result) /\ (result = "success" => ServeRequest)
    BY DEF ServeRequest, RefuseRequest
  <1>2. serving \in Client
    BY DEF ServeRequest, RefuseRequest
  <1>3. client' \in [Client -> ClientState] /\ client'[serving] \in {"failed", result}
    BY <1>1, <1>2 DEF Reply, ClientState
  <1>4. \A c \in Client \ {serving} : client'[c] = client[c] /\ executed'[c] = executed[c]
    BY <1>1, <1>2 DEF Reply, ServeRequest, RefuseRequest
  <1>5. executed[serving] = 0
    BY <1>2
  <1>6. executed' \in [Client -> Nat] /\ executed'[serving] \in {0, 1}
    BY <1>2, <1>5 DEF ServeRequest, RefuseRequest
  <1>7. ServeRequest => executed'[serving] = 1
    BY <1>2, <1>5 DEF ServeRequest
  <1>8. backlog' = backlog /\ Queued' = Queued /\ serving' = NoClient /\ phase' = "reload"
    BY <1>1 DEF Reply, Queued
  <1>9. NoClient \notin Client /\ Queued \subseteq Client
    BY ServicesAssumption DEF Queued
  <1>10. AnswersMatchExecution'
    BY <1>1, <1>2, <1>3, <1>4, <1>6, <1>7
  <1>11. OneConnection' /\ Unanswered'
    BY <1>2, <1>3, <1>4, <1>8, <1>9
  <1> QED BY <1>3, <1>6, <1>8, <1>10, <1>11

\* Whoever is disconnected is told nothing, and no connection is left of its.
LEMMA DisconnectKeepsAnswers ==
  ASSUME AnswersInv, phase' # "reading",
         Disconnect(Open, <<>>) \/ Disconnect({serving}, backlog)
  PROVE  AnswersInv'
  <1> USE DEF AnswersInv, OneConnection, Unanswered, AnswersMatchExecution, Disconnect
  <1>1. /\ client' \in [Client -> ClientState]
        /\ \A c \in Client :
             \/ client'[c] = client[c]
             \/ client[c] \in {"connected", "waiting"} /\ client'[c] = "failed"
    <2>1. CASE Disconnect(Open, <<>>) BY <2>1 DEF ClientState
    <2>2. CASE Disconnect({serving}, backlog) BY <2>2 DEF ClientState
    <2> QED BY <2>1, <2>2
  <1>2. executed' = executed /\ serving' = NoClient /\ NoClient \notin Client
    BY ServicesAssumption
  <1>3. backlog' \in Seq(Client) /\ Queued' \subseteq Queued /\ Queued \subseteq Client
    <2>1. backlog \in Seq(Client) /\ Queued \subseteq Client
      BY DEF Queued
    <2>2. CASE backlog' = <<>>
      BY <2>1, <2>2 DEF Queued
    <2>3. CASE backlog' = backlog
      BY <2>1, <2>3 DEF Queued
    <2> QED BY <2>2, <2>3
  <1>4. \A i, j \in DOMAIN backlog' : backlog'[i] = backlog'[j] => i = j
    OBVIOUS
  <1>5. OneConnection' /\ Unanswered' /\ AnswersMatchExecution'
    BY <1>1, <1>2, <1>3, <1>4
  <1> QED BY <1>1, <1>2, <1>3, <1>5

\* Nothing else touches a connection.
LEMMA OthersKeepAnswers ==
  ASSUME AnswersInv, UNCHANGED ipcVars, phase' # "reading" \/ UNCHANGED phase
  PROVE  AnswersInv'
  BY DEF AnswersInv, OneConnection, Unanswered, AnswersMatchExecution, ipcVars, Queued

\* The loop only runs in a process that is running.
LoopIsRun == phase # "stopped" => \E p \in Process : Running(p)

\* The process that starts its loop is running, and ends it when it stops.
LEMMA StepKeepsLoop ==
  ASSUME SessionInv, LoopIsRun, [Next]_vars
  PROVE  LoopIsRun'
  <1> USE DEF SessionInv, SessionTypeOK, LoopIsRun, Running, Goto
  <1>1. CASE \E p \in Process :
               \/ SessionOnly(Start(p) \/ Install(p) \/ OpenLogger(p) \/ RejectConfiguration(p))
               \/ SessionOnly(DropLock(p)) \/ StartCoordinator(p) \/ CloseListener(p)
    BY <1>1 DEF SessionOnly, StartCoordinator, CloseListener, Start, Install, OpenLogger,
      RejectConfiguration, AcquireLock, RefuseStart, LeaveRefused, CreateDefault, WriteDefault,
      WriteFails, PreserveDefault, Installed, ClearMarker, WriteMarker, ArchiveLog, StartLog,
      LoadConfiguration, DropServer, DropLock
  <1>2. CASE \E p \in Process : StartLoop(p)
    BY <1>2 DEF StartLoop, BindSocket
  <1>3. CASE \E p \in Process : ReturnFromLoop(p)
    BY <1>3 DEF ReturnFromLoop, StopLoop
  <1>4. ASSUME NEW p \in Process, StopAbruptly(p) PROVE LoopIsRun'
    <2>1. CASE step[p] = "running"
      BY <1>4, <2>1 DEF StopAbruptly, StopLoop
    <2>2. CASE step[p] # "running"
      <3>1. phase' # "stopped" => phase # "stopped"
        BY <1>4 DEF StopAbruptly, StopLoop
      <3>2. \A q \in Process : step[q] = "running" => step'[q] = "running"
        BY <1>4, <2>2 DEF StopAbruptly, Die, Panic
      <3> QED BY <3>1, <3>2
    <2> QED BY <2>1, <2>2
  <1>5. CASE UNCHANGED step /\ (phase' = "stopped" => phase = "stopped")
             /\ (phase = "stopped" => phase' = "stopped")
    BY <1>5
  <1>6. CASE SessionOnly(RemoveStaleLock \/ \E d \in Default : EditDefault(d) \/ SaveInPlace(d))
    BY <1>5, <1>6 DEF SessionOnly, RemoveStaleLock, EditDefault, SaveInPlace
  <1>7. CASE WindowRequest \/ \E c \in Client : Connect(c) \/ Send(c) \/ GiveUp(c)
    BY <1>5, <1>7 DEF WindowRequest, Connect, Send, GiveUp, sessionVars
  <1>8. CASE Loop
    BY <1>8 DEF Loop, LoopStep, sessionVars
  <1>9. CASE UNCHANGED vars
    BY <1>5, <1>9 DEF vars, sessionVars
  <1> QED BY <1>1, <1>2, <1>3, <1>4, <1>6, <1>7, <1>8, <1>9 DEF Next

\* Every step of the whole keeps the answers.
LEMMA StepKeepsAnswers ==
  ASSUME SessionInv, LoopIsRun, AnswersInv, [Next]_vars
  PROVE  AnswersInv'
  <1>1. CASE \E p \in Process :
               \/ SessionOnly(Start(p) \/ Install(p) \/ OpenLogger(p) \/ RejectConfiguration(p))
               \/ SessionOnly(DropLock(p))
    BY <1>1, OthersKeepAnswers DEF SessionOnly
  <1>2. CASE \E p \in Process : StartCoordinator(p) \/ StartLoop(p) \/ ReturnFromLoop(p)
    BY <1>2, OthersKeepAnswers DEF StartCoordinator, StartLoop, ReturnFromLoop, StopLoop
  <1>3. ASSUME NEW p \in Process, CloseListener(p) PROVE AnswersInv'
    <2>1. phase = "stopped"
      BY <1>3 DEF CloseListener, DropServer, LoopIsRun, Running, SessionInv, LockIsHeld, Holding
    <2> QED BY <1>3, <2>1, DisconnectKeepsAnswers DEF CloseListener
  <1>4. ASSUME NEW p \in Process, StopAbruptly(p) PROVE AnswersInv'
    <2>1. phase' # "reading" \/ (step[p] \notin {"binding", "running"} /\ phase' = phase)
      BY <1>4 DEF StopAbruptly, StopLoop
    <2>2. CASE UNCHANGED ipcVars
      BY <2>1, <2>2, OthersKeepAnswers
    <2>3. CASE ~UNCHANGED ipcVars
      <3>1. Listening(p) /\ (Disconnect(Open, <<>>) \/ Disconnect({serving}, backlog))
        BY <1>4, <2>3 DEF StopAbruptly, Listening, Running
      <3>2. phase' # "reading"
        <4>1. CASE step[p] = "running"
          BY <2>1, <4>1
        <4>2. CASE step[p] = "dropping"
          <5>1. phase = "stopped"
            BY <4>2 DEF LoopIsRun, Running, SessionInv, LockIsHeld, Holding
          <5> QED BY <2>1, <5>1
        <4> QED BY <3>1, <4>1, <4>2 DEF Listening
      <3> QED BY <3>1, <3>2, DisconnectKeepsAnswers
    <2> QED BY <2>2, <2>3
  <1>5. CASE SessionOnly(RemoveStaleLock \/ \E d \in Default : EditDefault(d) \/ SaveInPlace(d))
    BY <1>5, OthersKeepAnswers DEF SessionOnly
  <1>6. CASE WindowRequest \/ UNCHANGED vars
    BY <1>6, OthersKeepAnswers DEF WindowRequest, vars
  <1>7. CASE \E c \in Client : Connect(c) \/ Send(c) \/ GiveUp(c)
    BY <1>7, ClientKeepsAnswers
  <1>8. CASE Loop
    <2>1. CASE Accept \/ ServeRequest \/ RefuseRequest
      BY <2>1, AcceptKeepsAnswers, ReplyKeepsAnswers
    <2>2. CASE Dispatched \/ ApplyEvent \/ EventsDone \/ NothingToAccept \/ ReloadFiles
      BY <2>2, OthersKeepAnswers
      DEF Dispatched, ApplyEvent, EventsDone, NothingToAccept, ReloadFiles
    <2> QED BY <1>8, <2>1, <2>2 DEF Loop
  <1> QED BY <1>1, <1>2, <1>3, <1>4, <1>5, <1>6, <1>7, <1>8 DEF Next

\* What the replies rest on holds throughout.
THEOREM AnswersInvariant == Spec => [](AnswersInv /\ LoopIsRun)
  <1>1. Init => AnswersInv /\ LoopIsRun
    BY InitAnswers DEF Init, LoopIsRun
  <1>2. SessionInv /\ LoopIsRun /\ AnswersInv /\ [Next]_vars => LoopIsRun' /\ AnswersInv'
    BY StepKeepsLoop, StepKeepsAnswers
  <1> QED BY <1>1, <1>2, SessionInvariant, ServicesImplementSession, PTL DEF Spec

\* However many clients ask, give up and come at the end of a session, and
\* wherever the process stops: a request is handled at most once, and a client
\* is told of a success only when its request was handled.
THEOREM AnswersHold == Spec => []AnswersMatchExecution
  <1>1. AnswersInv => AnswersMatchExecution
    BY DEF AnswersInv
  <1> QED BY <1>1, AnswersInvariant, PTL

\* Of a session with its services, too: one process per configuration root, a
\* socket that is its process's, unclean ends that are reported, defaults that
\* only a death leaves half written, and user files that are kept.
THEOREM ServicesKeepSession ==
  Spec => /\ []OneInstance
          /\ []SocketIsServed
          /\ []UncleanEndIsReported
          /\ []TornOnlyByDeath
          /\ UserFilesAreKept
  BY ServicesImplementSession, OneInstanceHolds, SocketHolds, UncleanEndHolds, TornHolds,
    UserFilesHold, PTL
-----------------------------------------------------------------------------
(* Requests and events.                                                    *)

\* An action that cannot be dispatched changes neither launch nor layout.
LEMMA FailedAction ==
  ASSUME NEW action, DispatchAction(Now, action).fails
  PROVE  DispatchAction(Now, action) = [Now EXCEPT !.fails = TRUE]
  BY DEF DispatchAction, Now, Effect, BeginPendingSpawn, CancelPendingSpawn, SelectLayout

\* No method both fails and touches the desktop.
LEMMA FailedRequest ==
  ASSUME NEW request \in Request, HandleIpc(request, "error")
  PROVE  UNCHANGED <<coreVars, pending_spawn, hookVars>>
  <1> USE DEF coreVars, hookVars, inputVars, Answer
  <1>1. CASE \E workspace : SwitchWorkspace(workspace, "error")
    BY <1>1 DEF SwitchWorkspace
  <1>2. ASSUME NEW chord, PressInput(chord, "error")
        PROVE  UNCHANGED <<coreVars, pending_spawn, hookVars>>
    <2>1. CASE chord = Missing \/ Binding[mode][chord] = Unbound
      BY <1>2, <2>1 DEF PressInput
    <2>2. CASE ~(chord = Missing \/ Binding[mode][chord] = Unbound)
      <3> DEFINE done == DispatchAction(Now, Binding[mode][chord])
      <3>1. done.fails /\ Commit(done) /\ UNCHANGED <<camera, windows, hookVars>>
        BY <1>2, <2>2 DEF PressInput
      <3>2. done.spawn = pending_spawn /\ done.layout = layout
        BY <3>1, FailedAction DEF Now, Effect
      <3> QED BY <3>1, <3>2 DEF Commit
    <2> QED BY <2>1, <2>2
  <1>3. CASE \E argument : ReleaseInput(argument, "error") \/ SetCamera(argument, "error")
                            \/ SelectConfiguredLayout(argument, "error")
    BY <1>3 DEF ReleaseInput, SetCamera, SelectConfiguredLayout
  <1>4. CASE \E launch : SpawnPending(launch, "error")
    BY <1>4 DEF SpawnPending, BeginPendingSpawn, Commit, Now, Effect
  <1>5. CASE Status("error") \/ SpawnCancel("error") \/ ReloadConfig("error")
             \/ UnknownMethod("error")
    BY <1>5 DEF Status, SpawnCancel, ReloadConfig, UnknownMethod, serviceVars
  <1> QED BY <1>1, <1>2, <1>3, <1>4, <1>5 DEF HandleIpc

\* Only ServeRequest handles requests, and it answers what HandleIpc returns.
LEMMA OnlyServed ==
  ASSUME [Next]_vars, executed' # executed
  PROVE  ServeRequest
  BY DEF Next, vars, ipcVars, SessionOnly, StartCoordinator, StartLoop, ReturnFromLoop,
    CloseListener, StopAbruptly, Disconnect, Connect, Send, GiveUp, WindowRequest, Loop,
    Dispatched, ApplyEvent, EventsDone, Accept, NothingToAccept, RefuseRequest, Reply,
    ReloadFiles

\* Whatever is configured and asked: what is answered with an error has not
\* touched layout, camera, windows, pending launch or hooks.
THEOREM FailedRequestsHold == Spec => FailedRequestsLeaveTheDesktop
  <1>1. ASSUME AnswersInv, [Next]_vars, NEW c \in Client,
               executed'[c] # executed[c], client'[c] = "error"
        PROVE  UNCHANGED <<coreVars, pending_spawn, hookVars>>
    <2>1. ServeRequest
      BY <1>1, OnlyServed
    <2>2. PICK request \in Request, result \in {"success", "error"} :
            HandleIpc(request, result) /\ Reply(result)
      BY <2>1 DEF ServeRequest
    <2>3. c = serving
      BY <1>1, <2>1 DEF ServeRequest, AnswersInv
    <2>4. result = "error"
      BY <1>1, <2>2, <2>3 DEF Reply, AnswersInv, Unanswered, ClientState
    <2> QED BY <2>2, <2>4, FailedRequest
  <1>2. AnswersInv /\ [Next]_vars =>
          [\A c \in Client :
             executed'[c] # executed[c] /\ client'[c] = "error" =>
               UNCHANGED <<coreVars, pending_spawn, hookVars>>]_vars
    BY <1>1
  <1> QED BY <1>2, AnswersInvariant, PTL DEF Spec, FailedRequestsLeaveTheDesktop

\* What events and rules rest on: windows are windows, and between two steps
\* of the loop no hook is left begun.
WindowsInv ==
  /\ windows \subseteq Window
  /\ window_metadata \in [Window -> Metadata \cup {NoMetadata}]
  /\ metadata_of \in [Window -> Metadata]
  /\ events \in Seq(Event)
  /\ hook_active = FALSE

\* What an event is.
LEMMA EventFields ==
  ASSUME NEW event \in Event
  PROVE  /\ event.window \in Window
         /\ event.kind \notin {"Mapped", "Unmapped"} => event.metadata \in Metadata
  BY DEF Event

\* A queue of events that has grown by one or two.
LEMMA LongerEvents ==
  ASSUME events \in Seq(Event)
  PROVE  /\ \A e \in Event : events \o <<e>> \in Seq(Event)
         /\ \A e, f \in Event : events \o <<e, f>> \in Seq(Event)
  <1>1. ASSUME NEW e \in Event PROVE events \o <<e>> \in Seq(Event)
    OBVIOUS
  <1>2. ASSUME NEW e \in Event, NEW f \in Event PROVE events \o <<e, f>> \in Seq(Event)
    <2>1. <<e, f>> \in Seq(Event)
      OBVIOUS
    <2> QED BY <2>1
  <1> QED BY <1>1, <1>2

\* What windows and their clients queue.
LEMMA WindowRequestKeepsWindows ==
  ASSUME WindowsInv, WindowRequest
  PROVE  WindowsInv'
  <1> USE DEF WindowsInv
  <1>1. UNCHANGED <<windows, window_metadata, hook_active>>
    BY DEF WindowRequest, serviceVars, coreVars, hookVars
  <1>2. PICK w \in Window :
          CommitWindow(w) \/ (\E m \in Metadata : SetMetadata(w, m)) \/ UnmapWindow(w)
    BY DEF WindowRequest
  <1>3. metadata_of' \in [Window -> Metadata]
    BY <1>2 DEF CommitWindow, SetMetadata, UnmapWindow
  <1>4. events' \in Seq(Event)
    <2>1. /\ [kind |-> "Mapped", window |-> w] \in Event
          /\ [kind |-> "Unmapped", window |-> w] \in Event
          /\ \A m \in Metadata : MetadataEvent(w, m) \in Event
      BY DEF Event, MetadataEvent
    <2>2. MetadataEvent(w, metadata_of[w]) \in Event
      BY <2>1
    <2>3. CASE CommitWindow(w)
      BY <2>1, <2>2, <2>3, LongerEvents DEF CommitWindow, Enqueue
    <2>4. CASE \E m \in Metadata : SetMetadata(w, m)
      BY <2>1, <2>4, LongerEvents DEF SetMetadata, Enqueue
    <2>5. CASE UnmapWindow(w)
      BY <2>1, <2>5, LongerEvents DEF UnmapWindow, Enqueue
    <2> QED BY <1>2, <2>3, <2>4, <2>5
  <1> QED BY <1>1, <1>3, <1>4

\* Every dispatch finishes the hook it begins.
LEMMA DispatchFinishes ==
  ASSUME hook_active = FALSE, NEW event, DispatchHook(event)
  PROVE  hook_active' = FALSE
  BY DEF DispatchHook, CanBegin, hookVars

\* No method begins a hook without finishing it, or touches a window.
LEMMA RequestKeepsWindows ==
  ASSUME WindowsInv, NEW request \in Request, NEW result \in {"success", "error"},
         HandleIpc(request, result)
  PROVE  UNCHANGED <<windows, window_metadata, hook_active>>
  <1> USE DEF WindowsInv, coreVars, hookVars, inputVars, serviceVars
  <1>1. CASE \E workspace : SwitchWorkspace(workspace, result)
    BY <1>1, DispatchFinishes DEF SwitchWorkspace
  <1>2. CASE \E argument :
               \/ PressInput(argument, result) \/ ReleaseInput(argument, result)
               \/ SetCamera(argument, result) \/ SelectConfiguredLayout(argument, result)
               \/ SpawnPending(argument, result)
    BY <1>2 DEF PressInput, ReleaseInput, SetCamera, SelectConfiguredLayout, SpawnPending
  <1>3. CASE Status(result) \/ SpawnCancel(result) \/ ReloadConfig(result)
             \/ UnknownMethod(result)
    BY <1>3 DEF Status, SpawnCancel, ReloadConfig, UnknownMethod
  <1> QED BY <1>1, <1>2, <1>3 DEF HandleIpc

\* An event is for a window, and is taken off the queue.
LEMMA EventKeepsWindows ==
  ASSUME WindowsInv, ApplyEvent
  PROVE  WindowsInv'
  <1> USE DEF WindowsInv
  <1> DEFINE event == Head(events)
  <1>1. event \in Event /\ events' \in Seq(Event) /\ metadata_of' = metadata_of
    BY DEF ApplyEvent
  <1>2. event.window \in Window
    BY <1>1, EventFields
  <1>3. CASE WindowMapped(event.window)
    BY <1>1, <1>2, <1>3, DispatchFinishes DEF WindowMapped, hookVars
  <1>4. CASE WindowUnmapped(event.window)
    BY <1>1, <1>2, <1>4 DEF WindowUnmapped, hookVars
  <1>5. CASE event.kind \notin {"Mapped", "Unmapped"}
             /\ WindowMetadataChanged(event.window, event.metadata)
    <2>1. event.metadata \in Metadata
      BY <1>1, <1>5, EventFields
    <2> QED BY <1>1, <1>2, <1>5, <2>1 DEF WindowMetadataChanged, hookVars
  <1> QED BY <1>3, <1>4, <1>5 DEF ApplyEvent

\* Every step of the whole keeps windows what they are.
LEMMA StepKeepsWindows ==
  ASSUME WindowsInv, [Next]_vars
  PROVE  WindowsInv'
  <1> USE DEF WindowsInv, serviceVars, coreVars, hookVars, windowVars
  <1>1. CASE UNCHANGED <<serviceVars, windowVars>>
    BY <1>1
  <1>2. CASE StopLoop
    BY <1>2 DEF StopLoop, ForgetServices
  <1>3. CASE \E p \in Process :
               \/ SessionOnly(Start(p) \/ Install(p) \/ OpenLogger(p) \/ RejectConfiguration(p))
               \/ SessionOnly(DropLock(p)) \/ StartLoop(p) \/ CloseListener(p)
    BY <1>1, <1>3 DEF SessionOnly, StartLoop, CloseListener
  <1>4. CASE \E p \in Process : StartCoordinator(p)
    BY <1>4 DEF StartCoordinator, StartServices
  <1>5. CASE \E p \in Process : ReturnFromLoop(p) \/ StopAbruptly(p)
    BY <1>1, <1>2, <1>5 DEF ReturnFromLoop, StopAbruptly
  <1>6. CASE SessionOnly(RemoveStaleLock \/ \E d \in Default : EditDefault(d) \/ SaveInPlace(d))
    BY <1>1, <1>6 DEF SessionOnly
  <1>7. CASE \E c \in Client : Connect(c) \/ Send(c) \/ GiveUp(c)
    BY <1>1, <1>7 DEF Connect, Send, GiveUp
  <1>8. CASE Loop
    <2>1. CASE Dispatched \/ EventsDone \/ Accept \/ NothingToAccept \/ RefuseRequest
      BY <1>1, <2>1 DEF Dispatched, EventsDone, Accept, NothingToAccept, RefuseRequest, Reply
    <2>2. CASE ServeRequest
      BY <2>2, RequestKeepsWindows DEF ServeRequest, Reply
    <2>3. CASE ReloadFiles
      BY <2>3, DispatchFinishes DEF ReloadFiles, PollReload
    <2> QED BY <1>8, <2>1, <2>2, <2>3, EventKeepsWindows DEF Loop
  <1> QED BY <1>1, <1>3, <1>4, <1>5, <1>6, <1>7, <1>8, WindowRequestKeepsWindows DEF Next, vars

\* Windows are windows, events are events, and no hook is left begun.
THEOREM WindowsInvariant == Spec => []WindowsInv
  <1>1. Init => WindowsInv
    BY DEF Init, ServiceInit, WindowsInv
  <1>2. WindowsInv /\ [Next]_vars => WindowsInv'
    BY StepKeepsWindows
  <1> QED BY <1>1, <1>2, PTL DEF Spec

\* While events are handled, nothing but an event changes the desktop.
LEMMA OnlyEvents ==
  ASSUME [Next]_vars, phase = "events", phase' = "events"
  PROVE  ApplyEvent \/ UNCHANGED <<coreVars, pending_spawn>>
  <1> USE DEF serviceVars
  <1>1. CASE \E p \in Process :
               \/ SessionOnly(Start(p) \/ Install(p) \/ OpenLogger(p) \/ RejectConfiguration(p))
               \/ SessionOnly(DropLock(p)) \/ StartLoop(p) \/ CloseListener(p)
    <2>1. PICK p \in Process :
                 \/ SessionOnly(Start(p) \/ Install(p) \/ OpenLogger(p) \/ RejectConfiguration(p))
                 \/ SessionOnly(DropLock(p)) \/ StartLoop(p) \/ CloseListener(p)
      BY <1>1
    <2>2. phase' # "clients"
      OBVIOUS
    <2> QED BY <2>1, <2>2 DEF SessionOnly, StartLoop, CloseListener
  <1>2. CASE \E p \in Process : StartCoordinator(p)
    BY <1>2 DEF StartCoordinator, StartServices
  <1>3. CASE \E p \in Process : ReturnFromLoop(p) \/ StopAbruptly(p)
    BY <1>3 DEF ReturnFromLoop, StopAbruptly, StopLoop
  <1>4. CASE SessionOnly(RemoveStaleLock \/ \E d \in Default : EditDefault(d) \/ SaveInPlace(d))
    BY <1>4 DEF SessionOnly
  <1>5. CASE WindowRequest \/ UNCHANGED vars
    BY <1>5 DEF WindowRequest, vars
  <1>6. CASE \E c \in Client : Connect(c) \/ Send(c) \/ GiveUp(c)
    BY <1>6 DEF Connect, Send, GiveUp
  <1>7. CASE Loop
    BY <1>7 DEF Loop, Dispatched, EventsDone, Accept, NothingToAccept, ServeRequest, RefuseRequest,
      ReloadFiles
  <1> QED BY <1>1, <1>2, <1>3, <1>4, <1>5, <1>6, <1>7 DEF Next

\* Whatever hooks, requests, reloads and windows came before: a window that
\* opens while the quota lasts runs its hook.
THEOREM HooksHold == Spec => HooksRunWithinQuota
  <1>1. ASSUME WindowsInv, [Next]_vars, phase = "events", phase' = "events",
               ~(windows' \subseteq windows), "on_window_open" \in Hook, dispatched < HookLimit
        PROVE  dispatched' = dispatched + 1
    <2>1. ApplyEvent
      BY <1>1, OnlyEvents DEF coreVars
    <2>2. PICK w : WindowMapped(w) \/ WindowUnmapped(w) \/ \E m : WindowMetadataChanged(w, m)
      BY <2>1 DEF ApplyEvent
    <2>3. WindowMapped(w) /\ w \notin windows
      BY <1>1, <2>2 DEF WindowMapped, WindowUnmapped, WindowMetadataChanged
    <2> QED BY <1>1, <2>3 DEF WindowMapped, DispatchHook, CanBegin, WindowsInv
  <1>2. WindowsInv /\ [Next]_vars =>
          [phase = "events" /\ phase' = "events" /\ ~(windows' \subseteq windows)
             /\ "on_window_open" \in Hook /\ dispatched < HookLimit
             => dispatched' = dispatched + 1]_vars
    BY <1>1
  <1> QED BY <1>2, WindowsInvariant, PTL DEF Spec, HooksRunWithinQuota
-----------------------------------------------------------------------------
(* What the rules see.  Windows and metadata of the core lag behind the    *)
(* server's by what is queued: a window that the server shows was mapped   *)
(* at some place of the queue, or before it, and not unmapped since, and   *)
(* what its client set last is announced after that place, or known.       *)

IsEvent(j, kind, w) == events[j].kind = kind /\ events[j].window = w

\* The window is mapped from the k-th event on, with 0 for what was applied.
MappedFrom(w, k) ==
  /\ IF k = 0 THEN w \in windows ELSE IsEvent(k, "Mapped", w)
  /\ \A j \in k + 1 .. Len(events) : ~IsEvent(j, "Unmapped", w)

\* The i-th event announces, to a window mapped at the k-th, what is current.
ToldAt(w, k, i) ==
  /\ IF i = 0 THEN k = 0 /\ window_metadata[w] = metadata_of[w]
     ELSE k < i /\ events[i] = MetadataEvent(w, metadata_of[w])
  /\ \A j \in i + 1 .. Len(events) :
       IsEvent(j, "MetadataChanged", w) => events[j].metadata = metadata_of[w]

GoneFrom(w, k) ==
  /\ IF k = 0 THEN w \notin windows ELSE IsEvent(k, "Unmapped", w)
  /\ \A j \in k + 1 .. Len(events) : ~IsEvent(j, "Mapped", w)

InSight(w) == \E k, i \in 0 .. Len(events) : MappedFrom(w, k) /\ ToldAt(w, k, i)

OutOfSight(w) == \E k \in 0 .. Len(events) : GoneFrom(w, k)

MetadataInv ==
  /\ shown \subseteq Window
  /\ \A w \in shown : InSight(w)
  /\ \A w \in Window \ shown : OutOfSight(w)
  /\ \A w \in Window \ windows : window_metadata[w] = NoMetadata
  /\ phase \in {"poll", "reading", "reload"} => events = <<>>

\* What is left of a queue when its head is taken.
LEMMA ShorterEvents ==
  ASSUME events \in Seq(Event), events # <<>>, events' = Tail(events)
  PROVE  /\ Len(events) \in Nat \ {0} /\ Len(events') = Len(events) - 1
         /\ \A j \in 1 .. Len(events') : events'[j] = events[j + 1]
  OBVIOUS

\* What the event at the head of the queue makes of windows and metadata.
LEMMA EventEffect ==
  ASSUME WindowsInv, ApplyEvent, NEW w \in Window
  PROVE  /\ events[1] \in Event
         /\ IsEvent(1, "Mapped", w) => w \in windows'
         /\ IsEvent(1, "Unmapped", w) => w \notin windows'
         /\ ~IsEvent(1, "Mapped", w) /\ w \notin windows => w \notin windows'
         /\ ~IsEvent(1, "Unmapped", w) /\ w \in windows => w \in windows'
         /\ w \in windows /\ IsEvent(1, "MetadataChanged", w)
              => window_metadata'[w] = events[1].metadata
         /\ w \in windows' /\ ~IsEvent(1, "MetadataChanged", w)
              => window_metadata'[w] = window_metadata[w]
         /\ w \notin windows /\ window_metadata[w] = NoMetadata
              => window_metadata'[w] = NoMetadata
         /\ w \in windows /\ w \notin windows' => window_metadata'[w] = NoMetadata
  <1> DEFINE event == Head(events)
  <1>1. event = events[1] /\ event \in Event
    BY DEF ApplyEvent, WindowsInv
  <1>2. event.kind \in {"Mapped", "Unmapped", "MetadataChanged"} /\ event.window \in Window
    BY <1>1 DEF Event
  <1> HIDE DEF event
  <1>3. CASE event.kind = "Mapped"
    <2>1. WindowMapped(event.window)
      BY <1>3 DEF ApplyEvent, event
    <2> QED BY <1>1, <1>3, <2>1 DEF WindowMapped, IsEvent
  <1>4. CASE event.kind = "Unmapped"
    <2>1. WindowUnmapped(event.window)
      BY <1>4 DEF ApplyEvent, event
    <2> QED BY <1>1, <1>2, <1>4, <2>1 DEF WindowUnmapped, IsEvent, WindowsInv
  <1>5. CASE event.kind = "MetadataChanged"
    <2>1. WindowMetadataChanged(event.window, event.metadata)
      BY <1>5 DEF ApplyEvent, event
    <2>2. windows' = windows
      BY <2>1 DEF WindowMetadataChanged
    <2>3. \/ event.window \in windows
             /\ window_metadata' = [window_metadata EXCEPT ![event.window] = event.metadata]
          \/ window_metadata' = window_metadata
             /\ (event.window \in windows => window_metadata[event.window] = event.metadata)
      BY <2>1 DEF WindowMetadataChanged
    <2> QED BY <1>1, <1>2, <1>5, <2>2, <2>3 DEF IsEvent, WindowsInv
  <1> QED BY <1>2, <1>3, <1>4, <1>5

\* A window in sight stays there when an event is applied, one place nearer.
LEMMA EventKeepsInSight ==
  ASSUME WindowsInv, ApplyEvent, NEW w \in Window, InSight(w)
  PROVE  InSight(w)'
  <1>1. /\ Len(events) \in Nat \ {0} /\ Len(events') = Len(events) - 1
        /\ \A j \in 1 .. Len(events') : events'[j] = events[j + 1]
    BY ShorterEvents DEF WindowsInv, ApplyEvent
  <1>2. PICK k \in 0 .. Len(events), i \in 0 .. Len(events) : MappedFrom(w, k) /\ ToldAt(w, k, i)
    BY DEF InSight
  <1>3. metadata_of' = metadata_of
    BY DEF ApplyEvent
  <1> DEFINE l == IF k = 0 THEN 0 ELSE k - 1
             h == IF i = 0 THEN 0 ELSE i - 1
  <1>4. l \in 0 .. Len(events') /\ h \in 0 .. Len(events')
    BY <1>1
  <1>5. \A j \in 1 .. Len(events'), kind \in {"Unmapped", "MetadataChanged", "Mapped"} :
          IsEvent(j, kind, w)' <=> IsEvent(j + 1, kind, w)
    BY <1>1 DEF IsEvent
  <1>6. k = 0 => ~IsEvent(1, "Unmapped", w)
    BY <1>1, <1>2 DEF MappedFrom
  <1>7. MappedFrom(w, l)'
    <2>1. \A j \in l + 1 .. Len(events') : j \in 1 .. Len(events') /\ j + 1 \in k + 1 .. Len(events)
      BY <1>1
    <2>2. \A j \in l + 1 .. Len(events') : ~IsEvent(j, "Unmapped", w)'
      BY <1>2, <1>5, <2>1 DEF MappedFrom
    <2>3. CASE k = 0
      <3>1. w \in windows'
        BY <1>2, <1>6, <2>3, EventEffect DEF MappedFrom
      <3> QED BY <2>2, <2>3, <3>1 DEF MappedFrom
    <2>4. CASE k = 1
      <3>1. w \in windows'
        BY <1>2, <2>4, EventEffect DEF MappedFrom
      <3> QED BY <2>2, <2>4, <3>1 DEF MappedFrom
    <2>5. CASE k > 1
      <3>1. l \in 1 .. Len(events') /\ l + 1 = k /\ l # 0
        BY <1>1, <2>5
      <3>2. IsEvent(l, "Mapped", w)'
        BY <1>2, <1>5, <2>5, <3>1 DEF MappedFrom
      <3> QED BY <2>2, <3>1, <3>2 DEF MappedFrom
    <2> QED BY <2>3, <2>4, <2>5
  <1>8. ToldAt(w, l, h)'
    <2>1. \A j \in h + 1 .. Len(events') : j \in 1 .. Len(events') /\ j + 1 \in i + 1 .. Len(events)
      BY <1>1
    <2>2. \A j \in h + 1 .. Len(events') :
            IsEvent(j, "MetadataChanged", w)' => events'[j].metadata = metadata_of[w]
      BY <1>1, <1>2, <1>5, <2>1 DEF ToldAt
    <2>3. CASE i = 0
      <3>1. k = 0 /\ w \in windows /\ window_metadata[w] = metadata_of[w]
        BY <1>2, <2>3 DEF ToldAt, MappedFrom
      <3>2. w \in windows'
        BY <1>6, <3>1, EventEffect
      <3>3. IsEvent(1, "MetadataChanged", w) => events[1].metadata = metadata_of[w]
        BY <1>1, <1>2, <2>3 DEF ToldAt
      <3>4. window_metadata'[w] = metadata_of[w]
        BY <3>1, <3>2, <3>3, EventEffect
      <3> QED BY <1>3, <2>2, <2>3, <3>1, <3>4 DEF ToldAt
    <2>4. CASE i = 1
      <3>1. k = 0 /\ events[1] = MetadataEvent(w, metadata_of[w])
        BY <1>2, <2>4 DEF ToldAt
      <3>2. IsEvent(1, "MetadataChanged", w) /\ events[1].metadata = metadata_of[w]
        BY <3>1 DEF IsEvent, MetadataEvent
      <3>3. w \in windows
        BY <1>2, <3>1 DEF MappedFrom
      <3>4. window_metadata'[w] = metadata_of[w]
        BY <3>2, <3>3, EventEffect
      <3> QED BY <1>3, <2>2, <2>4, <3>1, <3>4 DEF ToldAt
    <2>5. CASE i > 1
      <3>1. h \in 1 .. Len(events') /\ h + 1 = i /\ h # 0
        BY <1>1, <2>5
      <3>2. k < i /\ events[i] = MetadataEvent(w, metadata_of[w])
        BY <1>2, <2>5 DEF ToldAt
      <3>3. events'[h] = MetadataEvent(w, metadata_of'[w]) /\ l < h
        BY <1>1, <1>3, <2>5, <3>1, <3>2
      <3> QED BY <1>3, <2>2, <3>1, <3>3 DEF ToldAt, MetadataEvent
    <2> QED BY <2>3, <2>4, <2>5
  <1> HIDE DEF l, h
  <1> QED BY <1>4, <1>7, <1>8 DEF InSight

\* ... and one out of sight stays out of it.
LEMMA EventKeepsOutOfSight ==
  ASSUME WindowsInv, ApplyEvent, NEW w \in Window, OutOfSight(w)
  PROVE  OutOfSight(w)'
  <1>1. /\ Len(events) \in Nat \ {0} /\ Len(events') = Len(events) - 1
        /\ \A j \in 1 .. Len(events') : events'[j] = events[j + 1]
    BY ShorterEvents DEF WindowsInv, ApplyEvent
  <1>2. PICK k \in 0 .. Len(events) : GoneFrom(w, k)
    BY DEF OutOfSight
  <1> DEFINE l == IF k = 0 THEN 0 ELSE k - 1
  <1>3. \A j \in 1 .. Len(events'), kind \in {"Unmapped", "Mapped"} :
          IsEvent(j, kind, w)' <=> IsEvent(j + 1, kind, w)
    BY <1>1 DEF IsEvent
  <1>4. l \in 0 .. Len(events')
    BY <1>1
  <1>5. \A j \in l + 1 .. Len(events') : j \in 1 .. Len(events') /\ j + 1 \in k + 1 .. Len(events)
    BY <1>1
  <1>6. \A j \in l + 1 .. Len(events') : ~IsEvent(j, "Mapped", w)'
    BY <1>2, <1>3, <1>5 DEF GoneFrom
  <1>7. CASE k = 0
    <2>1. ~IsEvent(1, "Mapped", w)
      BY <1>1, <1>2, <1>7 DEF GoneFrom
    <2>2. w \notin windows'
      BY <1>2, <1>7, <2>1, EventEffect DEF GoneFrom
    <2> QED BY <1>4, <1>6, <1>7, <2>2 DEF GoneFrom, OutOfSight
  <1>8. CASE k = 1
    <2>1. w \notin windows'
      BY <1>2, <1>8, EventEffect DEF GoneFrom
    <2> QED BY <1>4, <1>6, <1>8, <2>1 DEF GoneFrom, OutOfSight
  <1>9. CASE k > 1
    <2>1. l \in 1 .. Len(events') /\ l + 1 = k /\ l # 0
      BY <1>1, <1>9
    <2>2. IsEvent(l, "Unmapped", w)'
      BY <1>2, <1>3, <1>9, <2>1 DEF GoneFrom
    <2> QED BY <1>4, <1>6, <2>1, <2>2 DEF GoneFrom, OutOfSight
  <1> QED BY <1>7, <1>8, <1>9

\* An event brings core and server nearer to each other.
LEMMA EventKeepsMetadata ==
  ASSUME WindowsInv, MetadataInv, ApplyEvent
  PROVE  MetadataInv'
  <1>1. shown' = shown /\ phase' = phase /\ phase = "events"
    BY DEF ApplyEvent
  <1>2. \A w \in shown' : InSight(w)'
    BY <1>1, EventKeepsInSight DEF MetadataInv
  <1>3. \A w \in Window \ shown' : OutOfSight(w)'
    BY <1>1, EventKeepsOutOfSight DEF MetadataInv
  <1>4. ASSUME NEW w \in Window, w \notin windows'
        PROVE  window_metadata'[w] = NoMetadata
    BY <1>4, EventEffect DEF MetadataInv
  <1> QED BY <1>1, <1>2, <1>3, <1>4 DEF MetadataInv

\* What was queued stays where it is when the queue grows.
LEMMA GrownEvents ==
  ASSUME events \in Seq(Event), NEW new \in Seq(Event), events' = events \o new
  PROVE  /\ Len(events) \in Nat /\ Len(new) \in Nat /\ Len(events') = Len(events) + Len(new)
         /\ \A j \in 1 .. Len(events) : events'[j] = events[j]
         /\ \A j \in 1 .. Len(new) : events'[Len(events) + j] = new[j]
  OBVIOUS

\* A window that nothing unmaps and nothing new is said of stays in sight.
LEMMA QueueKeepsInSight ==
  ASSUME WindowsInv, NEW new \in Seq(Event), events' = events \o new,
         NEW w \in Window, InSight(w), UNCHANGED <<windows, window_metadata>>,
         metadata_of'[w] = metadata_of[w],
         \A j \in 1 .. Len(new) :
           new[j].window = w =>
             /\ new[j].kind # "Unmapped"
             /\ new[j].kind = "MetadataChanged" => new[j].metadata = metadata_of[w]
  PROVE  InSight(w)'
  <1>1. /\ Len(events) \in Nat /\ Len(new) \in Nat /\ Len(events') = Len(events) + Len(new)
        /\ \A j \in 1 .. Len(events) : events'[j] = events[j]
        /\ \A j \in 1 .. Len(new) : events'[Len(events) + j] = new[j]
    BY GrownEvents DEF WindowsInv
  <1>2. PICK k \in 0 .. Len(events), i \in 0 .. Len(events) : MappedFrom(w, k) /\ ToldAt(w, k, i)
    BY DEF InSight
  <1>3. \A j \in Len(events) + 1 .. Len(events') :
          \E l \in 1 .. Len(new) : events'[j] = new[l]
    <2> SUFFICES ASSUME NEW j \in Len(events) + 1 .. Len(events')
                 PROVE  \E l \in 1 .. Len(new) : events'[j] = new[l]
      OBVIOUS
    <2>1. j - Len(events) \in 1 .. Len(new) /\ Len(events) + (j - Len(events)) = j
      BY <1>1
    <2>2. events'[j] = new[j - Len(events)]
      BY <1>1, <2>1
    <2> QED BY <2>1, <2>2
  <1>4. \A j \in Len(events) + 1 .. Len(events') :
          events'[j].window = w =>
            /\ events'[j].kind # "Unmapped"
            /\ events'[j].kind = "MetadataChanged" => events'[j].metadata = metadata_of[w]
    BY <1>3
  <1>5. MappedFrom(w, k)'
    <2>1. ASSUME NEW j \in k + 1 .. Len(events') PROVE ~IsEvent(j, "Unmapped", w)'
      <3>1. CASE j \in k + 1 .. Len(events)
        <4>1. events'[j] = events[j]
          BY <1>1, <3>1
        <4> QED BY <1>2, <3>1, <4>1 DEF MappedFrom, IsEvent
      <3>2. CASE j \in Len(events) + 1 .. Len(events')
        BY <1>4, <3>2 DEF IsEvent
      <3> QED BY <1>1, <3>1, <3>2
    <2>2. k = 0 => w \in windows'
      BY <1>2 DEF MappedFrom
    <2>3. k # 0 => IsEvent(k, "Mapped", w)'
      BY <1>1, <1>2 DEF MappedFrom, IsEvent
    <2> QED BY <2>1, <2>2, <2>3 DEF MappedFrom
  <1>6. ToldAt(w, k, i)'
    <2>1. ASSUME NEW j \in i + 1 .. Len(events')
          PROVE  IsEvent(j, "MetadataChanged", w)' => events'[j].metadata = metadata_of'[w]
      <3>1. CASE j \in i + 1 .. Len(events)
        <4>1. events'[j] = events[j]
          BY <1>1, <3>1
        <4> QED BY <1>2, <3>1, <4>1 DEF ToldAt, IsEvent
      <3>2. CASE j \in Len(events) + 1 .. Len(events')
        BY <1>4, <3>2 DEF IsEvent
      <3> QED BY <1>1, <3>1, <3>2
    <2>2. i = 0 => k = 0 /\ window_metadata'[w] = metadata_of'[w]
      BY <1>2 DEF ToldAt
    <2>3. i # 0 => k < i /\ events'[i] = MetadataEvent(w, metadata_of'[w])
      BY <1>1, <1>2 DEF ToldAt
    <2> QED BY <2>1, <2>2, <2>3 DEF ToldAt, MetadataEvent
  <1>7. k \in 0 .. Len(events') /\ i \in 0 .. Len(events')
    BY <1>1
  <1> QED BY <1>5, <1>6, <1>7 DEF InSight

\* A window that nothing maps stays out of sight.
LEMMA QueueKeepsOutOfSight ==
  ASSUME WindowsInv, NEW new \in Seq(Event), events' = events \o new,
         NEW w \in Window, OutOfSight(w), UNCHANGED windows,
         \A j \in 1 .. Len(new) : new[j].window = w => new[j].kind # "Mapped"
  PROVE  OutOfSight(w)'
  <1>1. /\ Len(events) \in Nat /\ Len(new) \in Nat /\ Len(events') = Len(events) + Len(new)
        /\ \A j \in 1 .. Len(events) : events'[j] = events[j]
        /\ \A j \in 1 .. Len(new) : events'[Len(events) + j] = new[j]
    BY GrownEvents DEF WindowsInv
  <1>2. PICK k \in 0 .. Len(events) : GoneFrom(w, k)
    BY DEF OutOfSight
  <1>3. ASSUME NEW j \in k + 1 .. Len(events') PROVE ~IsEvent(j, "Mapped", w)'
    <2>1. CASE j \in k + 1 .. Len(events)
      <3>1. events'[j] = events[j]
        BY <1>1, <2>1
      <3> QED BY <1>2, <2>1, <3>1 DEF GoneFrom, IsEvent
    <2>2. CASE j \in Len(events) + 1 .. Len(events')
      <3>1. j - Len(events) \in 1 .. Len(new) /\ Len(events) + (j - Len(events)) = j
        BY <1>1, <2>2
      <3>2. events'[j] = new[j - Len(events)]
        BY <1>1, <3>1
      <3> QED BY <3>1, <3>2 DEF IsEvent
    <2> QED BY <1>1, <2>1, <2>2
  <1>4. k = 0 => w \notin windows'
    BY <1>2 DEF GoneFrom
  <1>5. k # 0 => IsEvent(k, "Unmapped", w)'
    BY <1>1, <1>2 DEF GoneFrom, IsEvent
  <1>6. k \in 0 .. Len(events')
    BY <1>1
  <1>7. GoneFrom(w, k)'
    BY <1>3, <1>4, <1>5 DEF GoneFrom
  <1> QED BY <1>6, <1>7 DEF OutOfSight

\* A commit maps its window at the end of the queue and announces what its
\* client has set, unless it is in sight already.
LEMMA CommitKeepsMetadata ==
  ASSUME WindowsInv, MetadataInv, NEW v \in Window, CommitWindow(v),
         UNCHANGED <<windows, window_metadata, phase>>
  PROVE  MetadataInv'
  <1> DEFINE mapped == [kind |-> "Mapped", window |-> v]
             new == <<mapped, MetadataEvent(v, metadata_of[v])>>
  <1>1. events' = events \o new /\ shown' = shown \cup {v} /\ metadata_of' = metadata_of
        /\ phase = "clients"
    BY DEF CommitWindow, Enqueue
  <1>2. new \in Seq(Event) /\ Len(new) = 2 /\ new[1] = mapped
        /\ new[2] = MetadataEvent(v, metadata_of[v])
    <2>1. metadata_of[v] \in Metadata
      BY DEF WindowsInv
    <2>2. mapped \in Event /\ MetadataEvent(v, metadata_of[v]) \in Event
      BY <2>1 DEF Event, MetadataEvent
    <2> QED BY <2>2
  <1>3. \A j \in 1 .. Len(new) :
          /\ new[j].window = v /\ new[j].kind # "Unmapped"
          /\ new[j].kind = "MetadataChanged" => new[j].metadata = metadata_of[v]
    BY <1>2 DEF MetadataEvent
  <1> HIDE DEF new
  <1>4. ASSUME NEW w \in shown PROVE InSight(w)'
    BY <1>1, <1>2, <1>3, QueueKeepsInSight DEF MetadataInv
  <1>5. ASSUME NEW w \in Window \ shown' PROVE OutOfSight(w)'
    BY <1>1, <1>2, <1>3, QueueKeepsOutOfSight DEF MetadataInv
  <1>6. CASE v \notin shown
    <2>0. /\ Len(events) \in Nat /\ Len(events') = Len(events) + Len(new)
          /\ \A j \in 1 .. Len(new) : events'[Len(events) + j] = new[j]
      BY <1>1, <1>2, GrownEvents DEF WindowsInv
    <2>1. /\ Len(events) \in Nat /\ Len(events') = Len(events) + 2
          /\ events'[Len(events) + 1] = mapped
          /\ events'[Len(events) + 2] = MetadataEvent(v, metadata_of[v])
      <3>1. 1 \in 1 .. Len(new) /\ 2 \in 1 .. Len(new)
        BY <1>2
      <3> QED BY <1>2, <2>0, <3>1
    <2> PICK k \in Nat, i \in Nat : k = Len(events) + 1 /\ i = Len(events) + 2
      BY <2>1
    <2>2. k \in 0 .. Len(events') /\ i \in 0 .. Len(events') /\ k # 0 /\ i # 0 /\ k < i
      BY <2>1
    <2>3. IsEvent(k, "Mapped", v)'
      BY <2>1 DEF IsEvent
    <2>4. events'[i] = MetadataEvent(v, metadata_of'[v]) /\ ~IsEvent(i, "Unmapped", v)'
      BY <1>1, <2>1 DEF IsEvent, MetadataEvent
    <2>5. \A j \in k + 1 .. Len(events') : j = i
      BY <2>1
    <2>6. \A j \in i + 1 .. Len(events') : FALSE
      BY <2>1
    <2>7. MappedFrom(v, k)'
      BY <2>2, <2>3, <2>4, <2>5 DEF MappedFrom
    <2>8. ToldAt(v, k, i)'
      BY <2>2, <2>4, <2>6 DEF ToldAt, MetadataEvent
    <2>9. InSight(v)'
      BY <2>2, <2>7, <2>8 DEF InSight
    <2> QED BY <1>1, <1>4, <1>5, <2>9 DEF MetadataInv
  <1>7. CASE v \in shown
    BY <1>1, <1>4, <1>5, <1>7 DEF MetadataInv
  <1> QED BY <1>6, <1>7

\* What a client sets is announced, whether or not its window is in sight.
LEMMA SetKeepsMetadata ==
  ASSUME WindowsInv, MetadataInv, NEW v \in Window, NEW m \in Metadata, SetMetadata(v, m),
         UNCHANGED <<windows, window_metadata, phase>>
  PROVE  MetadataInv'
  <1> DEFINE new == <<MetadataEvent(v, m)>>
  <1>1. events' = events \o new /\ shown' = shown /\ phase = "clients"
        /\ metadata_of' = [metadata_of EXCEPT ![v] = m]
    BY DEF SetMetadata, Enqueue
  <1>2. new \in Seq(Event) /\ Len(new) = 1 /\ new[1] = MetadataEvent(v, m)
    BY DEF Event, MetadataEvent
  <1>3. \A j \in 1 .. Len(new) : new[j].window = v /\ new[j].kind = "MetadataChanged"
    BY <1>2 DEF MetadataEvent
  <1>4. metadata_of'[v] = m /\ \A w \in Window \ {v} : metadata_of'[w] = metadata_of[w]
    BY <1>1 DEF WindowsInv
  <1> HIDE DEF new
  <1>5. ASSUME NEW w \in Window \ shown' PROVE OutOfSight(w)'
    BY <1>1, <1>2, <1>3, QueueKeepsOutOfSight DEF MetadataInv
  <1>6. ASSUME NEW w \in shown, w # v PROVE InSight(w)'
    BY <1>1, <1>2, <1>3, <1>4, <1>6, QueueKeepsInSight DEF MetadataInv
  <1>7. ASSUME v \in shown PROVE InSight(v)'
    <2>1. /\ Len(events) \in Nat /\ Len(events') = Len(events) + 1
          /\ \A j \in 1 .. Len(events) : events'[j] = events[j]
          /\ events'[Len(events) + 1] = MetadataEvent(v, m)
      <3>1. 1 \in 1 .. Len(new)
        BY <1>2
      <3> QED BY <1>1, <1>2, <3>1, GrownEvents DEF WindowsInv
    <2>2. PICK k \in 0 .. Len(events) : MappedFrom(v, k)
      BY <1>7 DEF MetadataInv, InSight
    <2> PICK i \in Nat : i = Len(events) + 1
      BY <2>1
    <2>3. k \in 0 .. Len(events') /\ i \in 0 .. Len(events') /\ i # 0 /\ k < i
      BY <2>1
    <2>4. \A j \in k + 1 .. Len(events') : j \in k + 1 .. Len(events) \/ j = i
      BY <2>1
    <2>5. events'[i] = MetadataEvent(v, metadata_of'[v]) /\ ~IsEvent(i, "Unmapped", v)'
      BY <1>4, <2>1 DEF IsEvent, MetadataEvent
    <2>6. \A j \in i + 1 .. Len(events') : FALSE
      BY <2>1
    <2>7. \A j \in k + 1 .. Len(events') : ~IsEvent(j, "Unmapped", v)'
      <3>1. ASSUME NEW j \in k + 1 .. Len(events) PROVE ~IsEvent(j, "Unmapped", v)'
        <4>1. events'[j] = events[j]
          BY <2>1
        <4> QED BY <2>2, <4>1 DEF MappedFrom, IsEvent
      <3> QED BY <2>4, <2>5, <3>1
    <2>8. MappedFrom(v, k)'
      <3>1. k # 0 => IsEvent(k, "Mapped", v)'
        BY <2>1, <2>2 DEF MappedFrom, IsEvent
      <3>2. k = 0 => v \in windows'
        BY <2>2 DEF MappedFrom
      <3> QED BY <2>7, <3>1, <3>2 DEF MappedFrom
    <2>9. ToldAt(v, k, i)'
      BY <2>3, <2>5, <2>6 DEF ToldAt, MetadataEvent
    <2> QED BY <2>3, <2>8, <2>9 DEF InSight
  <1> QED BY <1>1, <1>5, <1>6, <1>7 DEF MetadataInv

\* An unmapped window is out of sight once the event is applied.
LEMMA UnmapKeepsMetadata ==
  ASSUME WindowsInv, MetadataInv, NEW v \in Window, UnmapWindow(v),
         UNCHANGED <<windows, window_metadata, phase>>
  PROVE  MetadataInv'
  <1> DEFINE unmapped == [kind |-> "Unmapped", window |-> v]
             new == <<unmapped>>
  <1>1. events' = events \o new /\ shown' = shown \ {v} /\ metadata_of' = metadata_of
        /\ phase = "clients"
    BY DEF UnmapWindow, Enqueue
  <1>2. new \in Seq(Event) /\ Len(new) = 1 /\ new[1] = unmapped
    BY DEF Event
  <1>3. \A j \in 1 .. Len(new) : new[j].window = v /\ new[j].kind = "Unmapped"
    BY <1>2
  <1> HIDE DEF new
  <1>4. ASSUME NEW w \in shown' PROVE InSight(w)'
    BY <1>1, <1>2, <1>3, QueueKeepsInSight DEF MetadataInv
  <1>5. ASSUME NEW w \in Window \ shown PROVE OutOfSight(w)'
    BY <1>1, <1>2, <1>3, QueueKeepsOutOfSight DEF MetadataInv
  <1>6. OutOfSight(v)'
    <2>1. Len(events) \in Nat /\ Len(events') = Len(events) + 1
          /\ events'[Len(events) + 1] = unmapped
      <3>1. 1 \in 1 .. Len(new)
        BY <1>2
      <3> QED BY <1>1, <1>2, <3>1, GrownEvents DEF WindowsInv
    <2> PICK k \in Nat : k = Len(events) + 1
      BY <2>1
    <2>2. k \in 0 .. Len(events') /\ k # 0 /\ IsEvent(k, "Unmapped", v)'
      BY <2>1 DEF IsEvent
    <2>3. \A j \in k + 1 .. Len(events') : FALSE
      BY <2>1
    <2> QED BY <2>2, <2>3 DEF GoneFrom, OutOfSight
  <1> QED BY <1>1, <1>4, <1>5, <1>6 DEF MetadataInv

\* Steps that leave windows and queue alone.
LEMMA OthersKeepMetadata ==
  ASSUME MetadataInv, UNCHANGED <<shown, metadata_of, events, windows, window_metadata>>,
         phase' \in {"poll", "reading", "reload"} => events = <<>>
  PROVE  MetadataInv'
  BY DEF MetadataInv, InSight, OutOfSight, MappedFrom, GoneFrom, ToldAt, IsEvent

\* When a process ends, core and server have no windows left.
LEMMA StopKeepsMetadata ==
  ASSUME WindowsInv, StopLoop
  PROVE  MetadataInv'
  <1>1. windows' = {} /\ shown' = {} /\ events' = <<>>
        /\ window_metadata' = [w \in Window |-> NoMetadata]
    BY DEF StopLoop, ForgetServices
  <1>2. \A w \in Window : GoneFrom(w, 0)'
    BY <1>1 DEF GoneFrom
  <1>3. \A w \in Window : OutOfSight(w)'
    BY <1>1, <1>2 DEF OutOfSight
  <1> QED BY <1>1, <1>3 DEF MetadataInv

\* Every step of the whole keeps core and server within one queue of each other.
LEMMA StepKeepsMetadata ==
  ASSUME WindowsInv, MetadataInv, [Next]_vars
  PROVE  MetadataInv'
  <1> USE DEF serviceVars, coreVars, windowVars
  <1>1. CASE UNCHANGED <<windowVars, serviceVars, phase>>
    BY <1>1, OthersKeepMetadata DEF MetadataInv
  <1>2. CASE \E p \in Process :
               \/ SessionOnly(Start(p) \/ Install(p) \/ OpenLogger(p) \/ RejectConfiguration(p))
               \/ SessionOnly(DropLock(p)) \/ CloseListener(p)
    BY <1>1, <1>2 DEF SessionOnly, CloseListener
  <1>3. CASE \E p \in Process : StartCoordinator(p) \/ StartLoop(p)
    <2>1. UNCHANGED <<windowVars, windows, window_metadata>> /\ phase' \in {phase, "clients"}
      BY <1>3 DEF StartCoordinator, StartServices, StartLoop
    <2> QED BY <2>1, OthersKeepMetadata DEF MetadataInv
  <1>4. CASE \E p \in Process : ReturnFromLoop(p) \/ StopAbruptly(p)
    BY <1>1, <1>4, StopKeepsMetadata DEF ReturnFromLoop, StopAbruptly
  <1>5. CASE SessionOnly(RemoveStaleLock \/ \E d \in Default : EditDefault(d) \/ SaveInPlace(d))
    BY <1>1, <1>5 DEF SessionOnly
  <1>6. CASE \E c \in Client : Connect(c) \/ Send(c) \/ GiveUp(c)
    BY <1>1, <1>6 DEF Connect, Send, GiveUp
  <1>7. CASE WindowRequest
    <2>1. UNCHANGED <<windows, window_metadata, phase>>
      BY <1>7 DEF WindowRequest
    <2> QED BY <1>7, <2>1, CommitKeepsMetadata, SetKeepsMetadata, UnmapKeepsMetadata
      DEF WindowRequest
  <1>8. CASE Loop
    <2>1. CASE Dispatched \/ EventsDone \/ Accept \/ NothingToAccept
      <3>1. UNCHANGED <<shown, metadata_of, events, windows, window_metadata>>
        BY <2>1 DEF Dispatched, EventsDone, Accept, NothingToAccept
      <3>2. phase' \in {"poll", "reading", "reload"} => events = <<>>
        BY <2>1 DEF Dispatched, EventsDone, Accept, NothingToAccept, MetadataInv
      <3> QED BY <3>1, <3>2, OthersKeepMetadata
    <2>2. CASE ServeRequest \/ RefuseRequest
      <3>1. UNCHANGED <<windowVars, windows, window_metadata>>
        BY <2>2, RequestKeepsWindows DEF ServeRequest, RefuseRequest, Reply
      <3>2. events = <<>>
        BY <2>2 DEF ServeRequest, RefuseRequest, MetadataInv
      <3> QED BY <3>1, <3>2, OthersKeepMetadata
    <2>3. CASE ReloadFiles
      BY <2>3, OthersKeepMetadata DEF ReloadFiles, PollReload
    <2> QED BY <1>8, <2>1, <2>2, <2>3, EventKeepsMetadata DEF Loop
  <1>9. CASE UNCHANGED vars
    BY <1>1, <1>9 DEF vars
  <1> QED BY <1>2, <1>3, <1>4, <1>5, <1>6, <1>7, <1>8, <1>9 DEF Next

\* Where nothing is queued, nothing lags behind.
LEMMA NothingQueued ==
  ASSUME WindowsInv, MetadataInv
  PROVE  RulesSeeCurrentMetadata
  <1> SUFFICES ASSUME events = <<>>
               PROVE  /\ windows = shown
                      /\ \A w \in Window :
                           window_metadata[w] = IF w \in shown THEN metadata_of[w] ELSE NoMetadata
    BY DEF RulesSeeCurrentMetadata, MetadataInv
  <1>1. Len(events) = 0
    OBVIOUS
  <1>2. ASSUME NEW w \in shown PROVE w \in windows /\ window_metadata[w] = metadata_of[w]
    BY <1>1 DEF MetadataInv, InSight, MappedFrom, ToldAt
  <1>3. ASSUME NEW w \in Window \ shown PROVE w \notin windows
    BY <1>1 DEF MetadataInv, OutOfSight, GoneFrom
  <1> QED BY <1>2, <1>3 DEF MetadataInv, WindowsInv

\* Core and server are never more than one queue apart.
THEOREM MetadataInvariant == Spec => []MetadataInv
  <1>1. Init => MetadataInv
    <2> SUFFICES ASSUME Init PROVE MetadataInv
      OBVIOUS
    <2>1. \A w \in Window : GoneFrom(w, 0)
      BY DEF Init, ServiceInit, GoneFrom
    <2>2. \A w \in Window : OutOfSight(w)
      BY <2>1 DEF Init, OutOfSight
    <2> QED BY <2>2 DEF Init, ServiceInit, MetadataInv
  <1>2. WindowsInv /\ MetadataInv /\ [Next]_vars => MetadataInv'
    BY StepKeepsMetadata
  <1> QED BY <1>1, <1>2, WindowsInvariant, PTL DEF Spec

\* Whatever windows do while the loop handles events, requests and reloads: once
\* the queue is empty the core manages what the server shows, and the rules have
\* seen what every client set last.
THEOREM CurrentMetadataHolds == Spec => []RulesSeeCurrentMetadata
  <1>1. WindowsInv /\ MetadataInv => RulesSeeCurrentMetadata
    BY NothingQueued
  <1> QED BY <1>1, WindowsInvariant, MetadataInvariant, PTL

\* Of a window without news the core knows what the server knows, whatever of it
\* is still queued.
NewsInv ==
  /\ news \subseteq Window
  /\ \A w \in Window \ news :
       /\ w \in windows <=> w \in shown
       /\ w \in shown => window_metadata[w] = metadata_of[w]
       /\ \A j \in DOMAIN events :
            /\ ~IsEvent(j, "Unmapped", w)
            /\ IsEvent(j, "Mapped", w) => w \in shown
            /\ IsEvent(j, "MetadataChanged", w) /\ w \in shown
                 => events[j].metadata = metadata_of[w]

\* An event for a window without news is no news to rules and core.
LEMMA EventKeepsNews ==
  ASSUME WindowsInv, NewsInv, ApplyEvent
  PROVE  NewsInv'
  <1>1. /\ Len(events) \in Nat \ {0} /\ Len(events') = Len(events) - 1
        /\ \A j \in 1 .. Len(events') : events'[j] = events[j + 1]
    BY ShorterEvents DEF WindowsInv, ApplyEvent
  <1>2. news' = news /\ shown' = shown /\ metadata_of' = metadata_of
        /\ events' \in Seq(Event) /\ events \in Seq(Event)
    BY DEF ApplyEvent, WindowsInv
  <1>3. ASSUME NEW w \in Window \ news
        PROVE  /\ w \in windows' <=> w \in shown
               /\ w \in shown => window_metadata'[w] = metadata_of[w]
    <2>1. 1 \in DOMAIN events
      BY <1>1, <1>2
    <2>2. /\ w \in windows <=> w \in shown
          /\ w \in shown => window_metadata[w] = metadata_of[w]
          /\ ~IsEvent(1, "Unmapped", w)
          /\ IsEvent(1, "Mapped", w) => w \in shown
          /\ IsEvent(1, "MetadataChanged", w) /\ w \in shown
               => events[1].metadata = metadata_of[w]
      BY <1>3, <2>1 DEF NewsInv
    <2> QED BY <2>2, EventEffect
  <1>4. ASSUME NEW w \in Window \ news, NEW j \in DOMAIN events'
        PROVE  /\ ~IsEvent(j, "Unmapped", w)'
               /\ IsEvent(j, "Mapped", w)' => w \in shown
               /\ IsEvent(j, "MetadataChanged", w)' /\ w \in shown
                    => events'[j].metadata = metadata_of[w]
    <2>1. j + 1 \in DOMAIN events /\ events'[j] = events[j + 1]
      BY <1>1, <1>2
    <2>2. \A kind : IsEvent(j, kind, w)' <=> IsEvent(j + 1, kind, w)
      BY <2>1 DEF IsEvent
    <2> QED BY <1>4, <2>1, <2>2 DEF NewsInv
  <1> QED BY <1>2, <1>3, <1>4 DEF NewsInv

\* What windows and their clients do is news, unless it repeats what is known.
LEMMA QueueKeepsNews ==
  ASSUME WindowsInv, NewsInv, WindowRequest
  PROVE  NewsInv'
  <1>1. UNCHANGED <<windows, window_metadata>>
    BY DEF WindowRequest, serviceVars, coreVars
  <1>2. PICK v \in Window :
          CommitWindow(v) \/ (\E m \in Metadata : SetMetadata(v, m)) \/ UnmapWindow(v)
    BY DEF WindowRequest
  <1>3. news' \subseteq Window /\ news \subseteq news'
    BY <1>2 DEF CommitWindow, SetMetadata, UnmapWindow, NewsInv
  <1>4. \A w \in Window \ {v} : metadata_of'[w] = metadata_of[w] /\ (w \in shown' <=> w \in shown)
    BY <1>2 DEF CommitWindow, SetMetadata, UnmapWindow, WindowsInv
  <1>5. v \notin news' =>
          /\ v \in shown' <=> v \in shown
          /\ v \in shown => metadata_of'[v] = metadata_of[v]
    BY <1>2 DEF CommitWindow, SetMetadata, UnmapWindow, WindowsInv
  <1>6. PICK new \in Seq(Event) :
          /\ events' = events \o new
          /\ \A j \in 1 .. Len(new) :
               /\ new[j].window = v
               /\ v \notin news' =>
                    /\ new[j].kind # "Unmapped"
                    /\ new[j].kind = "Mapped" => v \in shown'
                    /\ new[j].kind = "MetadataChanged" => new[j].metadata = metadata_of'[v]
    <2>1. CASE CommitWindow(v)
      <3> DEFINE two == <<[kind |-> "Mapped", window |-> v], MetadataEvent(v, metadata_of[v])>>
      <3>1. two \in Seq(Event) /\ Len(two) = 2
        BY DEF Event, MetadataEvent, WindowsInv
      <3>2. events' = events \o two /\ v \in shown' /\ metadata_of' = metadata_of
        BY <2>1 DEF CommitWindow, Enqueue
      <3>3. \A j \in 1 .. Len(two) :
              /\ two[j].window = v /\ two[j].kind # "Unmapped"
              /\ two[j].kind = "MetadataChanged" => two[j].metadata = metadata_of[v]
        BY <3>1 DEF MetadataEvent
      <3> HIDE DEF two
      <3> QED BY <3>1, <3>2, <3>3
    <2>2. ASSUME NEW m \in Metadata, SetMetadata(v, m)
          PROVE  \E new \in Seq(Event) :
                   /\ events' = events \o new
                   /\ \A j \in 1 .. Len(new) :
                        /\ new[j].window = v
                        /\ v \notin news' =>
                             /\ new[j].kind # "Unmapped"
                             /\ new[j].kind = "Mapped" => v \in shown'
                             /\ new[j].kind = "MetadataChanged" => new[j].metadata = metadata_of'[v]
      <3> DEFINE one == <<MetadataEvent(v, m)>>
      <3>1. one \in Seq(Event) /\ Len(one) = 1
        BY DEF Event, MetadataEvent
      <3>2. events' = events \o one /\ metadata_of'[v] = m
        BY <2>2 DEF SetMetadata, Enqueue, WindowsInv
      <3>3. \A j \in 1 .. Len(one) :
              one[j].window = v /\ one[j].kind = "MetadataChanged" /\ one[j].metadata = m
        BY <3>1 DEF MetadataEvent
      <3> HIDE DEF one
      <3> QED BY <3>1, <3>2, <3>3
    <2>3. CASE UnmapWindow(v)
      <3> DEFINE one == <<[kind |-> "Unmapped", window |-> v]>>
      <3>1. one \in Seq(Event) /\ Len(one) = 1
        BY DEF Event
      <3>2. events' = events \o one /\ v \in news'
        BY <2>3 DEF UnmapWindow, Enqueue
      <3>3. \A j \in 1 .. Len(one) : one[j].window = v
        BY <3>1
      <3> HIDE DEF one
      <3> QED BY <3>1, <3>2, <3>3
    <2> QED BY <1>2, <2>1, <2>2, <2>3
  <1>7. /\ Len(events) \in Nat /\ Len(new) \in Nat /\ Len(events') = Len(events) + Len(new)
        /\ \A j \in 1 .. Len(events) : events'[j] = events[j]
        /\ \A j \in 1 .. Len(new) : events'[Len(events) + j] = new[j]
    BY <1>6, GrownEvents DEF WindowsInv
  <1>8. ASSUME NEW w \in Window \ news', NEW j \in DOMAIN events'
        PROVE  /\ ~IsEvent(j, "Unmapped", w)'
               /\ IsEvent(j, "Mapped", w)' => w \in shown'
               /\ IsEvent(j, "MetadataChanged", w)' /\ w \in shown'
                    => events'[j].metadata = metadata_of'[w]
    <2>1. CASE j \in 1 .. Len(events)
      <3>1. events'[j] = events[j] /\ j \in DOMAIN events
        BY <1>7, <2>1 DEF WindowsInv
      <3>2. w \notin news /\ (w \in shown' <=> w \in shown)
            /\ (w \in shown => metadata_of'[w] = metadata_of[w])
        BY <1>3, <1>4, <1>5, <1>8
      <3>3. /\ ~IsEvent(j, "Unmapped", w)
            /\ IsEvent(j, "Mapped", w) => w \in shown
            /\ IsEvent(j, "MetadataChanged", w) /\ w \in shown
                 => events[j].metadata = metadata_of[w]
        BY <3>1, <3>2 DEF NewsInv
      <3> QED BY <3>1, <3>2, <3>3 DEF IsEvent
    <2>2. CASE j \notin 1 .. Len(events)
      <3>1. events' \in Seq(Event)
        BY <1>6 DEF WindowsInv
      <3>2. j - Len(events) \in 1 .. Len(new) /\ Len(events) + (j - Len(events)) = j
        BY <1>7, <2>2, <3>1
      <3>3. events'[j] = new[j - Len(events)]
        BY <1>7, <3>2
      <3> QED BY <1>6, <1>8, <3>2, <3>3 DEF IsEvent
    <2> QED BY <2>1, <2>2
  <1>9. ASSUME NEW w \in Window \ news'
        PROVE  (w \in windows' <=> w \in shown') /\ (w \in shown' => window_metadata'[w] = metadata_of'[w])
    BY <1>1, <1>3, <1>4, <1>5, <1>9 DEF NewsInv
  <1> QED BY <1>3, <1>8, <1>9 DEF NewsInv

\* Once the events are applied there is no news of any window.
LEMMA DoneKeepsNews ==
  ASSUME WindowsInv, MetadataInv, EventsDone
  PROVE  NewsInv'
  <1>1. events = <<>> /\ news' = {}
        /\ UNCHANGED <<windows, window_metadata, shown, metadata_of, events>>
    BY DEF EventsDone, serviceVars, coreVars
  <1>2. Len(events) = 0
    BY <1>1
  <1>3. ASSUME NEW w \in shown PROVE w \in windows /\ window_metadata[w] = metadata_of[w]
    BY <1>2 DEF MetadataInv, InSight, MappedFrom, ToldAt
  <1>4. ASSUME NEW w \in Window \ shown PROVE w \notin windows
    BY <1>2 DEF MetadataInv, OutOfSight, GoneFrom
  <1> QED BY <1>1, <1>3, <1>4 DEF NewsInv

\* Steps that leave windows and queue alone.
LEMMA OthersKeepNews ==
  ASSUME NewsInv, UNCHANGED <<windowVars, windows, window_metadata>>
  PROVE  NewsInv'
  BY DEF NewsInv, IsEvent, windowVars

\* Every step of the whole keeps track of the news.
LEMMA StepKeepsNews ==
  ASSUME WindowsInv, MetadataInv, NewsInv, [Next]_vars
  PROVE  NewsInv'
  <1> USE DEF serviceVars, coreVars
  <1>1. CASE UNCHANGED <<windowVars, serviceVars>>
    BY <1>1, OthersKeepNews
  <1>2. CASE StopLoop
    BY <1>2 DEF StopLoop, ForgetServices, NewsInv
  <1>3. CASE \E p \in Process :
               \/ SessionOnly(Start(p) \/ Install(p) \/ OpenLogger(p) \/ RejectConfiguration(p))
               \/ SessionOnly(DropLock(p)) \/ CloseListener(p)
    BY <1>1, <1>3 DEF SessionOnly, CloseListener
  <1>4. CASE \E p \in Process : StartCoordinator(p) \/ StartLoop(p)
    BY <1>4, OthersKeepNews DEF StartCoordinator, StartServices, StartLoop
  <1>5. CASE \E p \in Process : ReturnFromLoop(p) \/ StopAbruptly(p)
    BY <1>1, <1>2, <1>5 DEF ReturnFromLoop, StopAbruptly
  <1>6. CASE SessionOnly(RemoveStaleLock \/ \E d \in Default : EditDefault(d) \/ SaveInPlace(d))
    BY <1>1, <1>6 DEF SessionOnly
  <1>7. CASE \E c \in Client : Connect(c) \/ Send(c) \/ GiveUp(c)
    BY <1>1, <1>7 DEF Connect, Send, GiveUp
  <1>8. CASE Loop
    <2>1. CASE Dispatched \/ Accept \/ NothingToAccept \/ RefuseRequest
      BY <1>1, <2>1 DEF Dispatched, Accept, NothingToAccept, RefuseRequest, Reply
    <2>2. CASE ServeRequest
      <3>1. UNCHANGED <<windowVars, windows, window_metadata>>
        BY <2>2, RequestKeepsWindows DEF ServeRequest, Reply
      <3> QED BY <3>1, OthersKeepNews
    <2>3. CASE ReloadFiles
      BY <2>3, OthersKeepNews DEF ReloadFiles, PollReload
    <2> QED BY <1>8, <2>1, <2>2, <2>3, EventKeepsNews, DoneKeepsNews DEF Loop
  <1>9. CASE UNCHANGED vars
    BY <1>1, <1>9 DEF vars
  <1> QED BY <1>3, <1>4, <1>5, <1>6, <1>7, <1>8, <1>9, QueueKeepsNews DEF Next

\* Core and server only differ in what is news.
THEOREM NewsInvariant == Spec => []NewsInv
  <1>1. Init => NewsInv
    BY DEF Init, ServiceInit, NewsInv
  <1>2. WindowsInv /\ MetadataInv /\ NewsInv /\ [Next]_vars => NewsInv'
    BY StepKeepsNews
  <1> QED BY <1>1, <1>2, WindowsInvariant, MetadataInvariant, PTL DEF Spec

\* Whatever the rules are, and however often clients redraw or repeat themselves
\* between what the user asks for: the rules change launch and layout only for a
\* window with news since the last iteration.
THEOREM RulesHold == Spec => RulesActOnNews
  <1>1. ASSUME WindowsInv, NewsInv, [Next]_vars, phase = "events", phase' = "events",
               <<pending_spawn, layout>>' # <<pending_spawn, layout>>
        PROVE  Head(events).window \in news
    <2> DEFINE event == Head(events)
    <2>1. ApplyEvent
      BY <1>1, OnlyEvents DEF coreVars
    <2>2. 1 \in DOMAIN events /\ event = events[1] /\ event \in Event
      BY <1>1, <2>1 DEF ApplyEvent, WindowsInv
    <2>3. event.window \in Window
      BY <2>2, EventFields
    <2>4. event.kind \notin {"Mapped", "Unmapped"}
      BY <1>1, <2>1 DEF ApplyEvent, WindowMapped, WindowUnmapped
    <2>5. event.kind = "MetadataChanged"
      BY <2>2, <2>4 DEF Event
    <2>6. WindowMetadataChanged(event.window, event.metadata)
      BY <2>1, <2>4 DEF ApplyEvent
    <2>7. event.window \in windows /\ window_metadata[event.window] # event.metadata
      BY <1>1, <2>6 DEF WindowMetadataChanged
    <2>8. IsEvent(1, "MetadataChanged", event.window)
      BY <2>2, <2>5 DEF IsEvent
    <2> HIDE DEF event
    <2>9. event.window \in news
      BY <1>1, <2>2, <2>3, <2>7, <2>8 DEF NewsInv
    <2> QED BY <2>9 DEF event
  <1>2. WindowsInv /\ NewsInv /\ [Next]_vars =>
          [phase = "events" /\ phase' = "events"
             /\ <<pending_spawn, layout>>' # <<pending_spawn, layout>>
             => Head(events).window \in news]_vars
    BY <1>1
  <1> QED BY <1>2, WindowsInvariant, NewsInvariant, PTL DEF Spec, RulesActOnNews
-----------------------------------------------------------------------------
(* Rules.  RuleOrder and the folds of Evaluate and DispatchAll for rules   *)
(* and actions of any number: a fold exists as a function on sets of       *)
(* numbers, and what it makes of the first i is a matter of induction,     *)
(* which is over the numbers in a set (UpTo).                              *)

\* What holds of 0 and of the successor of every number below n it holds of, it
\* holds of all numbers up to n.
LEMMA UpTo ==
  ASSUME NEW n \in Nat, NEW S, 0 \in S, \A i \in 0 .. n - 1 : i \in S => i + 1 \in S
  PROVE  0 .. n \subseteq S
  <1> SUFFICES ASSUME ~(0 .. n \subseteq S) PROVE FALSE
    OBVIOUS
  <1> DEFINE R == OpToRel(<, Nat)
             Others == (0 .. n) \ S
  <1>1. \A i, j \in Nat : <<j, i>> \in R <=> j < i
    BY DEF OpToRel
  <1>2. IsWellFoundedOn(R, Nat)
    BY NatLessThanWellFounded
  <1>3. Others \subseteq Nat /\ Others # {}
    OBVIOUS
  <1> HIDE DEF R, Others
  <1>4. PICK i \in Others : \A j \in Others : ~(<<j, i>> \in R)
    BY <1>2, <1>3, WFMin
  <1>5. i \in 1 .. n /\ i \notin S
    BY DEF Others
  <1>6. i - 1 \in 0 .. n - 1 /\ i - 1 \in Nat /\ i - 1 < i /\ (i - 1) + 1 = i
    BY <1>5
  <1>7. i - 1 \notin S
    BY <1>5, <1>6
  <1>8. i - 1 \in Others
    BY <1>6, <1>7 DEF Others
  <1>9. <<i - 1, i>> \in R
    BY <1>1, <1>5, <1>6
  <1> QED BY <1>4, <1>8, <1>9

\* The greatest of some numbers up to n.
LEMMA MaxOfSome ==
  ASSUME NEW n \in Nat, NEW S \in SUBSET (1 .. n), S # {}
  PROVE  Max(S) \in S /\ \A i \in S : i <= Max(S)
  <1> DEFINE P == {i \in Nat : (\E j \in S : j <= i) => \E j \in S : \A k \in S : k <= i => k <= j}
  <1>1. 0 \in P
    OBVIOUS
  <1>2. ASSUME NEW i \in 0 .. n - 1, i \in P PROVE i + 1 \in P
    <2>1. i + 1 \in Nat /\ \A k \in S : k <= i + 1 => k <= i \/ k = i + 1
      OBVIOUS
    <2>2. CASE i + 1 \in S
      BY <2>1, <2>2
    <2>3. CASE i + 1 \notin S
      BY <1>2, <2>1, <2>3
    <2> QED BY <2>2, <2>3
  <1> HIDE DEF P
  <1>3. n \in P
    BY <1>1, <1>2, UpTo
  <1>4. \E j \in S : \A k \in S : k <= n => k <= j
    BY <1>3 DEF P
  <1>5. \E j \in S : \A k \in S : j >= k
    BY <1>4
  <1>6. Max(S) \in S /\ \A k \in S : Max(S) >= k
    BY <1>5 DEF Max
  <1> QED BY <1>6

\* The function on sets of numbers that a fold defines, the greatest taken last.
IsFold(f, n, base, next) ==
  \A s \in SUBSET (1 .. n) :
    f[s] = IF s = {} THEN base ELSE next[<<f[s \ {Max(s)}], Max(s)>>]

\* It exists, whatever is folded.
LEMMA FoldExists ==
  ASSUME NEW n \in Nat, NEW T, NEW base \in T, NEW next \in [T \X (1 .. n) -> T]
  PROVE  \E f \in [SUBSET (1 .. n) -> T] : IsFold(f, n, base, next)
  <1> DEFINE P == {m \in 0 .. n : \E f \in [SUBSET (1 .. m) -> T] : IsFold(f, m, base, next)}
  <1> HIDE DEF P
  <1>1. 0 \in P
    <2>1. SUBSET (1 .. 0) = {{}}
      OBVIOUS
    <2> DEFINE f == [s \in SUBSET (1 .. 0) |-> base]
    <2>2. f \in [SUBSET (1 .. 0) -> T] /\ \A s \in SUBSET (1 .. 0) : s = {} /\ f[s] = base
      BY <2>1
    <2> HIDE DEF f
    <2>3. IsFold(f, 0, base, next)
      BY <2>2 DEF IsFold
    <2> QED BY <2>2, <2>3 DEF P
  <1>2. ASSUME NEW i \in 0 .. n - 1, i \in P PROVE i + 1 \in P
    <2>1. PICK f \in [SUBSET (1 .. i) -> T] : IsFold(f, i, base, next)
      BY <1>2 DEF P
    <2> DEFINE m == i + 1
    <2>2. m \in 1 .. n /\ 1 .. m = (1 .. i) \cup {m} /\ m \notin 1 .. i
      OBVIOUS
    <2> HIDE DEF m
    <2> DEFINE g == [s \in SUBSET (1 .. m) |->
                       IF m \in s THEN next[<<f[s \ {m}], m>>] ELSE f[s]]
    <2>3. \A s \in SUBSET (1 .. m) : s \ {m} \in SUBSET (1 .. i) /\ (m \notin s => s \in SUBSET (1 .. i))
      BY <2>2
    <2>4. g \in [SUBSET (1 .. m) -> T]
      <3>1. ASSUME NEW s \in SUBSET (1 .. m) PROVE f[s \ {m}] \in T /\ (m \notin s => f[s] \in T)
        BY <2>3
      <3>2. \A s \in SUBSET (1 .. m) : next[<<f[s \ {m}], m>>] \in T
        BY <2>2, <3>1
      <3> QED BY <3>1, <3>2
    <2>5. ASSUME NEW s \in SUBSET (1 .. m)
          PROVE  g[s] = IF s = {} THEN base ELSE next[<<g[s \ {Max(s)}], Max(s)>>]
      <3>1. CASE m \in s
        <4>1. m \in Nat /\ s \in SUBSET (1 .. m) /\ s # {} /\ \A k \in s : k \in Nat /\ k <= m
          BY <2>2, <3>1
        <4>2. Max(s) \in s /\ m <= Max(s)
          BY <3>1, <4>1, MaxOfSome
        <4>3. Max(s) \in Nat /\ Max(s) <= m
          BY <4>1, <4>2
        <4>4. Max(s) = m
          BY <4>1, <4>2, <4>3
        <4>5. s \ {m} \in SUBSET (1 .. m) /\ m \notin s \ {m}
          OBVIOUS
        <4>6. g[s \ {m}] = f[s \ {m}] /\ g[s] = next[<<f[s \ {m}], m>>]
          BY <3>1, <4>5
        <4> QED BY <4>1, <4>4, <4>6
      <3>2. CASE m \notin s
        <4>1. s \in SUBSET (1 .. i) /\ s \ {Max(s)} \in SUBSET (1 .. m) /\ m \notin s \ {Max(s)}
          BY <2>3, <3>2
        <4>2. g[s] = f[s] /\ g[s \ {Max(s)}] = f[s \ {Max(s)}]
          BY <3>2, <4>1
        <4> QED BY <2>1, <4>1, <4>2 DEF IsFold
      <3> QED BY <3>1, <3>2
    <2> HIDE DEF g
    <2>6. IsFold(g, m, base, next)
      BY <2>5 DEF IsFold
    <2>7. m \in P
      BY <2>2, <2>4, <2>6 DEF P
    <2> QED BY <2>7 DEF m
  <1>3. 0 .. n \subseteq P
    BY <1>1, <1>2, UpTo
  <1>4. n \in P
    BY <1>3
  <1> QED BY <1>4 DEF P

\* What a fold takes last from the numbers up to i.
LEMMA PrefixMax ==
  ASSUME NEW i \in Nat \ {0}
  PROVE  1 .. i # {} /\ Max(1 .. i) = i /\ (1 .. i) \ {Max(1 .. i)} = 1 .. i - 1
  <1>1. i \in 1 .. i /\ 1 .. i \in SUBSET (1 .. i)
    OBVIOUS
  <1>2. Max(1 .. i) \in 1 .. i /\ i <= Max(1 .. i)
    BY <1>1, MaxOfSome
  <1>3. Max(1 .. i) = i
    BY <1>2
  <1> QED BY <1>1, <1>3
-----------------------------------------------------------------------------
(* The fold of DispatchAll.                                                *)

EffectType == [spawn : Launch \cup {NoLaunch}, layout : Layout, fails : BOOLEAN]

\* One action of a rule, errors forgotten.
DispatchLogged(e, action) == [DispatchAction(e, action) EXCEPT !.fails = FALSE]

\* Whatever an action asks for, launch and layout are of their types.
LEMMA DispatchTyped ==
  ASSUME NEW e \in EffectType, NEW action
  PROVE  DispatchAction(e, action) \in EffectType /\ DispatchLogged(e, action) \in EffectType
  <1>1. DispatchAction(e, action) \in EffectType
    BY DEF DispatchAction, BeginPendingSpawn, CancelPendingSpawn, SelectLayout, EffectType
  <1> QED BY <1>1 DEF DispatchLogged, EffectType

\* What DispatchAll makes of the first i actions, for every i.
LEMMA DispatchPrefixes ==
  ASSUME NEW n \in Nat, NEW actions, DOMAIN actions = 1 .. n, NEW e \in EffectType
  PROVE  \E g \in [0 .. n -> EffectType] :
           /\ g[0] = e
           /\ \A i \in 1 .. n : g[i] = DispatchLogged(g[i - 1], actions[i])
           /\ DispatchAll(e, actions) = g[n]
  <1> DEFINE Defines(f) ==
               f = [s \in SUBSET (1 .. n) |->
                      IF s = {} THEN e ELSE DispatchLogged(f[s \ {Max(s)}], actions[Max(s)])]
             iter == CHOOSE f : Defines(f)
             next == [p \in EffectType \X (1 .. n) |-> DispatchLogged(p[1], actions[p[2]])]
             g == [i \in 0 .. n |-> iter[1 .. i]]
  <1>1. DispatchAll(e, actions) = iter[1 .. n]
    BY DEF DispatchAll, FoldLeft, MapThenFoldSet, DispatchLogged
  <1>2. next \in [EffectType \X (1 .. n) -> EffectType]
    BY DispatchTyped
  <1>3. \A t \in EffectType, i \in 1 .. n : next[<<t, i>>] = DispatchLogged(t, actions[i])
    OBVIOUS
  <1> HIDE DEF next
  <1>4. PICK f \in [SUBSET (1 .. n) -> EffectType] : IsFold(f, n, e, next)
    BY <1>2, FoldExists
  <1>5. \A s \in SUBSET (1 .. n) :
          f[s] = IF s = {} THEN e ELSE DispatchLogged(f[s \ {Max(s)}], actions[Max(s)])
    <2> SUFFICES ASSUME NEW s \in SUBSET (1 .. n), s # {}
                 PROVE  f[s] = DispatchLogged(f[s \ {Max(s)}], actions[Max(s)])
      BY <1>4 DEF IsFold
    <2>1. Max(s) \in 1 .. n
      BY MaxOfSome
    <2>2. f[s \ {Max(s)}] \in EffectType
      OBVIOUS
    <2> QED BY <1>3, <1>4, <2>1, <2>2 DEF IsFold
  <1>6. Defines(f)
    BY <1>5
  <1> HIDE DEF Defines
  <1>7. Defines(iter)
    BY <1>6
  <1> HIDE DEF iter
  <1>8. \A s \in SUBSET (1 .. n) :
          iter[s] = IF s = {} THEN e ELSE DispatchLogged(iter[s \ {Max(s)}], actions[Max(s)])
    BY <1>7 DEF Defines
  <1>9. g[0] = e /\ g[n] = iter[1 .. n]
    <2>1. 1 .. 0 = {} /\ {} \in SUBSET (1 .. n) /\ 0 \in 0 .. n /\ n \in 0 .. n
      OBVIOUS
    <2>2. iter[{}] = e
      BY <1>8, <2>1
    <2> QED BY <2>1, <2>2
  <1>10. ASSUME NEW i \in 1 .. n PROVE g[i] = DispatchLogged(g[i - 1], actions[i])
    <2>1. 1 .. i \in SUBSET (1 .. n) /\ i - 1 \in 0 .. n /\ i \in 0 .. n
      OBVIOUS
    <2>2. 1 .. i # {} /\ Max(1 .. i) = i /\ (1 .. i) \ {Max(1 .. i)} = 1 .. i - 1
      <3>1. i \in Nat \ {0}
        OBVIOUS
      <3> QED BY <3>1, PrefixMax
    <2>3. iter[1 .. i] = DispatchLogged(iter[1 .. i - 1], actions[i])
      BY <1>8, <2>1, <2>2
    <2> QED BY <2>1, <2>3
  <1>11. g \in [0 .. n -> EffectType]
    <2> DEFINE S == {i \in 0 .. n : g[i] \in EffectType}
    <2>1. DOMAIN g = 0 .. n /\ g = [i \in 0 .. n |-> g[i]]
      OBVIOUS
    <2> HIDE DEF g
    <2>2. 0 \in S
      BY <1>9
    <2>3. ASSUME NEW i \in 0 .. n - 1, i \in S PROVE i + 1 \in S
      <3>1. i + 1 \in 1 .. n /\ (i + 1) - 1 = i /\ i + 1 \in 0 .. n
        OBVIOUS
      <3>2. g[i + 1] = DispatchLogged(g[i], actions[i + 1])
        BY <1>10, <3>1
      <3> QED BY <2>3, <3>1, <3>2, DispatchTyped
    <2> HIDE DEF S
    <2>4. 0 .. n \subseteq S
      BY <2>2, <2>3, UpTo
    <2> QED BY <2>1, <2>4 DEF S
  <1> HIDE DEF g
  <1> QED BY <1>1, <1>9, <1>10, <1>11

\* Whatever the rules ask for, launch and layout are of their types.
LEMMA DispatchAllTyped ==
  ASSUME NEW n \in Nat, NEW actions, DOMAIN actions = 1 .. n, NEW e \in EffectType
  PROVE  DispatchAll(e, actions) \in EffectType
  <1>1. n \in 0 .. n
    OBVIOUS
  <1> QED BY <1>1, DispatchPrefixes
-----------------------------------------------------------------------------
(* The order and the fold of Evaluate.                                     *)

\* Rules with actions of any kind.
RuleOf(A) == [priority : Nat, matches : SUBSET Metadata, actions : Seq(A), stop : BOOLEAN]

\* One rule comes before the other, and not the other way round.
LEMMA PrecedesIsStrictOrder ==
  ASSUME NEW A, NEW n \in Nat, NEW rules \in [1 .. n -> RuleOf(A)]
  PROVE  /\ \A i \in 1 .. n : ~Precedes(rules, i, i)
         /\ \A i, j \in 1 .. n : ~(Precedes(rules, i, j) /\ Precedes(rules, j, i))
         /\ \A i, j \in 1 .. n : i # j => Precedes(rules, i, j) \/ Precedes(rules, j, i)
         /\ \A i, j, k \in 1 .. n :
              Precedes(rules, i, j) /\ Precedes(rules, j, k) => Precedes(rules, i, k)
  <1>1. \A i \in 1 .. n : rules[i].priority \in Nat
    BY DEF RuleOf
  <1> QED BY <1>1 DEF Precedes

\* The first i rules can be put into their order, by inserting the last of them.
LEMMA OrderExists ==
  ASSUME NEW A, NEW n \in Nat, NEW rules \in [1 .. n -> RuleOf(A)]
  PROVE  \E order \in [1 .. n -> 1 .. n] :
           \A k, l \in 1 .. n : k < l => Precedes(rules, order[k], order[l])
  <1> DEFINE Sorted(order, m) ==
               \A k, l \in 1 .. m : k < l => Precedes(rules, order[k], order[l])
             P == {m \in 0 .. n : \E order \in [1 .. m -> 1 .. m] : Sorted(order, m)}
  <1> HIDE DEF P
  <1>0. /\ \A i, j \in 1 .. n : i # j => Precedes(rules, i, j) \/ Precedes(rules, j, i)
        /\ \A i, j, k \in 1 .. n :
             Precedes(rules, i, j) /\ Precedes(rules, j, k) => Precedes(rules, i, k)
    BY PrecedesIsStrictOrder
  <1>1. 0 \in P
    <2>1. 1 .. 0 = {}
      OBVIOUS
    <2> DEFINE none == [k \in 1 .. 0 |-> k]
    <2>2. none \in [1 .. 0 -> 1 .. 0] /\ Sorted(none, 0)
      BY <2>1
    <2> HIDE DEF none, Sorted
    <2>3. \E order \in [1 .. 0 -> 1 .. 0] : Sorted(order, 0)
      BY <2>2
    <2>4. 0 \in 0 .. n
      OBVIOUS
    <2> QED BY <2>3, <2>4 DEF P
  <1>2. ASSUME NEW i \in 0 .. n - 1, i \in P PROVE i + 1 \in P
    <2>1. PICK order \in [1 .. i -> 1 .. i] : Sorted(order, i)
      BY <1>2 DEF P
    <2>2. PICK m \in 1 .. n : m = i + 1
      OBVIOUS
    <2> DEFINE Before(p) == \A k \in 1 .. i : k < p => Precedes(rules, order[k], m)
               After(p) == \A k \in 1 .. i : p <= k => Precedes(rules, m, order[k])
               Q == {q \in 0 .. i : Before(q + 1)}
    <2>3. \A k \in 1 .. i : order[k] \in 1 .. n /\ order[k] # m
      BY <2>2
    <2>4. \E p \in 1 .. m : Before(p) /\ After(p)
      <3> SUFFICES ASSUME \A p \in 1 .. m : Before(p) => ~After(p) PROVE FALSE
        OBVIOUS
      <3>1. 0 \in Q
        OBVIOUS
      <3>2. ASSUME NEW q \in 0 .. i - 1, q \in Q PROVE q + 1 \in Q
        <4>1. q + 1 \in 1 .. m /\ q + 1 \in 1 .. i /\ Before(q + 1)
          BY <2>2, <3>2
        <4>2. PICK k \in 1 .. i : q + 1 <= k /\ ~Precedes(rules, m, order[k])
          BY <4>1
        <4>3. Precedes(rules, order[k], m)
          BY <1>0, <2>3, <4>2
        <4>4. Precedes(rules, order[q + 1], m)
          <5>1. CASE k = q + 1
            BY <4>3, <5>1
          <5>2. CASE q + 1 < k
            <6>1. Precedes(rules, order[q + 1], order[k])
              BY <2>1, <4>1, <5>2
            <6>2. order[q + 1] \in 1 .. n /\ order[k] \in 1 .. n
              BY <2>3, <4>1
            <6> QED BY <1>0, <4>3, <6>1, <6>2
          <5> QED BY <4>1, <4>2, <5>1, <5>2
        <4>5. Before(q + 2)
          <5>1. \A l \in 1 .. i : l < q + 2 => l < q + 1 \/ l = q + 1
            BY <4>1
          <5>2. ASSUME NEW l \in 1 .. i, l < q + 2 PROVE Precedes(rules, order[l], m)
            <6>1. CASE l < q + 1
              BY <4>1, <6>1
            <6>2. CASE l = q + 1
              BY <4>4, <6>2
            <6> QED BY <5>1, <5>2, <6>1, <6>2
          <5> QED BY <5>2
        <4>6. (q + 1) + 1 = q + 2 /\ q + 1 \in 0 .. i
          BY <4>1
        <4> QED BY <4>5, <4>6
      <3> HIDE DEF Q
      <3>3. 0 .. i \subseteq Q
        <4>1. i \in Nat
          OBVIOUS
        <4> QED BY <3>1, <3>2, <4>1, UpTo
      <3>4. Before(i + 1)
        <4>1. i \in Q
          BY <3>3
        <4> QED BY <4>1 DEF Q
      <3>5. Before(m) /\ After(m) /\ m \in 1 .. m
        BY <2>2, <3>4
      <3> QED BY <3>5
    <2>5. PICK p \in 1 .. m : Before(p) /\ After(p)
      BY <2>4
    <2> DEFINE longer == [k \in 1 .. m |-> IF k < p THEN order[k]
                                           ELSE IF k = p THEN m ELSE order[k - 1]]
    <2>6. \A k \in 1 .. m : /\ k < p => k \in 1 .. i /\ longer[k] = order[k]
                            /\ k = p => longer[k] = m
                            /\ p < k => k - 1 \in 1 .. i /\ p <= k - 1 /\ longer[k] = order[k - 1]
      BY <2>2
    <2>7. longer \in [1 .. m -> 1 .. m]
      <3>1. \A k \in 1 .. i : order[k] \in 1 .. m
        BY <2>2
      <3>2. \A k \in 1 .. m : longer[k] \in 1 .. m
        <4> SUFFICES ASSUME NEW k \in 1 .. m PROVE longer[k] \in 1 .. m
          OBVIOUS
        <4>1. k < p \/ k = p \/ p < k
          OBVIOUS
        <4> HIDE DEF longer
        <4> QED BY <2>6, <3>1, <4>1
      <3> QED BY <3>2
    <2>8. ASSUME NEW k \in 1 .. m, NEW l \in 1 .. m, k < l
          PROVE  Precedes(rules, longer[k], longer[l])
      <3> HIDE DEF longer
      <3>1. CASE l < p
        BY <2>1, <2>6, <2>8, <3>1
      <3>2. CASE l = p
        <4>1. k < p
          BY <2>8, <3>2
        <4>2. k \in 1 .. i /\ longer[k] = order[k] /\ longer[l] = m
          BY <2>6, <3>2, <4>1
        <4> QED BY <2>5, <4>1, <4>2
      <3>3. CASE p < l /\ k = p
        <4>1. l - 1 \in 1 .. i /\ p <= l - 1 /\ longer[k] = m /\ longer[l] = order[l - 1]
          BY <2>6, <3>3
        <4> QED BY <2>5, <4>1
      <3>4. CASE p < l /\ k < p
        <4>1. k \in 1 .. i /\ l - 1 \in 1 .. i /\ p <= l - 1
          BY <2>6, <3>4
        <4>2. k < l - 1
          BY <3>4, <4>1
        <4>3. longer[k] = order[k] /\ longer[l] = order[l - 1]
          BY <2>6, <3>4
        <4> QED BY <2>1, <4>1, <4>2, <4>3
      <3>5. CASE p < l /\ p < k
        <4>1. k - 1 \in 1 .. i /\ l - 1 \in 1 .. i
          BY <2>6, <3>5
        <4>2. k - 1 < l - 1
          BY <2>8
        <4>3. longer[k] = order[k - 1] /\ longer[l] = order[l - 1]
          BY <2>6, <3>5
        <4> QED BY <2>1, <4>1, <4>2, <4>3
      <3> QED BY <3>1, <3>2, <3>3, <3>4, <3>5
    <2> HIDE DEF longer
    <2>9. Sorted(longer, m)
      BY <2>8
    <2> HIDE DEF Sorted
    <2>10. m \in P
      <3>1. m \in 0 .. n
        OBVIOUS
      <3> QED BY <2>7, <2>9, <3>1 DEF P
    <2> QED BY <2>2, <2>10
  <1>3. 0 .. n \subseteq P
    BY <1>1, <1>2, UpTo
  <1>4. n \in P
    BY <1>3
  <1> QED BY <1>4 DEF P

\* RuleOrder is that order: every rule is in it, each after those it follows.
LEMMA RuleOrderSorts ==
  ASSUME NEW A, NEW n \in Nat, NEW rules \in [1 .. n -> RuleOf(A)]
  PROVE  /\ RuleOrder(rules) \in [1 .. n -> 1 .. n]
         /\ \A k, l \in 1 .. n :
              k < l => Precedes(rules, RuleOrder(rules)[k], RuleOrder(rules)[l])
         /\ \A i \in 1 .. n : \E k \in 1 .. n : RuleOrder(rules)[k] = i
  <1>1. PICK order \in [1 .. n -> 1 .. n] :
               \A k, l \in 1 .. n : k < l => Precedes(rules, order[k], order[l])
    BY OrderExists
  <1>2. \A k, l \in 1 .. n : order[k] = order[l] => k = l
    <2> SUFFICES ASSUME NEW k \in 1 .. n, NEW l \in 1 .. n, order[k] = order[l], k # l
                 PROVE  FALSE
      OBVIOUS
    <2>1. \A i \in 1 .. n : ~Precedes(rules, i, i)
      BY PrecedesIsStrictOrder
    <2>2. order[k] \in 1 .. n /\ order[l] \in 1 .. n /\ (k < l \/ l < k)
      BY <1>1
    <2> QED BY <1>1, <2>1, <2>2
  <1>3. order \in Injection(1 .. n, 1 .. n)
    BY <1>1, <1>2 DEF Injection, IsInjective
  <1>4. IsFiniteSet(1 .. n)
    <2>1. 1 \in Int /\ n \in Int
      OBVIOUS
    <2> QED BY <2>1, FS_Interval
  <1>5. order \in Surjection(1 .. n, 1 .. n)
    BY <1>3, <1>4, FS_Injection
  <1>6. \A i \in 1 .. n : \E k \in 1 .. n : order[k] = i
    BY <1>5 DEF Surjection
  <1> DEFINE Before(i) == {j \in 1 .. n : Precedes(rules, j, i)}
  <1>7. ASSUME NEW k \in 1 .. n PROVE Cardinality(Before(order[k])) = k - 1
    <2> DEFINE earlier == 1 .. k - 1
               B == Before(order[k])
               f == [l \in earlier |-> order[l]]
    <2>1. earlier \subseteq 1 .. n /\ \A l \in 1 .. n : l \in earlier <=> l < k
      OBVIOUS
    <2>2. \A l \in 1 .. n : order[l] \in 1 .. n
      BY <1>1
    <2>3. \A l \in earlier : f[l] \in B
      BY <1>1, <2>1, <2>2
    <2>4. \A l, m \in earlier : f[l] = f[m] => l = m
      BY <1>2, <2>1
    <2>5. ASSUME NEW j \in B PROVE \E l \in earlier : f[l] = j
      <3>1. PICK l \in 1 .. n : order[l] = j
        BY <1>6
      <3>2. j \in 1 .. n /\ Precedes(rules, j, order[k])
        OBVIOUS
      <3>3. ~Precedes(rules, order[k], j) /\ ~Precedes(rules, j, j)
        BY <2>2, <3>2, PrecedesIsStrictOrder
      <3>4. ~(k < l) /\ l # k
        BY <1>1, <3>1, <3>2, <3>3
      <3>5. l \in earlier
        BY <2>1, <3>4
      <3> QED BY <3>1, <3>5
    <2> HIDE DEF B
    <2>6. f \in [earlier -> B]
      BY <2>3
    <2> HIDE DEF f
    <2>7. f \in Bijection(earlier, B)
      BY <2>4, <2>5, <2>6 DEF Bijection, Injection, Surjection, IsInjective
    <2>8. IsFiniteSet(earlier) /\ Cardinality(earlier) = k - 1
      <3>1. 1 \in Int /\ k - 1 \in Int
        OBVIOUS
      <3>2. /\ IsFiniteSet(1 .. k - 1)
            /\ Cardinality(1 .. k - 1) = IF 1 > k - 1 THEN 0 ELSE k - 1 - 1 + 1
        BY <3>1, FS_Interval
      <3> QED BY <3>2
    <2> HIDE DEF earlier
    <2>9. Cardinality(B) = k - 1
      BY <2>7, <2>8, FS_Bijection DEF ExistsBijection
    <2> QED BY <2>9 DEF B
  <1> HIDE DEF Before
  <1>8. ASSUME NEW k \in 1 .. n
        PROVE  order[k] = (CHOOSE i \in 1 .. n : Cardinality(Before(i)) = k - 1)
    <2>1. \A i \in 1 .. n : Cardinality(Before(i)) = k - 1 => i = order[k]
      <3> SUFFICES ASSUME NEW i \in 1 .. n, Cardinality(Before(i)) = k - 1 PROVE i = order[k]
        OBVIOUS
      <3>1. PICK l \in 1 .. n : order[l] = i
        BY <1>6
      <3>2. Cardinality(Before(i)) = l - 1
        BY <1>7, <3>1
      <3>3. l = k
        BY <3>2
      <3> QED BY <3>1, <3>3
    <2>2. order[k] \in 1 .. n /\ Cardinality(Before(order[k])) = k - 1
      BY <1>1, <1>7
    <2> QED BY <2>1, <2>2
  <1>9. RuleOrder(rules) = [k \in 1 .. n |-> CHOOSE i \in 1 .. n : Cardinality(Before(i)) = k - 1]
    <2>1. DOMAIN rules = 1 .. n
      OBVIOUS
    <2> QED BY <2>1 DEF RuleOrder, Before
  <1>10. RuleOrder(rules) = order
    BY <1>1, <1>8, <1>9
  <1> QED BY <1>1, <1>6, <1>10

Collected(A) == [actions : Seq(A), stopped : BOOLEAN]

\* What evaluate makes of one rule.
Collect(collected, rule, metadata) ==
  IF collected.stopped \/ metadata \notin rule.matches THEN collected
  ELSE [actions |-> collected.actions \o rule.actions, stopped |-> rule.stop]

LEMMA CollectTyped ==
  ASSUME NEW A, NEW collected \in Collected(A), NEW rule \in RuleOf(A), NEW metadata
  PROVE  Collect(collected, rule, metadata) \in Collected(A)
  BY DEF Collect, Collected, RuleOf

\* What evaluate has collected after the first i rules, for every i.
IsCollection(g, n, rules, metadata) ==
  /\ g[0] = [actions |-> <<>>, stopped |-> FALSE]
  /\ \A i \in 1 .. n : g[i] = Collect(g[i - 1], rules[RuleOrder(rules)[i]], metadata)
  /\ Evaluate(RuleEngine(rules), metadata) = g[n].actions

\* The fold of Evaluate is such a collection.
LEMMA EvaluatePrefixes ==
  ASSUME NEW A, NEW n \in Nat, NEW rules \in [1 .. n -> RuleOf(A)], NEW metadata
  PROVE  \E g \in [0 .. n -> Collected(A)] : IsCollection(g, n, rules, metadata)
  <1> DEFINE engine == RuleEngine(rules)
             none == [actions |-> <<>>, stopped |-> FALSE]
             Defines(f) ==
               f = [s \in SUBSET (1 .. n) |->
                      IF s = {} THEN none
                      ELSE Collect(f[s \ {Max(s)}], engine[Max(s)], metadata)]
             iter == CHOOSE f : Defines(f)
             next == [p \in Collected(A) \X (1 .. n) |-> Collect(p[1], engine[p[2]], metadata)]
             g == [i \in 0 .. n |-> iter[1 .. i]]
  <1>1. /\ DOMAIN engine = 1 .. n
        /\ \A i \in 1 .. n : engine[i] = rules[RuleOrder(rules)[i]] /\ engine[i] \in RuleOf(A)
    <2>1. RuleOrder(rules) \in [1 .. n -> 1 .. n]
      BY RuleOrderSorts
    <2> QED BY <2>1 DEF RuleEngine
  <1>2. Evaluate(RuleEngine(rules), metadata) = iter[1 .. n].actions
    <2>1. Evaluate(RuleEngine(rules), metadata) =
            (CHOOSE f : f = [s \in SUBSET (DOMAIN engine) |->
               IF s = {} THEN none
               ELSE Collect(f[s \ {Max(s)}], engine[Max(s)], metadata)])[DOMAIN engine].actions
      BY DEF Evaluate, FoldLeft, MapThenFoldSet, Collect
    <2> QED BY <1>1, <2>1
  <1>3. none \in Collected(A)
    BY DEF Collected
  <1> HIDE DEF engine, none
  <1>4. \A i \in 1 .. n : engine[i] \in RuleOf(A)
    BY <1>1
  <1>5. next \in [Collected(A) \X (1 .. n) -> Collected(A)]
    BY <1>4, CollectTyped
  <1>6. \A t \in Collected(A), i \in 1 .. n :
          next[<<t, i>>] = Collect(t, engine[i], metadata)
    OBVIOUS
  <1> HIDE DEF next
  <1>7. PICK f \in [SUBSET (1 .. n) -> Collected(A)] : IsFold(f, n, none, next)
    BY <1>3, <1>5, FoldExists
  <1>8. \A s \in SUBSET (1 .. n) :
          f[s] = IF s = {} THEN none
                 ELSE Collect(f[s \ {Max(s)}], engine[Max(s)], metadata)
    <2> SUFFICES ASSUME NEW s \in SUBSET (1 .. n), s # {}
                 PROVE  f[s] = Collect(f[s \ {Max(s)}], engine[Max(s)], metadata)
      BY <1>7 DEF IsFold
    <2>1. Max(s) \in 1 .. n
      BY MaxOfSome
    <2>2. f[s \ {Max(s)}] \in Collected(A)
      OBVIOUS
    <2> QED BY <1>6, <1>7, <2>1, <2>2 DEF IsFold
  <1>9. Defines(f)
    BY <1>8
  <1> HIDE DEF Defines
  <1>10. Defines(iter)
    BY <1>9
  <1> HIDE DEF iter
  <1>11. \A s \in SUBSET (1 .. n) :
           iter[s] = IF s = {} THEN none
                     ELSE Collect(iter[s \ {Max(s)}], engine[Max(s)], metadata)
    BY <1>10 DEF Defines
  <1>12. g[0] = none /\ g[n] = iter[1 .. n]
    <2>1. 1 .. 0 = {} /\ {} \in SUBSET (1 .. n) /\ 0 \in 0 .. n /\ n \in 0 .. n
      OBVIOUS
    <2>2. iter[{}] = none
      BY <1>11, <2>1
    <2> QED BY <2>1, <2>2
  <1>13. ASSUME NEW i \in 1 .. n PROVE g[i] = Collect(g[i - 1], engine[i], metadata)
    <2>1. 1 .. i \in SUBSET (1 .. n) /\ i - 1 \in 0 .. n /\ i \in 0 .. n
      OBVIOUS
    <2>2. 1 .. i # {} /\ Max(1 .. i) = i /\ (1 .. i) \ {Max(1 .. i)} = 1 .. i - 1
      <3>1. i \in Nat \ {0}
        OBVIOUS
      <3> QED BY <3>1, PrefixMax
    <2>3. iter[1 .. i] = Collect(iter[1 .. i - 1], engine[i], metadata)
      BY <1>11, <2>1, <2>2
    <2> QED BY <2>1, <2>3
  <1>14. g \in [0 .. n -> Collected(A)]
    <2> DEFINE S == {i \in 0 .. n : g[i] \in Collected(A)}
    <2>1. DOMAIN g = 0 .. n /\ g = [i \in 0 .. n |-> g[i]]
      OBVIOUS
    <2> HIDE DEF g
    <2>2. 0 \in S
      BY <1>3, <1>12
    <2>3. ASSUME NEW i \in 0 .. n - 1, i \in S PROVE i + 1 \in S
      <3>1. i + 1 \in 1 .. n /\ (i + 1) - 1 = i /\ i + 1 \in 0 .. n
        OBVIOUS
      <3>2. g[i + 1] = Collect(g[i], engine[i + 1], metadata)
        BY <1>13, <3>1
      <3>3. g[i] \in Collected(A) /\ engine[i + 1] \in RuleOf(A)
        BY <1>4, <2>3, <3>1
      <3> QED BY <3>1, <3>2, <3>3, CollectTyped
    <2> HIDE DEF S
    <2>4. 0 .. n \subseteq S
      BY <2>2, <2>3, UpTo
    <2> QED BY <2>1, <2>4 DEF S
  <1> HIDE DEF g
  <1>15. IsCollection(g, n, rules, metadata)
    BY <1>1, <1>2, <1>12, <1>13 DEF engine, none, IsCollection
  <1> QED BY <1>14, <1>15

\* A sequence with one more element.
LEMMA OneMore ==
  ASSUME NEW S, NEW s \in Seq(S), NEW x \in S
  PROVE  /\ s \o <<x>> \in Seq(S) /\ Len(s) \in Nat
         /\ DOMAIN (s \o <<x>>) = (1 .. Len(s)) \cup {Len(s) + 1} /\ DOMAIN s = 1 .. Len(s)
         /\ \A i \in 1 .. Len(s) : (s \o <<x>>)[i] = s[i]
         /\ (s \o <<x>>)[Len(s) + 1] = x
         /\ ToSet(s \o <<x>>) = ToSet(s) \cup {x}
  <1>1. /\ s \o <<x>> \in Seq(S) /\ Len(s) \in Nat
        /\ DOMAIN (s \o <<x>>) = (1 .. Len(s)) \cup {Len(s) + 1} /\ DOMAIN s = 1 .. Len(s)
        /\ \A i \in 1 .. Len(s) : (s \o <<x>>)[i] = s[i]
        /\ (s \o <<x>>)[Len(s) + 1] = x
    OBVIOUS
  <1> QED BY <1>1 DEF ToSet

\* Whatever rules are configured, and however many: the actions of exactly those
\* rules are collected that match and that no matching rule before them stops,
\* in the order of their priorities, and of the source where these are equal.
THEOREM RuleEvaluationHolds ==
  ASSUME NEW rules \in Seq(Rule), NEW metadata \in Metadata
  PROVE  EvaluatesAsSpecified(rules, metadata)
  <1>1. PICK n \in Nat : n = Len(rules) /\ DOMAIN rules = 1 .. n
    OBVIOUS
  <1> DEFINE named == [i \in DOMAIN rules |-> [rules[i] EXCEPT !.actions = <<i>>]]
             order == RuleOrder(named)
             Matches(k) == metadata \in rules[order[k]].matches
             Stops(k) == Matches(k) /\ rules[order[k]].stop
  <1>2. ASSUME NEW i \in 1 .. n
        PROVE  /\ named[i] \in RuleOf(1 .. n)
               /\ named[i].priority = rules[i].priority /\ named[i].matches = rules[i].matches
               /\ named[i].stop = rules[i].stop /\ named[i].actions = <<i>>
               /\ rules[i].stop \in BOOLEAN
    <2>1. rules[i] \in Rule /\ i \in DOMAIN rules
      BY <1>1
    <2>2. named[i] = [rules[i] EXCEPT !.actions = <<i>>]
      BY <2>1
    <2> HIDE DEF named
    <2>3. /\ named[i].priority = rules[i].priority /\ named[i].matches = rules[i].matches
          /\ named[i].stop = rules[i].stop /\ named[i].actions = <<i>>
          /\ rules[i].stop \in BOOLEAN
      BY <2>1, <2>2 DEF Rule
    <2>4. named[i] = [priority |-> rules[i].priority, matches |-> rules[i].matches,
                      actions |-> <<i>>, stop |-> rules[i].stop]
      BY <2>1, <2>2 DEF Rule
    <2>5. <<i>> \in Seq(1 .. n)
      OBVIOUS
    <2>6. named[i] \in RuleOf(1 .. n)
      BY <2>1, <2>4, <2>5 DEF Rule, RuleOf
    <2> QED BY <2>3, <2>6
  <1>3. named \in [1 .. n -> RuleOf(1 .. n)]
    BY <1>1, <1>2
  <1> HIDE DEF named
  <1>4. \A i, j \in 1 .. n : Precedes(named, i, j) <=> Precedes(rules, i, j)
    BY <1>2 DEF Precedes
  <1>5. /\ order \in [1 .. n -> 1 .. n]
        /\ \A k, l \in 1 .. n : k < l => Precedes(rules, order[k], order[l])
        /\ \A i \in 1 .. n : \E k \in 1 .. n : order[k] = i
    <2>1. /\ order \in [1 .. n -> 1 .. n]
          /\ \A k, l \in 1 .. n : k < l => Precedes(named, order[k], order[l])
          /\ \A i \in 1 .. n : \E k \in 1 .. n : order[k] = i
      <3>1. \A A : \A f \in [1 .. n -> RuleOf(A)] :
              /\ RuleOrder(f) \in [1 .. n -> 1 .. n]
              /\ \A k, l \in 1 .. n : k < l => Precedes(f, RuleOrder(f)[k], RuleOrder(f)[l])
              /\ \A i \in 1 .. n : \E k \in 1 .. n : RuleOrder(f)[k] = i
        BY RuleOrderSorts, ZenonT(30)
      <3> QED BY <1>3, <3>1, ZenonT(30)
    <2> QED BY <1>4, <2>1
  <1>6. \A k, l \in 1 .. n : Precedes(rules, order[k], order[l]) <=> k < l
    <2>1. \A i, j \in 1 .. n : ~(Precedes(rules, i, j) /\ Precedes(rules, j, i))
      BY <1>3, <1>4, PrecedesIsStrictOrder
    <2>2. ASSUME NEW k \in 1 .. n, NEW l \in 1 .. n, Precedes(rules, order[k], order[l])
          PROVE  k < l
      <3>1. k < l \/ k = l \/ l < k
        OBVIOUS
      <3>2. order[k] \in 1 .. n /\ order[l] \in 1 .. n
        BY <1>5
      <3>3. ~(l < k)
        BY <1>5, <2>1, <2>2, <3>2
      <3>4. k # l
        BY <2>1, <2>2, <3>2
      <3> QED BY <3>1, <3>3, <3>4
    <2> QED BY <1>5, <2>2
  <1>7. PICK g \in [0 .. n -> Collected(1 .. n)] :
          /\ g[0] = [actions |-> <<>>, stopped |-> FALSE]
          /\ \A i \in 1 .. n : g[i] = Collect(g[i - 1], named[order[i]], metadata)
          /\ Evaluate(RuleEngine(named), metadata) = g[n].actions
    <2>1. \A A : \A f \in [1 .. n -> RuleOf(A)] :
            \E g \in [0 .. n -> Collected(A)] : IsCollection(g, n, f, metadata)
      BY EvaluatePrefixes, Zenon
    <2>2. \E g \in [0 .. n -> Collected(1 .. n)] : IsCollection(g, n, named, metadata)
      BY <1>3, <2>1, Zenon
    <2> QED BY <2>2 DEF IsCollection
  <1> HIDE DEF order
  <1> DEFINE ActsAt(k) == Matches(k) /\ \A l \in 1 .. n : l < k => ~Stops(l)
             Right(k) ==
               /\ g[k].stopped <=> \E l \in 1 .. k : Stops(l)
               /\ \A i \in 1 .. n :
                    i \in ToSet(g[k].actions) <=> \E l \in 1 .. k : ActsAt(l) /\ order[l] = i
               /\ \A a, b \in DOMAIN g[k].actions :
                    a < b => Precedes(rules, g[k].actions[a], g[k].actions[b])
             S == {k \in 0 .. n : Right(k)}
  <1>8. 0 \in S
    <2>1. g[0].actions = <<>> /\ g[0].stopped = FALSE /\ 1 .. 0 = {}
      BY <1>7
    <2>2. ToSet(<<>>) = {} /\ DOMAIN <<>> = {}
      BY DEF ToSet
    <2> HIDE DEF Stops, ActsAt
    <2> QED BY <2>1, <2>2
  <1>9. ASSUME NEW i \in 0 .. n - 1, i \in S PROVE i + 1 \in S
    <2>1. PICK k \in 1 .. n : k = i + 1 /\ k - 1 = i
      OBVIOUS
    <2> DEFINE c == g[i]
               rule == named[order[k]]
    <2>2. c \in Collected(1 .. n) /\ Right(i) /\ i \in 0 .. n
      BY <1>9
    <2>3. c.actions \in Seq(1 .. n) /\ c.stopped \in BOOLEAN
      BY <2>2 DEF Collected
    <2>4. g[k] = Collect(c, rule, metadata)
      BY <1>7, <2>1
    <2>5. /\ order[k] \in 1 .. n /\ rule.actions = <<order[k]>>
          /\ Matches(k) <=> metadata \in rule.matches
          /\ rule.stop = rules[order[k]].stop /\ rule.stop \in BOOLEAN
      BY <1>2, <1>5
    <2>6. \A l \in 1 .. k : l \in 1 .. i \/ l = k
      BY <2>1
    <2>7. 1 .. i \subseteq 1 .. k /\ k \in 1 .. k /\ 1 .. k \subseteq 1 .. n
      BY <2>1
    <2>8. \A l \in 1 .. n : l < k <=> l \in 1 .. i
      BY <2>1
    <2> HIDE DEF rule
    <2>9. CASE c.stopped
      <3>1. g[k] = c
        BY <2>4, <2>9 DEF Collect
      <3>2. PICK l \in 1 .. i : Stops(l)
        BY <2>2, <2>9
      <3>3. ~ActsAt(k)
        BY <2>7, <2>8, <3>2
      <3> HIDE DEF Stops, ActsAt
      <3>4. Right(k)
        BY <2>2, <2>6, <2>7, <2>9, <3>1, <3>2, <3>3
      <3> QED BY <2>1, <3>4
    <2>10. CASE ~c.stopped /\ ~Matches(k)
      <3>1. g[k] = c
        BY <2>4, <2>5, <2>10 DEF Collect
      <3>2. ~ActsAt(k) /\ ~Stops(k)
        BY <2>10
      <3> HIDE DEF Stops, ActsAt
      <3>3. Right(k)
        BY <2>2, <2>6, <2>7, <3>1, <3>2
      <3> QED BY <2>1, <3>3
    <2>11. CASE ~c.stopped /\ Matches(k)
      <3>1. g[k] = [actions |-> c.actions \o <<order[k]>>, stopped |-> rules[order[k]].stop]
        BY <2>4, <2>5, <2>11 DEF Collect
      <3>2. ActsAt(k) /\ (Stops(k) <=> rules[order[k]].stop)
        BY <2>2, <2>8, <2>11
      <3>3. \A l \in 1 .. i : ~Stops(l)
        BY <2>2, <2>11
      <3> HIDE DEF Stops, ActsAt
      <3>4. g[k].stopped <=> \E l \in 1 .. k : Stops(l)
        <4>1. g[k].stopped = rules[order[k]].stop
          BY <3>1
        <4>2. (\E l \in 1 .. k : Stops(l)) <=> Stops(k)
          BY <2>6, <2>7, <3>3
        <4> QED BY <3>2, <4>1, <4>2
      <3>5. ToSet(g[k].actions) = ToSet(c.actions) \cup {order[k]}
        <4>1. g[k].actions = c.actions \o <<order[k]>>
          BY <3>1
        <4> QED BY <2>3, <2>5, <4>1, OneMore
      <3>6. ASSUME NEW j \in 1 .. n
            PROVE  j \in ToSet(g[k].actions) <=> \E l \in 1 .. k : ActsAt(l) /\ order[l] = j
        BY <2>2, <2>6, <2>7, <3>2, <3>5
      <3>7. ASSUME NEW a \in DOMAIN g[k].actions, NEW b \in DOMAIN g[k].actions, a < b
            PROVE  Precedes(rules, g[k].actions[a], g[k].actions[b])
        <4> DEFINE m == Len(c.actions)
        <4>1. /\ m \in Nat /\ DOMAIN c.actions = 1 .. m
              /\ DOMAIN g[k].actions = (1 .. m) \cup {m + 1}
              /\ \A d \in 1 .. m : g[k].actions[d] = c.actions[d]
              /\ g[k].actions[m + 1] = order[k]
          BY <2>3, <2>5, <3>1, OneMore
        <4> HIDE DEF m
        <4>2. a \in 1 .. m
          BY <3>7, <4>1
        <4>3. CASE b \in 1 .. m
          BY <2>2, <3>7, <4>1, <4>2, <4>3
        <4>4. CASE b = m + 1
          <5>1. c.actions[a] \in ToSet(c.actions) /\ c.actions[a] \in 1 .. n
            <6>1. a \in DOMAIN c.actions
              BY <4>1, <4>2
            <6> HIDE DEF c
            <6> QED BY <2>3, <6>1 DEF ToSet
          <5>2. PICK l \in 1 .. i : order[l] = c.actions[a]
            BY <2>2, <5>1
          <5>3. l \in 1 .. n /\ l < k
            BY <2>7, <2>8
          <5>4. Precedes(rules, order[l], order[k])
            BY <1>5, <5>3
          <5> QED BY <4>1, <4>2, <4>4, <5>2, <5>4
        <4> QED BY <4>1, <4>3, <4>4
      <3>8. Right(k)
        BY <3>4, <3>6, <3>7
      <3> QED BY <2>1, <3>8
    <2> HIDE DEF S
    <2> QED BY <2>3, <2>9, <2>10, <2>11
  <1> HIDE DEF S
  <1>10. 0 .. n \subseteq S
    BY <1>8, <1>9, UpTo
  <1>11. Right(n) /\ g[n] \in Collected(1 .. n)
    <2>1. n \in 0 .. n
      OBVIOUS
    <2> QED BY <1>10, <2>1 DEF S
  <1>12. ASSUME NEW k \in 1 .. n PROVE ActsAt(k) <=> Acts(rules, metadata, order[k])
    <2>1. ASSUME ActsAt(k), NEW i \in 1 .. n,
                 Precedes(rules, i, order[k]), metadata \in rules[i].matches
          PROVE  ~rules[i].stop
      <3>1. PICK l \in 1 .. n : order[l] = i
        BY <1>5
      <3>2. l < k
        BY <1>6, <2>1, <3>1
      <3> QED BY <2>1, <3>1, <3>2
    <2>2. ASSUME Acts(rules, metadata, order[k]), NEW l \in 1 .. n, l < k
          PROVE  ~Stops(l)
      <3>1. Precedes(rules, order[l], order[k]) /\ order[l] \in 1 .. n
        BY <1>5, <2>2
      <3> QED BY <1>1, <2>2, <3>1 DEF Acts
    <2>3. ActsAt(k) => Acts(rules, metadata, order[k])
      BY <1>1, <2>1 DEF Acts
    <2>4. Acts(rules, metadata, order[k]) => ActsAt(k)
      BY <2>2 DEF Acts
    <2> QED BY <2>3, <2>4
  <1> HIDE DEF Stops, Matches, ActsAt
  <1>13. \A i \in 1 .. n : i \in ToSet(g[n].actions) <=> Acts(rules, metadata, i)
    BY <1>5, <1>11, <1>12
  <1>14. ToSet(g[n].actions) \subseteq 1 .. n
    <2>1. g[n].actions \in Seq(1 .. n)
      BY <1>11 DEF Collected
    <2> QED BY <2>1 DEF ToSet
  <1>15. ToSet(g[n].actions) = {j \in DOMAIN rules : Acts(rules, metadata, j)}
    BY <1>1, <1>13, <1>14
  <1>16. /\ ToSet(Evaluate(RuleEngine(named), metadata)) = {j \in DOMAIN rules : Acts(rules, metadata, j)}
         /\ \A k, l \in DOMAIN Evaluate(RuleEngine(named), metadata) :
              k < l => Precedes(rules, Evaluate(RuleEngine(named), metadata)[k], Evaluate(RuleEngine(named), metadata)[l])
    BY <1>7, <1>11, <1>15
  <1> QED BY <1>16 DEF EvaluatesAsSpecified, named
-----------------------------------------------------------------------------
(* Types, and what goes with them: the loop runs exactly while a process   *)
(* does, a connection is served exactly while it reads, and the hooks stay *)
(* within their quota, whatever rules, bindings and requests there are.    *)

\* The actions of a rule list are a sequence.
LEMMA EvaluateTyped ==
  ASSUME NEW metadata
  PROVE  Evaluate(Engine, metadata) \in Seq(Action)
  <1>1. PICK n \in Nat : Rules \in [1 .. n -> RuleOf(Action)]
    <2>1. Rules \in Seq(Rule) /\ RuleOf(Action) = Rule
      BY ServiceAssumption DEF Rule, RuleOf
    <2>2. Rules \in [1 .. Len(Rules) -> Rule] /\ Len(Rules) \in Nat
      BY <2>1
    <2> QED BY <2>1, <2>2
  <1>2. \E g \in [0 .. n -> Collected(Action)] : IsCollection(g, n, Rules, metadata)
    BY <1>1, EvaluatePrefixes
  <1> QED BY <1>2 DEF Engine, IsCollection, Collected

\* What the state is as an effect.
LEMMA NowTyped ==
  ASSUME ServiceTypeOK
  PROVE  Now \in EffectType
  BY DEF ServiceTypeOK, Now, Effect, EffectType

LEMMA CommitTyped ==
  ASSUME NEW e \in EffectType, Commit(e)
  PROVE  pending_spawn' \in Launch \cup {NoLaunch} /\ layout' \in Layout
  BY DEF EffectType, Commit

\* What a process starts with is within the quota, its first hook included.
LEMMA QuotaAtStart == 0 \in 0 .. HookLimit /\ 1 \in 0 .. HookLimit
  BY ServiceAssumption

\* A hook is counted within the quota.
LEMMA DispatchWithinQuota ==
  ASSUME dispatched \in 0 .. HookLimit, hook_active \in BOOLEAN, NEW event, DispatchHook(event)
  PROVE  dispatched' \in 0 .. HookLimit /\ hook_active' \in BOOLEAN
  <1>1. HookLimit \in Nat
    BY ServiceAssumption
  <1>2. CASE event \in Hook /\ CanBegin
    <2>1. dispatched' = dispatched + 1 /\ hook_active' = FALSE /\ dispatched < HookLimit
      BY <1>2 DEF DispatchHook, CanBegin
    <2>2. dispatched' \in 0 .. HookLimit
      BY <1>1, <2>1
    <2>3. hook_active' \in BOOLEAN
      BY <2>1
    <2> QED BY <2>2, <2>3
  <1>3. CASE ~(event \in Hook /\ CanBegin)
    BY <1>3 DEF DispatchHook, hookVars
  <1> QED BY <1>2, <1>3

\* A press takes mode and action from the binding.
LEMMA PressKeepsTypes ==
  ASSUME ServiceTypeOK, NEW chord \in Chord \cup {Missing}, NEW result, PressInput(chord, result)
  PROVE  ServiceTypeOK'
  <1> USE DEF ServiceTypeOK, inputVars, hookVars
  <1>1. CASE chord = Missing \/ Binding[mode][chord] = Unbound
    BY <1>1 DEF PressInput
  <1>2. CASE ~(chord = Missing \/ Binding[mode][chord] = Unbound)
    <2> DEFINE binding == Binding[mode][chord]
               done == DispatchAction(Now, binding)
    <2>1. chord \in Chord /\ binding.next_mode \in Mode
      <3>1. chord \in Chord /\ binding \in [name : ActionName, argument : Argument, next_mode : Mode]
        BY <1>2, ServiceAssumption
      <3> QED BY <3>1
    <2>2. done \in EffectType
      BY NowTyped, DispatchTyped
    <2>3. /\ consumed' = consumed \cup {chord} /\ mode' = binding.next_mode /\ Commit(done)
          /\ UNCHANGED <<camera, windows, hookVars, window_metadata>>
      BY <1>2 DEF PressInput
    <2>4. pending_spawn' \in Launch \cup {NoLaunch} /\ layout' \in Layout
      BY <2>2, <2>3, CommitTyped
    <2> QED BY <2>1, <2>3, <2>4
  <1> QED BY <1>1, <1>2

\* Every method keeps the types.
LEMMA RequestKeepsTypes ==
  ASSUME ServiceTypeOK, NEW request \in Request, NEW result, HandleIpc(request, result)
  PROVE  ServiceTypeOK'
  <1> USE DEF ServiceTypeOK, inputVars, coreVars, hookVars
  <1>1. CASE \E workspace : SwitchWorkspace(workspace, result)
    BY <1>1, DispatchWithinQuota DEF SwitchWorkspace
  <1>2. CASE request.method = "input.press" /\ PressInput(request.argument, result)
    <2>1. request.argument \in Chord \cup {Missing}
      BY <1>2 DEF Request
    <2> QED BY <1>2, <2>1, PressKeepsTypes
  <1>3. CASE \E chord : ReleaseInput(chord, result)
    BY <1>3 DEF ReleaseInput
  <1>4. CASE \E argument : SelectConfiguredLayout(argument, result) \/ SetCamera(argument, result)
    BY <1>4, ServiceAssumption DEF SelectConfiguredLayout, SetCamera
  <1>5. CASE \E launch : SpawnPending(launch, result)
    BY <1>5 DEF SpawnPending, BeginPendingSpawn, Now, Effect, Commit
  <1>6. CASE SpawnCancel(result)
    BY <1>6 DEF SpawnCancel, CancelPendingSpawn, Now, Effect, Commit
  <1>7. CASE ReloadConfig(result)
    BY <1>7, ServiceAssumption DEF ReloadConfig, Synchronize
  <1>8. CASE Status(result) \/ UnknownMethod(result)
    BY <1>8 DEF Status, UnknownMethod, serviceVars
  <1> QED BY <1>1, <1>2, <1>3, <1>4, <1>5, <1>6, <1>7, <1>8 DEF HandleIpc

\* Every event keeps the types, whatever the rules make of it.
LEMMA EventKeepsTypes ==
  ASSUME ServiceTypeOK, WindowsInv, ApplyEvent
  PROVE  ServiceTypeOK'
  <1> USE DEF ServiceTypeOK, inputVars, coreVars, hookVars
  <1> DEFINE event == Head(events)
  <1>1. event \in Event
    BY DEF ApplyEvent, WindowsInv
  <1>2. event.window \in Window
    BY <1>1, EventFields
  <1>3. CASE WindowMapped(event.window)
    BY <1>2, <1>3, DispatchWithinQuota DEF WindowMapped
  <1>4. CASE WindowUnmapped(event.window)
    BY <1>2, <1>4 DEF WindowUnmapped
  <1>5. CASE event.kind \notin {"Mapped", "Unmapped"}
             /\ WindowMetadataChanged(event.window, event.metadata)
    <2>1. event.metadata \in Metadata
      BY <1>1, <1>5, EventFields
    <2> DEFINE actions == Evaluate(Engine, event.metadata)
    <2>2. DispatchAll(Now, actions) \in EffectType
      <3>1. PICK n \in Nat : DOMAIN actions = 1 .. n
        BY EvaluateTyped
      <3> QED BY <3>1, NowTyped, DispatchAllTyped
    <2> HIDE DEF event
    <2>3. CASE event.window \in windows /\ window_metadata[event.window] # event.metadata
      <3>1. /\ window_metadata' = [window_metadata EXCEPT ![event.window] = event.metadata]
            /\ Commit(DispatchAll(Now, actions))
            /\ UNCHANGED <<inputVars, camera, windows, hookVars>>
        BY <1>5, <2>3 DEF WindowMetadataChanged
      <3>2. pending_spawn' \in Launch \cup {NoLaunch} /\ layout' \in Layout
        BY <2>2, <3>1, CommitTyped
      <3>3. window_metadata' \in [Window -> Metadata \cup {NoMetadata}]
        BY <1>2, <2>1, <3>1
      <3> QED BY <3>1, <3>2, <3>3
    <2>4. CASE ~(event.window \in windows /\ window_metadata[event.window] # event.metadata)
      BY <1>5, <2>4 DEF WindowMetadataChanged
    <2> QED BY <2>3, <2>4
  <1> QED BY <1>3, <1>4, <1>5 DEF ApplyEvent

\* Every step of the whole keeps the types of what the requests change.
LEMMA StepKeepsTypes ==
  ASSUME ServiceTypeOK, WindowsInv, [Next]_vars
  PROVE  ServiceTypeOK'
  <1> USE DEF ServiceTypeOK, serviceVars, inputVars, coreVars, hookVars
  <1>1. CASE UNCHANGED serviceVars
    BY <1>1
  <1>2. CASE StopLoop
    BY <1>2, ServiceAssumption, QuotaAtStart DEF StopLoop, ForgetServices
  <1>3. CASE \E p \in Process :
               \/ SessionOnly(Start(p) \/ Install(p) \/ OpenLogger(p) \/ RejectConfiguration(p))
               \/ SessionOnly(DropLock(p)) \/ StartLoop(p) \/ CloseListener(p)
    BY <1>1, <1>3 DEF SessionOnly, StartLoop, CloseListener
  <1>4. CASE \E p \in Process : StartCoordinator(p)
    BY <1>4, QuotaAtStart DEF StartCoordinator, StartServices
  <1>5. CASE \E p \in Process : ReturnFromLoop(p) \/ StopAbruptly(p)
    BY <1>1, <1>2, <1>5 DEF ReturnFromLoop, StopAbruptly
  <1>6. CASE SessionOnly(RemoveStaleLock \/ \E d \in Default : EditDefault(d) \/ SaveInPlace(d))
    BY <1>1, <1>6 DEF SessionOnly
  <1>7. CASE WindowRequest \/ \E c \in Client : Connect(c) \/ Send(c) \/ GiveUp(c)
    BY <1>1, <1>7 DEF WindowRequest, Connect, Send, GiveUp
  <1>8. CASE Loop
    <2>1. CASE Dispatched \/ EventsDone \/ Accept \/ NothingToAccept \/ RefuseRequest
      BY <1>1, <2>1 DEF Dispatched, EventsDone, Accept, NothingToAccept, RefuseRequest
    <2>2. CASE ServeRequest
      BY <2>2, RequestKeepsTypes DEF ServeRequest
    <2>3. CASE ReloadFiles
      BY <2>3, DispatchWithinQuota, ServiceAssumption DEF ReloadFiles, PollReload, Synchronize
    <2> QED BY <1>8, <2>1, <2>2, <2>3, EventKeepsTypes DEF Loop
  <1> QED BY <1>1, <1>3, <1>4, <1>5, <1>6, <1>7, <1>8 DEF Next, vars

\* The rest of TypeOK, as far as it is an invariant of its own.
LoopInv ==
  /\ phase \in Phase
  /\ \A p \in Process : Running(p) => phase # "stopped"
  /\ sent \subseteq Client
  /\ serving # NoClient => phase = "reading"

\* Only one process has a loop or is about to have one.
LEMMA OneLoop ==
  ASSUME SessionInv, NEW p \in Process, NEW q \in Process,
         step[p] \in {"binding", "running", "dropping"},
         step[q] \in {"binding", "running", "dropping"}
  PROVE  p = q
  BY DEF SessionInv, LockIsHeld, Holding

\* Steps that change neither the loop nor what it serves.
LEMMA OthersKeepLoop ==
  ASSUME LoopInv, UNCHANGED <<phase, sent, serving>>,
         \A p \in Process : Running(p)' => Running(p)
  PROVE  LoopInv'
  BY DEF LoopInv

\* Loop and process go together, and so do reading and the connection served.
LEMMA StepKeepsLoopInv ==
  ASSUME SessionInv, LoopIsRun, AnswersInv, LoopInv, [Next]_vars
  PROVE  LoopInv'
  <1> USE DEF LoopInv, Running, Goto
  <1>1. step \in [Process -> Step]
    BY DEF SessionInv, SessionTypeOK
  <1>2. CASE UNCHANGED <<step, phase, sent, serving>>
    BY <1>2, OthersKeepLoop
  <1>3. CASE \E p \in Process :
               \/ SessionOnly(Start(p) \/ Install(p) \/ OpenLogger(p) \/ RejectConfiguration(p))
               \/ SessionOnly(DropLock(p)) \/ StartCoordinator(p)
    <2>1. UNCHANGED <<phase, sent, serving>>
      BY <1>3 DEF SessionOnly, StartCoordinator, ipcVars
    <2>2. \A p \in Process : Running(p)' => Running(p)
      BY <1>1, <1>3 DEF SessionOnly, StartCoordinator, Start, Install, OpenLogger,
        RejectConfiguration, AcquireLock, RefuseStart, LeaveRefused, CreateDefault, WriteDefault,
        WriteFails, PreserveDefault, Installed, ClearMarker, WriteMarker, ArchiveLog, StartLog,
        LoadConfiguration, DropLock
    <2> QED BY <2>1, <2>2, OthersKeepLoop
  <1>4. ASSUME NEW p \in Process, StartLoop(p) PROVE LoopInv'
    <2>1. phase = "stopped"
      <3>1. \A q \in Process : ~Running(q)
        BY <1>4, OneLoop DEF StartLoop, BindSocket
      <3> QED BY <3>1 DEF LoopIsRun
    <2>2. serving = NoClient /\ phase' = "clients" /\ UNCHANGED <<sent, serving>>
      BY <1>4, <2>1 DEF StartLoop, ipcVars
    <2> QED BY <2>2 DEF Phase
  <1>5. ASSUME NEW p \in Process, ReturnFromLoop(p) PROVE LoopInv'
    <2>1. phase = "clients" /\ phase' = "stopped" /\ UNCHANGED <<sent, serving>> /\ step[p] = "running"
          /\ step' = [step EXCEPT ![p] = "dropping"]
      BY <1>5 DEF ReturnFromLoop, CloseSession, StopLoop, ipcVars
    <2>2. \A q \in Process : ~Running(q)'
      BY <1>1, <2>1, OneLoop
    <2> QED BY <2>1, <2>2 DEF Phase
  <1>6. ASSUME NEW p \in Process, CloseListener(p) PROVE LoopInv'
    <2>1. UNCHANGED phase /\ sent' \subseteq sent /\ serving' = NoClient
          /\ step' = [step EXCEPT ![p] = "unlocking"]
      BY <1>6 DEF CloseListener, Disconnect, DropServer
    <2>2. \A q \in Process : Running(q)' => Running(q)
      BY <1>1, <2>1
    <2> QED BY <2>1, <2>2
  <1>7. ASSUME NEW p \in Process, StopAbruptly(p) PROVE LoopInv'
    <2>1. \A q \in Process \ {p} : step'[q] = step[q]
      BY <1>1, <1>7 DEF StopAbruptly, Die, Panic
    <2>2. step'[p] # "running"
      BY <1>1, <1>7 DEF StopAbruptly, Die, Panic
    <2>3. sent' \subseteq sent /\ (serving' = serving \/ serving' = NoClient)
      BY <1>7 DEF StopAbruptly, Disconnect, ipcVars
    <2>4. CASE step[p] \in {"binding", "running"}
      <3>1. phase' = "stopped"
        BY <1>7, <2>4 DEF StopAbruptly, StopLoop
      <3>2. \A q \in Process : ~Running(q)'
        BY <2>1, <2>2, <2>4, OneLoop
      <3>3. serving' = NoClient
        <4>1. CASE step[p] = "running"
          BY <1>7, <4>1 DEF StopAbruptly, Disconnect
        <4>2. CASE step[p] = "binding"
          <5>1. \A q \in Process : ~Running(q)
            BY <4>2, OneLoop
          <5>2. serving = NoClient
            BY <5>1 DEF LoopIsRun
          <5> QED BY <2>3, <5>2
        <4> QED BY <2>4, <4>1, <4>2
      <3> QED BY <2>3, <3>1, <3>2, <3>3 DEF Phase
    <2>5. CASE step[p] \notin {"binding", "running"}
      <3>1. UNCHANGED phase
        BY <1>7, <2>5 DEF StopAbruptly
      <3>2. \A q \in Process : Running(q)' => Running(q)
        BY <2>1, <2>2
      <3> QED BY <2>3, <3>1, <3>2
    <2> QED BY <2>4, <2>5
  <1>8. CASE SessionOnly(RemoveStaleLock \/ \E d \in Default : EditDefault(d) \/ SaveInPlace(d))
    BY <1>2, <1>8 DEF SessionOnly, RemoveStaleLock, EditDefault, SaveInPlace, ipcVars
  <1>9. CASE WindowRequest
    BY <1>2, <1>9 DEF WindowRequest, sessionVars, ipcVars
  <1>10. CASE \E c \in Client : Connect(c) \/ Send(c) \/ GiveUp(c)
    <2>1. UNCHANGED <<step, phase, serving>> /\ sent' \subseteq Client
      BY <1>10 DEF Connect, Send, GiveUp, sessionVars
    <2> QED BY <2>1
  <1>11. CASE Loop
    <2>1. step' = step /\ \E p \in Process : Running(p)
      BY <1>11 DEF Loop, LoopStep, sessionVars
    <2>2. CASE Dispatched \/ EventsDone \/ NothingToAccept \/ ReloadFiles \/ ApplyEvent
      BY <2>1, <2>2 DEF Dispatched, EventsDone, NothingToAccept, ReloadFiles, ApplyEvent, ipcVars, Phase
    <2>3. CASE Accept
      BY <2>1, <2>3 DEF Accept, Phase
    <2>4. CASE ServeRequest \/ RefuseRequest
      <3>1. phase' = "reload" /\ serving' = NoClient /\ sent' \subseteq sent
        BY <2>4 DEF ServeRequest, RefuseRequest, Reply
      <3> QED BY <2>1, <3>1 DEF Phase
    <2> QED BY <1>11, <2>2, <2>3, <2>4 DEF Loop
  <1>12. CASE UNCHANGED vars
    BY <1>2, <1>12 DEF vars, sessionVars, ipcVars
  <1> QED BY <1>3, <1>4, <1>5, <1>6, <1>7, <1>8, <1>9, <1>10, <1>11, <1>12 DEF Next

\* For any processes, clients, windows, bindings and rules: every variable keeps
\* its type, the loop runs exactly while a process does, a connection is served
\* exactly while the loop reads, and no more hooks are begun than the quota allows.
THEOREM TypeCorrect == Spec => []TypeOK
  <1>1. Init => ServiceTypeOK /\ LoopInv
    <2> SUFFICES ASSUME Init PROVE ServiceTypeOK /\ LoopInv
      OBVIOUS
    <2>1. ServiceTypeOK
      BY ServiceAssumption, QuotaAtStart DEF Init, ServiceInit, ServiceTypeOK
    <2>2. LoopInv
      BY DEF Init, SessionInit, LoopInv, Phase, Running
    <2> QED BY <2>1, <2>2
  <1>2. ServiceTypeOK /\ WindowsInv /\ [Next]_vars => ServiceTypeOK'
    BY StepKeepsTypes
  <1>3. SessionInv /\ LoopIsRun /\ AnswersInv /\ LoopInv /\ [Next]_vars => LoopInv'
    BY StepKeepsLoopInv
  <1>4. SessionInv /\ LoopIsRun /\ AnswersInv /\ LoopInv /\ ServiceTypeOK /\ WindowsInv
          /\ MetadataInv /\ NewsInv => TypeOK
    BY ServicesAssumption DEF SessionInv, LoopIsRun, AnswersInv, LoopInv, WindowsInv, MetadataInv, NewsInv, TypeOK
  <1> QED BY <1>1, <1>2, <1>3, <1>4, SessionInvariant, ServicesImplementSession, AnswersInvariant,
       WindowsInvariant, MetadataInvariant, NewsInvariant, PTL DEF Spec
=============================================================================
