--------------------------- MODULE NestedSession ---------------------------
(***************************************************************************)
(* The nested Wayland server of crates/wm-backend-wayland/src/lib.rs with  *)
(* the coordinator it drives: one thread that, iteration after iteration,  *)
(* forwards host input, dispatches client requests, retries overdue        *)
(* configures, hands the queued events to the core, serves IPC and         *)
(* reloads, copies the scene back into the server and paints a frame.      *)
(* Clients run beside it: what they request arrives while the loop         *)
(* dispatches, configures reach them through a queue, and they answer them *)
(* late, out of date or never.                                             *)
(*                                                                         *)
(* The coordinator is CoreState with one workspace and one layout, the     *)
(* handshake guard is XdgLifecycle.  Popups, cursors and pointer motion    *)
(* are left out; a press hits any painted window.  Titles and the rules    *)
(* they trigger are left out too: what a rule can do to this state, run    *)
(* the layout, Services does in the same iteration.                        *)
(***************************************************************************)
EXTENDS Naturals, Sequences, FiniteSets, SequencesExt

CONSTANTS
  Surface,      \* wl_surfaces of all clients
  Key,          \* surface -> its protocol id, which only its client makes unique
  Window,       \* window identifiers, 1 .. n
  Rect, NoRect, \* geometries, the size a configure carries being one of them
  InitialRect,  \* the geometry of a new toplevel
  NoWindow, NoSurface, NoRequest,
  TheWorkspace, TheLayout,
  Responsive,   \* the surfaces whose clients keep answering
  MaxBehind,    \* bound on the configures a client leaves unanswered
  MaxEvents     \* bound on the events queued about one window in one iteration

VARIABLES
  \* CoreState
  windows, workspaces, active, scene, focused, layout, geometry,
  \* XdgLifecycle
  states, pending,
  \* NestedState
  window_of,        \* `windows`: protocol id -> window
  window_geometry,  \* window -> where it is painted, or NoRect
  window_order,     \* back to front
  focused_window,   \* the window painted with the focus border
  next_window,
  events,           \* queued BackendEvents
  \* smithay and the clients
  toplevels,        \* live xdg toplevels, oldest first
  keyboard,         \* surface with the keyboard focus
  buffered,         \* surfaces with a buffer
  inbox,            \* surface -> configures its client has not acknowledged
  unflushed,        \* surfaces configured by the dispatch under way
  \* the event loop
  phase,
  outgoing          \* configures the current phase still has to send, each to
                    \* a client of its own, so that their order tells nothing

coreVars == <<windows, workspaces, active, scene, focused, layout, geometry>>
xdgVars == <<states, pending>>
paintVars == <<window_geometry, window_order, focused_window>>
clientVars == <<toplevels, buffered, inbox, unflushed>>
vars == <<coreVars, xdgVars, paintVars, clientVars, window_of, next_window, events,
          keyboard, phase, outgoing>>

Core == INSTANCE CoreState WITH
  Workspace <- {TheWorkspace}, FirstWorkspace <- TheWorkspace,
  Layout <- {TheLayout}, DefaultLayout <- TheLayout, SavedGeometry <- {}

\* A client has MaxBehind configures unanswered, one more is being sent.
MaxSerial == Cardinality(Surface) * (MaxBehind + 1)

\* The server always passes the protocol's serial, so the ledger's own counter
\* is never read: it stays at its bound.
Xdg == INSTANCE XdgLifecycle WITH
  Geometry <- Rect, Timeout <- 1, next_serial <- MaxSerial

Event == [kind : {"Mapped", "Focused", "Unmapped"}, window : Window]
           \cup [kind : {"OutputAdded"}, window : {NoWindow}]

ASSUME NestedAssumption ==
  /\ IsFiniteSet(Surface)
  /\ IsFiniteSet(Window) /\ Window \subseteq Nat
  /\ NoWindow \notin Window /\ NoSurface \notin Surface
  /\ InitialRect \in Rect /\ NoRect \notin Rect
  /\ NoRequest \notin Xdg!Request
  /\ MaxBehind \in Nat \ {0} /\ MaxEvents \in Nat

\* A BTreeSet of identifiers can always be iterated.
ASSUME IdOrderAssumption ==
  \A S \in SUBSET Window : \E order \in Core!OrdersOf(S) : Core!InIdOrder(order)

Phase == {"input", "clients", "retry", "events", "relayout", "services", "sync",
          "resize", "frame"}

\* A configure on its way to a client, and one still to be sent.
Delivery == [serial : 1 .. MaxSerial, size : Rect]

Send == [window : Window, geometry : Rect]
-----------------------------------------------------------------------------
Queued(kind, w) == <<[kind |-> kind, window |-> w]>>

\* Mutant: surfaces are not told apart.
OneKey(s) == CHOOSE k \in {Key[t] : t \in Surface} : TRUE

\* surface_key: a surface goes by its protocol id.
SurfaceKey(s) == Key[s]

WindowFor(s) == window_of[SurfaceKey(s)]

\* toplevel_surfaces().find(..): the oldest toplevel that resolves to w.
HasToplevel(w) == \E i \in DOMAIN toplevels : WindowFor(toplevels[i]) = w

ToplevelOf(w) ==
  toplevels[CHOOSE i \in DOMAIN toplevels :
              /\ WindowFor(toplevels[i]) = w
              /\ \A j \in 1 .. i - 1 : WindowFor(toplevels[j]) # w]

\* Serials in flight; the real ones are never reused, here one is free again
\* once no copy of it is left.
InFlight ==
  (UNION {{inbox[s][i].serial : i \in DOMAIN inbox[s]} : s \in Surface})
    \cup {pending[w].serial : w \in {v \in Window : pending[v] # NoRequest}}

FreshSerial ==
  CHOOSE n \in 1 .. MaxSerial : n \notin InFlight /\ 1 .. n - 1 \subseteq InFlight

\* send_configure: the client of s has one more configure to answer.
Deliver(s, g) ==
  inbox' = [inbox EXCEPT ![s] = Append(@, [serial |-> FreshSerial, size |-> g])]

Room(w) == Len(SelectSeq(events, LAMBDA e : e.window = w)) < MaxEvents

\* Vec::retain, where w occurs at most once.
Dropped(order, w) == IF Core!Listed(order, w) THEN Core!Without(order, w) ELSE order

\* Mutant: a first commit leaves the core to find out about the focus itself.
AnnounceMapOnly(w) == Queued("Mapped", w)

AnnounceMap(w) == Queued("Mapped", w) \o Queued("Focused", w)

\* Mutant: only a toplevel mapped right now is announced as gone.
AnnounceMappedDestroy(w) == IF states[w] = "Mapped" THEN Queued("Unmapped", w) ELSE <<>>

\* A window is announced as unmapped even if it never was mapped.
AnnounceDestroy(w) == Queued("Unmapped", w)

\* Mutant: a toplevel is configured with the place it had, which a toplevel the
\* core has not laid out yet has lost.
LastSize(w) == window_geometry[w]

\* The size a toplevel is configured with after its buffer went.
SizeAfterUnmap(w) == IF window_geometry[w] = NoRect THEN InitialRect ELSE window_geometry[w]

Init ==
  /\ Core!Init
  /\ states = [w \in Window |-> "None"]
  /\ pending = [w \in Window |-> NoRequest]
  /\ window_of = [k \in {SurfaceKey(s) : s \in Surface} |-> NoWindow]
  /\ window_geometry = [w \in Window |-> NoRect]
  /\ window_order = <<>>
  /\ focused_window = NoWindow
  /\ next_window = 1
  /\ events = Queued("OutputAdded", NoWindow)
  /\ toplevels = <<>>
  /\ keyboard = NoSurface
  /\ buffered = {}
  /\ inbox = [s \in Surface |-> <<>>]
  /\ unflushed = {}
  /\ phase = "input"
  /\ outgoing = {}
-----------------------------------------------------------------------------
(* Host input.                                                             *)

\* A button press on a painted window moves the keyboard focus there and
\* queues the event that makes the core follow; one press per iteration here.
PointerPress(w) ==
  /\ phase = "input"
  /\ Contains(window_order, w) /\ window_geometry[w] # NoRect /\ HasToplevel(w)
  /\ ~\E i \in DOMAIN events : events[i].kind = "Focused"
  /\ keyboard' = ToplevelOf(w)
  /\ events' = events \o Queued("Focused", WindowFor(ToplevelOf(w)))
  /\ UNCHANGED <<coreVars, xdgVars, paintVars, clientVars, window_of, next_window,
                 phase, outgoing>>

\* update_output: the host window was resized; at most once per iteration here.
HostResized ==
  /\ phase = "input"
  /\ events = <<>>
  /\ events' = events \o Queued("OutputAdded", NoWindow)
  /\ UNCHANGED <<coreVars, xdgVars, paintVars, clientVars, window_of, next_window,
                 keyboard, phase, outgoing>>

InputDone ==
  /\ phase = "input"
  /\ phase' = "clients"
  /\ UNCHANGED <<coreVars, xdgVars, paintVars, clientVars, window_of, next_window,
                 events, keyboard, outgoing>>
-----------------------------------------------------------------------------
(* Client requests, dispatched to the handlers of NestedState.             *)

\* new_toplevel: register and configure, which together track one request.
NewToplevel(s) ==
  LET w == next_window
  IN  /\ phase = "clients"
      /\ ~Contains(toplevels, s) /\ s \notin buffered
      /\ w \in Window
      /\ next_window' = w + 1
      /\ toplevels' = Append(toplevels, s)
      /\ window_of' = [window_of EXCEPT ![SurfaceKey(s)] = w]
      /\ window_geometry' = [window_geometry EXCEPT ![w] = InitialRect]
      /\ window_order' = Append(window_order, w)
      /\ Deliver(s, InitialRect)
      /\ unflushed' = unflushed \cup {s}
      /\ Xdg!Track(w, InitialRect, FreshSerial)
      /\ UNCHANGED <<coreVars, focused_window, buffered, events, keyboard,
                     phase, outgoing>>

\* ack_configure: smithay hands over only serials it sent and still waits for,
\* none of which a client has seen before the dispatch flushed it, and forgets
\* the older ones with the acknowledged one.
Ack(s, i) ==
  LET w == WindowFor(s)
      serial == inbox[s][i].serial
  IN  /\ phase = "clients"
      /\ Contains(toplevels, s)
      /\ i \in DOMAIN inbox[s] /\ s \notin unflushed
      /\ inbox' = [inbox EXCEPT ![s] = SubSeq(@, i + 1, Len(@))]
      /\ IF w # NoWindow /\ Xdg!Accepts(w, serial)
           THEN Xdg!AcknowledgeSerial(w, serial)
           ELSE UNCHANGED xdgVars
      /\ UNCHANGED <<coreVars, paintVars, toplevels, buffered, unflushed, window_of,
                     next_window, events, keyboard, phase, outgoing>>

\* commit with a buffer: only an acknowledged toplevel maps; it takes the
\* keyboard and announces itself.
CommitBuffer(s) ==
  LET w == WindowFor(s)
  IN  /\ phase = "clients"
      /\ Contains(toplevels, s)
      /\ Room(w)
      /\ buffered' = buffered \cup {s}
      /\ IF w # NoWindow /\ states[w] = "ReadyToCommit"
           THEN /\ Xdg!Commit(w)
                /\ keyboard' = s
                /\ events' = events \o AnnounceMap(w)
           ELSE UNCHANGED <<xdgVars, keyboard, events>>
      /\ UNCHANGED <<coreVars, paintVars, toplevels, inbox, unflushed, window_of, next_window,
                     phase, outgoing>>

\* commit of a null buffer: a mapped toplevel is taken off the screen, gives
\* the keyboard up, and is configured afresh; `unmap` and the configure
\* together replace its request.
CommitNull(s) ==
  LET w == WindowFor(s)
      g == SizeAfterUnmap(w)
  IN  /\ phase = "clients"
      /\ Contains(toplevels, s)
      /\ Room(w)
      /\ buffered' = buffered \ {s}
      /\ IF w # NoWindow /\ states[w] = "Mapped"
           THEN /\ window_geometry' = [window_geometry EXCEPT ![w] = NoRect]
                /\ window_order' = Dropped(window_order, w)
                /\ focused_window' = IF focused_window = w THEN NoWindow ELSE focused_window
                /\ keyboard' = IF keyboard # NoSurface /\ WindowFor(keyboard) = w
                                 THEN NoSurface ELSE keyboard
                /\ events' = events \o Queued("Unmapped", w)
                /\ Deliver(ToplevelOf(w), g)
                /\ unflushed' = unflushed \cup {ToplevelOf(w)}
                /\ Xdg!Track(w, g, FreshSerial)
           ELSE UNCHANGED <<xdgVars, paintVars, keyboard, events, inbox, unflushed>>
      /\ UNCHANGED <<coreVars, toplevels, window_of, next_window, phase, outgoing>>

\* toplevel_destroyed: the surface stays, and with it the keyboard focus.
DestroyToplevel(s) ==
  LET w == WindowFor(s)
  IN  /\ phase = "clients"
      /\ Contains(toplevels, s)
      /\ Room(w)
      /\ toplevels' = Dropped(toplevels, s)
      /\ buffered' = buffered \ {s}
      /\ inbox' = [inbox EXCEPT ![s] = <<>>]
      /\ unflushed' = unflushed \ {s}
      /\ IF w # NoWindow
           THEN /\ window_of' = [window_of EXCEPT ![SurfaceKey(s)] = NoWindow]
                /\ Xdg!Destroy(w)
                /\ window_geometry' = [window_geometry EXCEPT ![w] = NoRect]
                /\ window_order' = Dropped(window_order, w)
                /\ events' = events \o AnnounceDestroy(w)
           ELSE UNCHANGED <<window_of, xdgVars, window_geometry, window_order, events>>
      /\ UNCHANGED <<coreVars, focused_window, next_window, keyboard, phase,
                     outgoing>>

\* The dispatch ends by flushing what it sent; then retry_expired_configures,
\* first half: every overdue request is expired.
DispatchDone ==
  /\ phase = "clients"
  /\ phase' = "retry"
  /\ Xdg!Expire
  /\ outgoing' = {[window |-> w, geometry |-> pending[w].geometry] : w \in Xdg!Overdue}
  /\ unflushed' = {}
  /\ UNCHANGED <<coreVars, paintVars, toplevels, buffered, inbox, window_of, next_window,
                 events, keyboard>>
-----------------------------------------------------------------------------
(* Sending configures, after an expiry or after the layout changed.        *)

SendNext(send, allowed) ==
  LET w == send.window
      g == send.geometry
  IN  /\ outgoing' = outgoing \ {send}
      /\ IF allowed /\ HasToplevel(w)
           THEN /\ Deliver(ToplevelOf(w), g)
                /\ IF Xdg!CanConfigure(w)
                     THEN Xdg!ConfigureWithSerial(w, g, FreshSerial)
                     ELSE UNCHANGED xdgVars
           ELSE UNCHANGED <<inbox, xdgVars>>
      /\ UNCHANGED <<coreVars, paintVars, toplevels, buffered, unflushed, window_of,
                     next_window, events, keyboard, phase>>

\* Mutant: a retry is refused to a toplevel that is not mapped, as a
\* reconfigure is.
RetryMappedOnly ==
  phase = "retry" /\ \E send \in outgoing : SendNext(send, states[send.window] = "Mapped")

\* retry_expired_configures, second half: the request is sent again, with the
\* geometry it had.
Retry == phase = "retry" /\ \E send \in outgoing : SendNext(send, TRUE)

RetryDone ==
  /\ phase = "retry" /\ outgoing = {}
  /\ phase' = "events"
  /\ UNCHANGED <<coreVars, xdgVars, paintVars, clientVars, window_of, next_window,
                 events, keyboard, outgoing>>

\* reconfigure_mapped_toplevel returns early unless the toplevel is mapped.
Reconfigure ==
  /\ phase = "resize"
  /\ \E send \in outgoing : SendNext(send, states[send.window] = "Mapped")

ResizeDone ==
  /\ phase = "resize" /\ outgoing = {}
  /\ phase' = "frame"
  /\ UNCHANGED <<coreVars, xdgVars, paintVars, clientVars, window_of, next_window,
                 events, keyboard, outgoing>>
-----------------------------------------------------------------------------
(* The queued events, each applied to the core by run_nested's callback.   *)

Handle(kind) ==
  /\ phase = "events"
  /\ events # <<>> /\ Head(events).kind = kind
  /\ events' = Tail(events)
  /\ UNCHANGED <<xdgVars, paintVars, clientVars, window_of, next_window, keyboard,
                 outgoing>>

\* A new window is laid out at once; AlreadyMapped is logged and ends the
\* handling of the event.
HandleMapped ==
  LET w == Head(events).window
  IN  /\ Handle("Mapped")
      /\ IF w \in windows
           THEN UNCHANGED <<coreVars, phase>>
           ELSE Core!WindowMapped(w) /\ phase' = "relayout"

HandleFocused ==
  LET w == Head(events).window
  IN  /\ Handle("Focused")
      /\ IF w \in windows THEN Core!WindowFocused(w) ELSE UNCHANGED coreVars
      /\ UNCHANGED phase

HandleUnmapped ==
  LET w == Head(events).window
  IN  /\ Handle("Unmapped")
      /\ IF w \in windows THEN Core!WindowUnmapped(w) ELSE UNCHANGED coreVars
      /\ UNCHANGED phase

HandleOutputAdded ==
  /\ Handle("OutputAdded")
  /\ phase' = "relayout"
  /\ UNCHANGED coreVars

\* reapply_active: the configured provider, or the recovery layout.
Relayout ==
  /\ phase = "relayout"
  /\ Core!RunProvider(TheLayout) \/ Core!RunRecovery(TheLayout)
  /\ phase' = "events"
  /\ UNCHANGED <<xdgVars, paintVars, clientVars, window_of, next_window, events,
                 keyboard, outgoing>>

\* Mutant: the loop goes on with events still queued.
EventsDoneEarly ==
  /\ phase = "events"
  /\ phase' = "services"
  /\ UNCHANGED <<coreVars, xdgVars, paintVars, clientVars, window_of, next_window,
                 events, keyboard, outgoing>>

EventsDone ==
  /\ phase = "events" /\ events = <<>>
  /\ phase' = "services"
  /\ UNCHANGED <<coreVars, xdgVars, paintVars, clientVars, window_of, next_window,
                 events, keyboard, outgoing>>

\* poll_nested_services: an IPC request or a reload may run the layout.
Services ==
  /\ phase = "services"
  /\ \/ Core!RunProvider(TheLayout)
     \/ Core!RunRecovery(TheLayout)
     \/ UNCHANGED coreVars
  /\ phase' = "sync"
  /\ UNCHANGED <<xdgVars, paintVars, clientVars, window_of, next_window, events,
                 keyboard, outgoing>>

\* synchronize_window_geometry: the scene replaces what was painted, and the
\* windows it moved are to be reconfigured.
Synchronize ==
  LET here == scene[active]
      moved == {w \in ToSet(here.order) : window_geometry[w] # here.rects[w]}
  IN  /\ phase = "sync"
      /\ window_geometry' = here.rects
      /\ window_order' = here.order
      /\ focused_window' = focused[active]
      /\ outgoing' = {[window |-> w, geometry |-> here.rects[w]] : w \in moved}
      /\ phase' = "resize"
      /\ UNCHANGED <<coreVars, xdgVars, clientVars, window_of, next_window, events,
                     keyboard>>

\* A frame is painted and the loop sleeps; a request may become overdue.
Frame ==
  /\ phase = "frame"
  /\ phase' = "input"
  /\ \/ UNCHANGED xdgVars
     \/ /\ \A s \in Surface : Len(inbox[s]) < MaxBehind
        /\ Xdg!Elapse
  /\ UNCHANGED <<coreVars, paintVars, clientVars, window_of, next_window, events,
                 keyboard, outgoing>>
-----------------------------------------------------------------------------
HostInput == HostResized \/ \E w \in Window : PointerPress(w)

ClientRequest ==
  \E s \in Surface :
    \/ NewToplevel(s)
    \/ \E i \in DOMAIN inbox[s] : Ack(s, i)
    \/ CommitBuffer(s)
    \/ CommitNull(s)
    \/ DestroyToplevel(s)

Loop ==
  \/ InputDone \/ DispatchDone
  \/ Retry \/ RetryDone
  \/ HandleMapped \/ HandleFocused \/ HandleUnmapped \/ HandleOutputAdded
  \/ Relayout \/ EventsDone
  \/ Services \/ Synchronize \/ Reconfigure \/ ResizeDone
  \/ Frame

Next == HostInput \/ ClientRequest \/ Loop

Spec == Init /\ [][Next]_vars

\* A client that is alive and well: it keeps answering the newest configure it
\* has received, in time every now and then, and then draws.
Answers(s) ==
  /\ SF_vars(inbox[s] # <<>> /\ Ack(s, Len(inbox[s])))
  /\ SF_vars(CommitBuffer(s) /\ states' # states)

\* The loop never blocks, and some clients answer.
FairSpec == Spec /\ WF_vars(Loop) /\ \A s \in Responsive : Answers(s)
-----------------------------------------------------------------------------
ServerTypeOK ==
  /\ Xdg!XdgTypeOK
  /\ window_of \in [{SurfaceKey(s) : s \in Surface} -> Window \cup {NoWindow}]
  /\ window_geometry \in [Window -> Rect \cup {NoRect}]
  /\ window_order \in Seq(Window)
  /\ focused_window \in Window \cup {NoWindow}
  /\ next_window \in Nat
  /\ events \in Seq(Event)
  /\ toplevels \in Seq(Surface)
  /\ keyboard \in Surface \cup {NoSurface}
  /\ buffered \subseteq Surface
  /\ inbox \in [Surface -> Seq(Delivery)]
  /\ unflushed \subseteq Surface
  /\ phase \in Phase
  /\ outgoing \subseteq Send

TypeOK == Core!TypeOK /\ ServerTypeOK

Announces(i, kind, w) == events[i].kind = kind /\ events[i].window = w

\* The core will manage w once it has handled the first n queued events.
ManagedAfter(n, w) ==
  \/ w \in windows /\ \A j \in 1 .. n : ~Announces(j, "Unmapped", w)
  \/ \E i \in 1 .. n :
       Announces(i, "Mapped", w) /\ \A j \in i + 1 .. n : ~Announces(j, "Unmapped", w)

Managed(w) == ManagedAfter(Len(events), w)

\* The core's windows lag behind the toplevels by exactly the queued events:
\* once they are applied, every mapped toplevel is managed and nothing that
\* has been destroyed is.
CoreFollowsToplevels ==
  \A w \in Window :
    /\ states[w] = "Mapped" => Managed(w)
    /\ Managed(w) => states[w] # "None"

\* When a frame is painted, it shows the core's paint order, every window in it
\* still has its toplevel, and the focus border is on one of them or nowhere.
FrameShowsLiveWindows ==
  phase = "frame" =>
    /\ window_order = scene[active].order
    /\ \A i \in DOMAIN window_order : HasToplevel(window_order[i])
    /\ focused_window # NoWindow => Contains(window_order, focused_window)

\* When a frame is painted, the window with the focus border is the one whose
\* client has the keyboard, among all the windows the core manages.
KeyboardFollowsFocus ==
  phase = "frame" =>
    \A w \in windows :
      focused_window = w <=> keyboard # NoSurface /\ WindowFor(keyboard) = w

\* A request in the ledger is the newest configure its own client has received,
\* so the client can still answer it; an older configure never counts.
PendingIsNewest ==
  \A w \in Window :
    pending[w] # NoRequest =>
      /\ HasToplevel(w)
      /\ LET queue == inbox[ToplevelOf(w)]
         IN  queue # <<>> /\ Last(queue).serial = pending[w].serial

\* What the clients see of the handshake: a toplevel has been asked for a size
\* since it was created, unmapped or last given up on; its client has answered
\* everything it was asked.  The sizes themselves are forgotten once answered.
Asked == [w \in Window |-> IF states[w] \in {"None", "New"} THEN 0 ELSE 1]

Settled ==
  [w \in Window |->
     IF Asked[w] = 1 /\ HasToplevel(w) /\ inbox[ToplevelOf(w)] = <<>> THEN 1 ELSE 0]

Handshake == INSTANCE XdgHandshake WITH
  Proposal <- {1},
  None <- 0,
  live <- {w \in Window : states[w] # "None"},
  want <- Asked,
  agreed <- Settled,
  shown <- {w \in Window : states[w] = "Mapped"}

\* The server keeps the promise of the lifecycle guard in the clients' terms: a
\* toplevel is mapped only when its client has answered every configure sent to
\* it, and no configure comes between the last answer and the mapping.
ImplementsHandshake == Handshake!Spec

\* The keyboard moves to a client when its toplevel is first mapped or is
\* pressed, and at no other time.
FocusMovesOnMapOrPress ==
  [][keyboard' # keyboard /\ keyboard' # NoSurface =>
       phase = "input" \/ ~Managed(WindowFor(keyboard'))]_vars

\* A toplevel whose client has taken its buffer away is not on the screen.
NullBufferUnmaps ==
  phase = "frame" =>
    \A i \in DOMAIN toplevels :
      toplevels[i] \notin buffered => ~Contains(window_order, WindowFor(toplevels[i]))

\* A toplevel is the same window from its creation to its destruction, whatever
\* other clients do.
WindowIsStable ==
  [][\A s \in ToSet(toplevels) \cap ToSet(toplevels') : WindowFor(s)' = WindowFor(s)]_vars

\* A toplevel whose client keeps answering comes to be managed by the core, or
\* goes away: retries and superseded configures never lock it out, and neither
\* does another client that never answers.
AnsweringClientIsManaged ==
  \A w \in Window :
    states[w] = "AwaitingConfigure" /\ HasToplevel(w) /\ ToplevelOf(w) \in Responsive
      ~> w \in windows \/ states[w] = "None"
=============================================================================
