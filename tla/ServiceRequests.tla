-------------------------- MODULE ServiceRequests --------------------------
(***************************************************************************)
(* What one coordinator does for a request, an action or an event: the     *)
(* methods of handle_ipc and the hooks of src/main.rs, dispatch_action and *)
(* the window metadata of crates/wm-runtime/src/lib.rs, the rules of       *)
(* crates/wm-rules/src/lib.rs, press and release of                        *)
(* crates/wm-input/src/lib.rs and the quota of crates/wm-hooks/src/lib.rs. *)
(*                                                                         *)
(* The configuration in force is a parameter: how it gets there is         *)
(* Configuration.tla.  Of the core only what requests change is kept: the  *)
(* selected layout and the camera of the active workspace, which is the    *)
(* only one because nothing creates another, and the managed windows.      *)
(***************************************************************************)
EXTENDS Naturals, Sequences, RuleEvaluation

CONSTANTS
  Chord, Mode, InitialMode,
  Layout, DefaultLayout,
  Configured,     \* the layouts that have a provider
  Workspace,      \* the one workspace
  Camera, InitialCamera,
  Launch,         \* launches begin_pending_spawn accepts
  Window, Metadata,
  Binding,        \* mode -> chord -> [name, argument, next_mode], or Unbound
  Rules,          \* the configured rules, in the order of the source
  Hook,           \* the events for which a hook is configured
  HookLimit,      \* hooks a session may run
  Missing,        \* a parameter or argument that is absent or of another type
  Invalid,        \* one whose value is refused
  Unbound, NoLaunch, NoMetadata

ActionName == {"switch_mode", "spawn", "cancel_pending_spawn", "select_layout", "interaction"}

Argument == Launch \cup Layout \cup {Missing, Invalid}

Action == [name : ActionName, argument : Argument]

\* A rule matches some metadata, selects actions and may end the evaluation.
Rule == [priority : Nat, matches : SUBSET Metadata, actions : Seq(Action), stop : BOOLEAN]

ASSUME ServiceAssumption ==
  /\ InitialMode \in Mode
  /\ DefaultLayout \in Layout
  /\ Configured \subseteq Layout
  /\ InitialCamera \in Camera
  /\ NoLaunch \notin Launch
  /\ NoMetadata \notin Metadata
  /\ HookLimit \in Nat \ {0}
  /\ {Missing, Invalid} \cap (Launch \cup Layout) = {}
  /\ Rules \in Seq(Rule)
  /\ \A m \in Mode, c \in Chord :
       Binding[m][c] \in
         [name : ActionName, argument : Argument, next_mode : Mode] \cup {Unbound}
  /\ \A m \in Mode, c \in Chord :
       Unbound \notin [name : ActionName, argument : Argument, next_mode : Mode]

VARIABLES
  mode, consumed,    \* InputState
  pending_spawn,
  layout, camera,    \* of the active workspace
  dispatched,        \* hooks begun in this session
  hook_active,
  windows,           \* managed windows
  window_metadata    \* what the rules last saw of each

inputVars == <<mode, consumed>>
coreVars == <<layout, camera, windows>>
hookVars == <<dispatched, hook_active>>
serviceVars == <<inputVars, pending_spawn, coreVars, hookVars, window_metadata>>
-----------------------------------------------------------------------------
ServiceInit ==
  /\ mode = InitialMode
  /\ consumed = {}
  /\ pending_spawn = NoLaunch
  /\ layout = DefaultLayout
  /\ camera = InitialCamera
  /\ dispatched = 0
  /\ hook_active = FALSE
  /\ windows = {}
  /\ window_metadata = [w \in Window |-> NoMetadata]

\* LayoutRuntime::from_config, and the startup hook is the session's first.
StartServices ==
  /\ dispatched' = IF "on_startup" \in Hook THEN 1 ELSE 0
  /\ UNCHANGED <<inputVars, pending_spawn, coreVars, hook_active, window_metadata>>

\* A process's own state is gone when it ends.
ForgetServices ==
  /\ mode' = InitialMode
  /\ consumed' = {}
  /\ pending_spawn' = NoLaunch
  /\ layout' = DefaultLayout
  /\ camera' = InitialCamera
  /\ dispatched' = 0
  /\ hook_active' = FALSE
  /\ windows' = {}
  /\ window_metadata' = [w \in Window |-> NoMetadata]

\* HookDispatcher::begin refuses while a hook runs, and beyond the quota.
CanBegin == ~hook_active /\ dispatched < HookLimit

\* Mutant: the quota is not looked at.
DispatchHookAlways(event) ==
  IF event \in Hook /\ ~hook_active
  THEN /\ dispatched' = dispatched + 1
       /\ hook_active' = FALSE
  ELSE UNCHANGED hookVars

\* Mutant: a hook that was begun is not finished.
DispatchHookOpen(event) ==
  IF event \in Hook /\ CanBegin
  THEN /\ dispatched' = dispatched + 1
       /\ hook_active' = TRUE
  ELSE UNCHANGED hookVars

\* dispatch_hook: begin, execute, whatever comes of it, and finish.
DispatchHook(event) ==
  IF event \in Hook /\ CanBegin
  THEN /\ dispatched' = dispatched + 1
       /\ hook_active' = FALSE
  ELSE UNCHANGED hookVars

\* What begin_pending_spawn and dispatch_action make of the two states they
\* change, and whether they return an error.
Effect(spawn, selected, fails) == [spawn |-> spawn, layout |-> selected, fails |-> fails]

\* Mutant: the old launch is dropped before the new one is looked at.
BeginPendingSpawnAnew(e, launch) ==
  IF launch \in Launch THEN [e EXCEPT !.spawn = launch]
  ELSE [e EXCEPT !.spawn = NoLaunch, !.fails = TRUE]

BeginPendingSpawn(e, launch) ==
  IF launch \in Launch THEN [e EXCEPT !.spawn = launch] ELSE [e EXCEPT !.fails = TRUE]

CancelPendingSpawn(e) == [e EXCEPT !.spawn = NoLaunch]

SelectLayout(e, selected) ==
  IF selected \in Layout THEN [e EXCEPT !.layout = selected] ELSE [e EXCEPT !.fails = TRUE]

DispatchAction(e, action) ==
  CASE action.name = "spawn" -> BeginPendingSpawn(e, action.argument)
    [] action.name = "cancel_pending_spawn" -> CancelPendingSpawn(e)
    [] action.name = "select_layout" -> SelectLayout(e, action.argument)
    [] OTHER -> e

\* Rule actions are dispatched one after the other; errors are only logged.
DispatchAll(e, actions) ==
  FoldLeft(LAMBDA f, a : [DispatchAction(f, a) EXCEPT !.fails = FALSE], e, actions)

Now == Effect(pending_spawn, layout, FALSE)

Commit(e) ==
  /\ pending_spawn' = e.spawn
  /\ layout' = e.layout
-----------------------------------------------------------------------------
(* The methods of handle_ipc, each with the result it answers.             *)

Answer(result, fails) == result = IF fails THEN "error" ELSE "success"

\* status, config.status, windows.list and workspaces.list.
Status(result) ==
  /\ result = "success"
  /\ UNCHANGED serviceVars

\* No workspace but the active one exists; the hook runs all the same.
SwitchWorkspace(workspace, result) ==
  /\ Answer(result, workspace # Workspace)
  /\ IF result = "success" THEN DispatchHook("on_workspace_change") ELSE UNCHANGED hookVars
  /\ UNCHANGED <<inputVars, pending_spawn, coreVars, window_metadata>>

\* The mode is switched and the press consumed before the action is tried.
PressInput(chord, result) ==
  /\ IF chord = Missing \/ Binding[mode][chord] = Unbound
     THEN /\ Answer(result, chord = Missing)
          /\ UNCHANGED <<inputVars, pending_spawn, layout>>
     ELSE LET binding == Binding[mode][chord]
              done == DispatchAction(Now, binding)
          IN  /\ consumed' = consumed \cup {chord}
              /\ mode' = binding.next_mode
              /\ Commit(done)
              /\ Answer(result, done.fails)
  /\ UNCHANGED <<camera, windows, hookVars, window_metadata>>

ReleaseInput(chord, result) ==
  /\ Answer(result, chord = Missing)
  /\ consumed' = consumed \ {chord}
  /\ UNCHANGED <<mode, pending_spawn, coreVars, hookVars, window_metadata>>

\* Unlike the action, the method refuses a layout without a provider.
SelectConfiguredLayout(selected, result) ==
  /\ Answer(result, selected \notin Configured)
  /\ layout' = IF selected \in Configured THEN selected ELSE layout
  /\ UNCHANGED <<inputVars, pending_spawn, camera, windows, hookVars, window_metadata>>

SetCamera(position, result) ==
  /\ Answer(result, position \notin Camera)
  /\ camera' = IF position \in Camera THEN position ELSE camera
  /\ UNCHANGED <<inputVars, pending_spawn, layout, windows, hookVars, window_metadata>>

\* A reload that gets through clears the consumed chords, and leaves a mode
\* that the new bindings do not have; any other changes nothing here.
Synchronize(applied) ==
  /\ consumed' = IF applied THEN {} ELSE consumed
  /\ mode' \in IF applied THEN {mode, InitialMode} ELSE {mode}

ReloadConfig(result) ==
  \E applied \in BOOLEAN :
    /\ Answer(result, ~applied)
    /\ Synchronize(applied)
    /\ UNCHANGED <<pending_spawn, coreVars, hookVars, window_metadata>>

SpawnPending(launch, result) ==
  /\ LET done == BeginPendingSpawn(Now, launch)
     IN  Answer(result, done.fails) /\ Commit(done)
  /\ UNCHANGED <<inputVars, camera, windows, hookVars, window_metadata>>

SpawnCancel(result) ==
  /\ result = "success"
  /\ Commit(CancelPendingSpawn(Now))
  /\ UNCHANGED <<inputVars, camera, windows, hookVars, window_metadata>>

UnknownMethod(result) ==
  /\ result = "error"
  /\ UNCHANGED serviceVars

Request ==
  [method : {"status", "config.reload", "spawn.cancel", "unknown"}, argument : {Missing}]
    \cup [method : {"workspace.switch"}, argument : {Workspace, Missing, Invalid}]
    \cup [method : {"input.press", "input.release"}, argument : Chord \cup {Missing}]
    \cup [method : {"layout.select"}, argument : Layout \cup {Missing, Invalid}]
    \cup [method : {"camera.set"}, argument : Camera \cup {Missing, Invalid}]
    \cup [method : {"spawn.pending"}, argument : Launch \cup {Missing, Invalid}]

HandleIpc(request, result) ==
  CASE request.method = "status" -> Status(result)
    [] request.method = "workspace.switch" -> SwitchWorkspace(request.argument, result)
    [] request.method = "input.press" -> PressInput(request.argument, result)
    [] request.method = "input.release" -> ReleaseInput(request.argument, result)
    [] request.method = "layout.select" -> SelectConfiguredLayout(request.argument, result)
    [] request.method = "camera.set" -> SetCamera(request.argument, result)
    [] request.method = "config.reload" -> ReloadConfig(result)
    [] request.method = "spawn.pending" -> SpawnPending(request.argument, result)
    [] request.method = "spawn.cancel" -> SpawnCancel(result)
    [] OTHER -> UnknownMethod(result)
-----------------------------------------------------------------------------
(* The events of the window system, which both loops hand to the core      *)
(* first: what the core refuses is logged and has no further effect.       *)

\* Mutant: a window that is mapped again is new to the rules.
WindowMappedAnew(w) ==
  /\ IF w \in windows THEN UNCHANGED hookVars ELSE DispatchHook("on_window_open")
  /\ windows' = windows \cup {w}
  /\ window_metadata' = [window_metadata EXCEPT ![w] = NoMetadata]
  /\ UNCHANGED <<inputVars, pending_spawn, layout, camera>>

WindowMapped(w) ==
  /\ IF w \in windows THEN UNCHANGED hookVars ELSE DispatchHook("on_window_open")
  /\ windows' = windows \cup {w}
  /\ UNCHANGED <<inputVars, pending_spawn, layout, camera, window_metadata>>

\* The `rules` of LayoutRuntime.
Engine == RuleEngine(Rules)

\* Mutant: the rules are evaluated for metadata they have seen.
WindowMetadataAgain(w, metadata) ==
  /\ IF w \in windows
     THEN /\ window_metadata' = [window_metadata EXCEPT ![w] = metadata]
          /\ Commit(DispatchAll(Now, Evaluate(Engine, metadata)))
     ELSE UNCHANGED <<window_metadata, pending_spawn, layout>>
  /\ UNCHANGED <<inputVars, camera, windows, hookVars>>

\* update_window_metadata evaluates the rules only when the metadata is new.
WindowMetadataChanged(w, metadata) ==
  /\ IF w \in windows /\ window_metadata[w] # metadata
     THEN /\ window_metadata' = [window_metadata EXCEPT ![w] = metadata]
          /\ Commit(DispatchAll(Now, Evaluate(Engine, metadata)))
     ELSE UNCHANGED <<window_metadata, pending_spawn, layout>>
  /\ UNCHANGED <<inputVars, camera, windows, hookVars>>

WindowUnmapped(w) ==
  /\ windows' = windows \ {w}
  /\ window_metadata' =
       IF w \in windows THEN [window_metadata EXCEPT ![w] = NoMetadata] ELSE window_metadata
  /\ UNCHANGED <<inputVars, pending_spawn, layout, camera, hookVars>>

\* The loop's own reload_if_changed, after the requests: nothing was edited,
\* or what was is applied or not.  Only this one runs the reload hook.
PollReload ==
  \E applied \in BOOLEAN :
    /\ Synchronize(applied)
    /\ IF applied THEN DispatchHook("on_reload") ELSE UNCHANGED hookVars
    /\ UNCHANGED <<pending_spawn, coreVars, window_metadata>>

ServiceTypeOK ==
  /\ mode \in Mode
  /\ consumed \subseteq Chord
  /\ pending_spawn \in Launch \cup {NoLaunch}
  /\ layout \in Layout
  /\ camera \in Camera
  /\ dispatched \in 0 .. HookLimit
  /\ hook_active \in BOOLEAN
  /\ windows \subseteq Window
  /\ window_metadata \in [Window -> Metadata \cup {NoMetadata}]
=============================================================================
