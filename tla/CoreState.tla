----------------------------- MODULE CoreState -----------------------------
(***************************************************************************)
(* The coordinator of crates/wm-core/src/lib.rs: the mapped windows, and   *)
(* per workspace a scene, a focused window, the selected layout and the    *)
(* geometry saved for every layout.  Backend events, layout runs, manual   *)
(* placement and restored sessions arrive in any order, a rejected call    *)
(* (AlreadyMapped, NotMapped, UnknownWorkspace) leaving the state alone.   *)
(*                                                                         *)
(* A layout engine is external: a run may answer anything that             *)
(* LuaLayout::run_lua accepts, or what RecoveryLayout computes when there  *)
(* is no provider or it fails.  Cameras and the opaque provider state are  *)
(* carried by the code without being read, and are left out.               *)
(***************************************************************************)
EXTENDS Scene, FiniteSets

CONSTANTS Workspace,       \* workspace identifiers
          FirstWorkspace,  \* the one CoreState::default() creates
          Layout,          \* opaque layout identifiers
          DefaultLayout,   \* the one Workspace::new selects
          NoWindow,        \* Option<WindowId>::None
          SavedGeometry    \* per-layout geometry a restored session may hold

Saved == [Layout -> [Window -> Rect \cup {NoRect}]]

ASSUME CoreAssumption ==
  /\ FirstWorkspace \in Workspace
  /\ DefaultLayout \in Layout
  /\ NoWindow \notin Window
  /\ Window \subseteq Nat
  /\ IsFiniteSet(Window)
  /\ SavedGeometry \subseteq Saved

VARIABLES windows,     \* every mapped window
          workspaces,  \* workspaces created so far
          active,      \* active_workspace
          scene,       \* workspace -> its scene
          focused,     \* workspace -> its focused window or NoWindow
          layout,      \* workspace -> its selected layout
          geometry     \* workspace -> layout -> saved rectangle of each window

vars == <<windows, workspaces, active, scene, focused, layout, geometry>>

NoGeometry == [w \in Window |-> NoRect]

\* BTreeMap iteration: identifiers in increasing order.
InIdOrder(order) == \A i, j \in DOMAIN order : i < j => order[i] < order[j]

OrdersOf(S) ==
  {order \in [1 .. Cardinality(S) -> S] :
     \A i, j \in DOMAIN order : i # j => order[i] # order[j]}

\* A BTreeSet of identifiers can always be iterated.
ASSUME IdOrderAssumption ==
  \A S \in SUBSET Window : \E order \in OrdersOf(S) : InIdOrder(order)

IdOrderOf(S) == CHOOSE order \in OrdersOf(S) : InIdOrder(order)
-----------------------------------------------------------------------------
Init ==
  /\ windows = {}
  /\ workspaces = {FirstWorkspace}
  /\ active = FirstWorkspace
  /\ scene = [ws \in Workspace |-> EmptyScene]
  /\ focused = [ws \in Workspace |-> NoWindow]
  /\ layout = [ws \in Workspace |-> DefaultLayout]
  /\ geometry = [ws \in Workspace |-> [l \in Layout |-> NoGeometry]]

CreateWorkspace(ws) ==
  /\ ws \notin workspaces
  /\ workspaces' = workspaces \cup {ws}
  /\ UNCHANGED <<windows, active, scene, focused, layout, geometry>>

SwitchWorkspace(ws) ==
  /\ ws \in workspaces
  /\ active' = ws
  /\ UNCHANGED <<windows, workspaces, scene, focused, layout, geometry>>

\* apply_event(WindowMapped): a new window is in no scene until a layout runs.
WindowMapped(w) ==
  /\ w \notin windows
  /\ windows' = windows \cup {w}
  /\ UNCHANGED <<workspaces, active, scene, focused, layout, geometry>>

\* Mutant: a focused window is raised wherever it is shown.
WindowFocusedEverywhere(w) ==
  /\ w \in windows
  /\ focused' = [focused EXCEPT ![active] = w]
  /\ scene' = [ws \in Workspace |-> RaiseWindow(scene[ws], w)]
  /\ UNCHANGED <<windows, workspaces, active, layout, geometry>>

\* apply_event(WindowFocused): focus, and raise if the active scene has it.
WindowFocused(w) ==
  /\ w \in windows
  /\ focused' = [focused EXCEPT ![active] = w]
  /\ scene' = [scene EXCEPT ![active] = RaiseWindow(@, w)]
  /\ UNCHANGED <<windows, workspaces, active, layout, geometry>>

\* Mutant: focus falls back to the identifier before the unmapped one.
UnmapFocusingPrevious(w) ==
  /\ w \in windows
  /\ windows' = windows \ {w}
  /\ scene' = [ws \in Workspace |-> RemoveWindow(scene[ws], w)]
  /\ focused' = [ws \in Workspace |->
                   IF focused[ws] = w THEN w - 1 ELSE focused[ws]]
  /\ geometry' = [ws \in Workspace |->
                    [l \in Layout |-> [geometry[ws][l] EXCEPT ![w] = NoRect]]]
  /\ UNCHANGED <<workspaces, active, layout>>

\* Mutant: only the active workspace forgets the window.
UnmapInActiveOnly(w) ==
  /\ w \in windows
  /\ windows' = windows \ {w}
  /\ scene' = [scene EXCEPT ![active] = RemoveWindow(@, w)]
  /\ focused' = [focused EXCEPT ![active] = IF @ = w THEN NoWindow ELSE @]
  /\ geometry' = [geometry EXCEPT ![active] =
                    [l \in Layout |-> [@[l] EXCEPT ![w] = NoRect]]]
  /\ UNCHANGED <<workspaces, active, layout>>

\* apply_event(WindowUnmapped): every workspace forgets the window.
WindowUnmapped(w) ==
  /\ w \in windows
  /\ windows' = windows \ {w}
  /\ scene' = [ws \in Workspace |-> RemoveWindow(scene[ws], w)]
  /\ focused' = [ws \in Workspace |->
                   IF focused[ws] = w THEN NoWindow ELSE focused[ws]]
  /\ geometry' = [ws \in Workspace |->
                    [l \in Layout |-> [geometry[ws][l] EXCEPT ![w] = NoRect]]]
  /\ UNCHANGED <<workspaces, active, layout>>

\* Mutant: a manual placement is drawn and not saved.
SetGeometryUnsaved(w, r) ==
  /\ w \in windows
  /\ scene' = [scene EXCEPT ![active] = SetWindow(@, w, r)]
  /\ UNCHANGED <<windows, workspaces, active, focused, layout, geometry>>

SetGeometry(w, r) ==
  /\ w \in windows
  /\ scene' = [scene EXCEPT ![active] = SetWindow(@, w, r)]
  /\ geometry' = [geometry EXCEPT ![active][layout[active]][w] = r]
  /\ UNCHANGED <<windows, workspaces, active, focused, layout>>

\* focus() selects without raising.
Focus(w) ==
  /\ w \in windows
  /\ focused' = [focused EXCEPT ![active] = w]
  /\ UNCHANGED <<windows, workspaces, active, scene, layout, geometry>>

Raise(w) ==
  /\ w \in windows
  /\ CanRaise(scene[active], w)
  /\ scene' = [scene EXCEPT ![active] = RaiseWindow(@, w)]
  /\ UNCHANGED <<windows, workspaces, active, focused, layout, geometry>>
-----------------------------------------------------------------------------
(* A layout run.  The engine gets every mapped window, in identifier       *)
(* order, whichever workspace is active; its rectangles go into the active *)
(* scene one by one, windows new to the scene being appended in identifier *)
(* order; then the engine's order is offered to set_order, whose answer is *)
(* dropped.                                                                *)
\* Mutant: every placed window is pushed, the ones already listed included.
OverlayPushingAll(s, rects) ==
  [rects |-> [w \in Window |-> IF w \in windows THEN rects[w] ELSE s.rects[w]],
   order |-> s.order \o IdOrderOf(windows)]

Overlay(s, rects) ==
  [rects |-> [w \in Window |-> IF w \in windows THEN rects[w] ELSE s.rects[w]],
   order |-> s.order \o IdOrderOf(windows \ Placed(s))]

CommitLayout(l, rects, order) ==
  /\ layout' = [layout EXCEPT ![active] = l]
  /\ scene' = [scene EXCEPT ![active] = SetOrder(Overlay(@, rects), order)]
  /\ geometry' = [geometry EXCEPT ![active][l] =
                    [w \in Window |-> IF w \in windows THEN rects[w] ELSE NoRect]]
  /\ UNCHANGED <<windows, workspaces, active, focused>>

\* apply_layout / interact_layout with a Lua provider whose answer run_lua
\* accepts: a rectangle for every window, and a full order or none at all.
RunProvider(l) ==
  \E rects \in [windows -> Rect], order \in OrdersOf(windows) :
    CommitLayout(l, rects, order)

\* The same calls when the provider is missing or failed: saved rectangles
\* stay, new windows cascade, and the order is the identifier order.
RunRecovery(l) ==
  \E cascade \in [windows -> Rect] :
    LET saved == geometry[active][l]
        rects == [w \in windows |-> IF saved[w] # NoRect THEN saved[w] ELSE cascade[w]]
    IN  CommitLayout(l, rects, IdOrderOf(windows))

\* Mutant: a restored session keeps the windows that are gone.
RestoreWithoutRetain(l, saved) ==
  /\ layout' = [layout EXCEPT ![active] = l]
  /\ geometry' = [geometry EXCEPT ![active] = saved]
  /\ scene' = [scene EXCEPT ![active] =
                 [rects |-> saved[l],
                  order |-> IdOrderOf({w \in Window : saved[l][w] # NoRect})]]
  /\ UNCHANGED <<windows, workspaces, active, focused>>

\* restore_active_layout_state: windows that are no longer mapped are dropped
\* from the restored state, and the scene is rebuilt in identifier order.
Restore(l, saved) ==
  LET kept == [m \in Layout |->
                 [w \in Window |-> IF w \in windows THEN saved[m][w] ELSE NoRect]]
  IN  /\ layout' = [layout EXCEPT ![active] = l]
      /\ geometry' = [geometry EXCEPT ![active] = kept]
      /\ scene' = [scene EXCEPT ![active] =
                     [rects |-> kept[l],
                      order |-> IdOrderOf({w \in Window : kept[l][w] # NoRect})]]
      /\ UNCHANGED <<windows, workspaces, active, focused>>

Next ==
  \/ \E ws \in Workspace : CreateWorkspace(ws)
  \/ \E ws \in Workspace : SwitchWorkspace(ws)
  \/ \E w \in Window : WindowMapped(w)
  \/ \E w \in Window : WindowFocused(w)
  \/ \E w \in Window : WindowUnmapped(w)
  \/ \E w \in Window, r \in Rect : SetGeometry(w, r)
  \/ \E w \in Window : Focus(w)
  \/ \E w \in Window : Raise(w)
  \/ \E l \in Layout : RunProvider(l)
  \/ \E l \in Layout : RunRecovery(l)
  \/ \E l \in Layout, saved \in SavedGeometry : Restore(l, saved)

Spec == Init /\ [][Next]_vars
-----------------------------------------------------------------------------
TypeOK ==
  /\ windows \subseteq Window
  /\ workspaces \subseteq Workspace
  /\ active \in Workspace
  /\ scene \in [Workspace -> SceneState]
  /\ focused \in [Workspace -> Window \cup {NoWindow}]
  /\ layout \in [Workspace -> Layout]
  /\ geometry \in [Workspace -> Saved]

\* The active workspace exists: active_workspace() never panics with
\* "default workspace exists".
ActiveExists == active \in workspaces

\* Every workspace's paint order lists its scene's windows exactly once.
ScenesAreOrdered == \A ws \in Workspace : PaintOrder(scene[ws])

\* No workspace, active or not, and no layout, selected or not, remembers a
\* window that has been unmapped: not in its scene, its saved geometry, or
\* as its focus.
OnlyMappedWindows ==
  \A ws \in Workspace :
    /\ Placed(scene[ws]) \subseteq windows
    /\ focused[ws] # NoWindow => focused[ws] \in windows
    /\ \A l \in Layout, w \in Window : geometry[ws][l][w] # NoRect => w \in windows

\* A scene shows exactly the geometry saved for the selected layout, so that
\* saving the layout state and restoring it puts every window back in place.
SceneIsSavedGeometry ==
  \A ws \in Workspace : scene[ws].rects = geometry[ws][layout[ws]]

\* Work in the active workspace never reaches another one.  An inactive
\* workspace keeps its layout, the place of every window that stays mapped and
\* the paint order among these; it loses what has been unmapped, and nothing
\* else, and its focus moves only from an unmapped window to none.
InactiveWorkspacesAreLeftAlone ==
  [][\A ws \in Workspace \ {active} :
       /\ layout'[ws] = layout[ws]
       /\ focused'[ws] = IF focused[ws] \in windows \ windows' THEN NoWindow ELSE focused[ws]
       /\ Placed(scene'[ws]) = Placed(scene[ws]) \ (windows \ windows')
       /\ \A v \in windows' :
            /\ scene'[ws].rects[v] = scene[ws].rects[v]
            /\ \A w \in windows' : Above(scene'[ws], v, w) <=> Above(scene[ws], v, w)
            /\ \A l \in Layout : geometry'[ws][l][v] = geometry[ws][l][v]]_vars

\* Whatever happened before, a layout run would place every mapped window and
\* see its order accepted: the answer of set_order that apply_layout ignores
\* is never `false`, in the active workspace or in one switched to later.
ProviderOrderIsAccepted ==
  \A ws \in Workspace, rects \in [windows -> Rect] :
    /\ Placed(Overlay(scene[ws], rects)) = windows
    /\ \A order \in OrdersOf(windows) : AcceptsOrder(Overlay(scene[ws], rects), order)
=============================================================================
