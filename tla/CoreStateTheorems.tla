------------------------- MODULE CoreStateTheorems -------------------------
(***************************************************************************)
(* CoreState is correct for any number of workspaces, windows, layouts and *)
(* rectangles.  The inductive invariant is IInv: the properties support    *)
(* one another (an order that misses a window would make set_order refuse  *)
(* the provider's order, a window left in a scene after its unmap would    *)
(* make the scene and the saved geometry disagree), so they are proved     *)
(* together, one lemma per action.                                         *)
(***************************************************************************)
EXTENDS CoreState, SceneTheorems

IInv ==
  /\ TypeOK
  /\ ActiveExists
  /\ ScenesAreOrdered
  /\ OnlyMappedWindows
  /\ SceneIsSavedGeometry

\* The constants are those of a finite session.
LEMMA ConstantFacts ==
  /\ IsFiniteSet(Window) /\ Window \subseteq Nat
  /\ NoWindow \notin Window /\ NoRect \notin Rect
  /\ FirstWorkspace \in Workspace /\ DefaultLayout \in Layout
  /\ SavedGeometry \subseteq Saved
BY CoreAssumption, NoRectAssumption

\* Iterating a set of identifiers lists each of them exactly once.
LEMMA IdOrderListsAll ==
  ASSUME NEW S \in SUBSET Window
  PROVE  /\ IdOrderOf(S) \in OrdersOf(S)
         /\ IdOrderOf(S) \in Seq(Window)
         /\ IsFiniteSet(S)
         /\ Len(IdOrderOf(S)) = Cardinality(S)
         /\ \A i, j \in DOMAIN IdOrderOf(S) :
              IdOrderOf(S)[i] = IdOrderOf(S)[j] => i = j
         /\ \A i \in DOMAIN IdOrderOf(S) : IdOrderOf(S)[i] \in S
         /\ \A w \in S : Listed(IdOrderOf(S), w)
<1> DEFINE o == IdOrderOf(S)
<1>1. o \in OrdersOf(S)
  BY IdOrderAssumption DEF IdOrderOf
<1>2. IsFiniteSet(S) /\ Cardinality(S) \in Nat
  BY ConstantFacts, FS_Subset, FS_CardinalityType
<1>3. /\ o \in [1 .. Cardinality(S) -> S]
      /\ \A i, j \in DOMAIN o : o[i] = o[j] => i = j
  BY <1>1 DEF OrdersOf
<1>4. \A w \in S : Listed(o, w)
  BY <1>2, <1>3, InjectiveOrderIsComplete
<1> QED
  BY <1>1, <1>2, <1>3, <1>4

\* A scene rebuilt from saved geometry, as Workspace::restore does, is
\* ordered.
LEMMA RebuiltSceneIsOrdered ==
  ASSUME NEW g \in [Window -> Rect \cup {NoRect}]
  PROVE  LET s == [rects |-> g, order |-> IdOrderOf({w \in Window : g[w] # NoRect})]
         IN  s \in SceneState /\ PaintOrder(s)
<1> DEFINE s == [rects |-> g, order |-> IdOrderOf({w \in Window : g[w] # NoRect})]
<1>1. Placed(s) = {w \in Window : g[w] # NoRect} /\ Placed(s) \in SUBSET Window
  BY DEF Placed
<1>2. s.order = IdOrderOf(Placed(s)) /\ s.rects = g
  BY <1>1
<1>3. s \in SceneState
  BY <1>1, <1>2, IdOrderListsAll DEF SceneState
<1>4. PaintOrder(s)
  BY <1>1, <1>2, IdOrderListsAll
  DEF PaintOrder, OrderIsMapped, OrderHasNoRepeats, OrderIsComplete
<1> QED
  BY <1>3, <1>4

\* Writing a layout's rectangles into a scene that held only mapped windows
\* places every mapped window and keeps the paint order well formed.
LEMMA OverlayIsOrdered ==
  ASSUME windows \subseteq Window, NEW rects \in [windows -> Rect],
         NEW s \in SceneState, PaintOrder(s), Placed(s) \subseteq windows
  PROVE  LET t == Overlay(s, rects)
         IN  /\ t \in SceneState
             /\ PaintOrder(t)
             /\ Placed(t) = windows
             /\ t.rects = [w \in Window |-> IF w \in windows THEN rects[w] ELSE NoRect]
<1> DEFINE t == Overlay(s, rects)
           new == windows \ Placed(s)
           more == IdOrderOf(new)
           n == Len(s.order)
           m == Len(more)
<1>1. new \in SUBSET Window
  OBVIOUS
<1>2. /\ more \in Seq(Window) /\ m \in Nat /\ DOMAIN more = 1 .. m
      /\ \A i, j \in 1 .. m : more[i] = more[j] => i = j
      /\ \A i \in 1 .. m : more[i] \in new
      /\ \A w \in new : \E i \in 1 .. m : more[i] = w
  <2>1. /\ more \in Seq(Window)
        /\ \A i, j \in DOMAIN more : more[i] = more[j] => i = j
        /\ \A i \in DOMAIN more : more[i] \in new
        /\ \A w \in new : \E i \in DOMAIN more : more[i] = w
    BY <1>1, IdOrderListsAll DEF Listed
  <2>2. m \in Nat /\ DOMAIN more = 1 .. m
    BY <2>1
  <2> QED
    BY <2>1, <2>2
<1>3. /\ s.order \in Seq(Window) /\ n \in Nat /\ DOMAIN s.order = 1 .. n
      /\ \A i, j \in 1 .. n : s.order[i] = s.order[j] => i = j
      /\ \A i \in 1 .. n : s.order[i] \in Placed(s)
      /\ \A w \in Placed(s) : \E i \in 1 .. n : s.order[i] = w
  BY DEF SceneState, PaintOrder, OrderIsMapped, OrderHasNoRepeats,
         OrderIsComplete, Listed
<1>4. t.rects = [w \in Window |-> IF w \in windows THEN rects[w] ELSE NoRect]
  <2>1. t.rects = [w \in Window |-> IF w \in windows THEN rects[w] ELSE s.rects[w]]
    BY DEF Overlay
  <2>2. \A w \in Window : w \notin windows => s.rects[w] = NoRect
    BY DEF Placed
  <2> QED
    BY <2>1, <2>2
<1>5. /\ t.order = s.order \o more
      /\ t.order \in Seq(Window)
      /\ DOMAIN t.order = 1 .. n + m
      /\ \A i \in 1 .. n : t.order[i] = s.order[i]
      /\ \A i \in 1 .. m : t.order[n + i] = more[i]
  BY <1>2, <1>3 DEF Overlay
<1>6. t \in SceneState
  <2>1. [w \in Window |-> IF w \in windows THEN rects[w] ELSE s.rects[w]]
          \in [Window -> Rect \cup {NoRect}]
    BY DEF SceneState
  <2>2. s.order \o more \in Seq(Window)
    BY <1>2, <1>3
  <2>3. \A a \in [Window -> Rect \cup {NoRect}], b \in Seq(Window) :
          [rects |-> a, order |-> b] \in SceneState
    BY DEF SceneState
  <2> QED
    BY <2>1, <2>2, <2>3 DEF Overlay
<1>7. Placed(t) = windows
  <2>1. \A w \in windows : rects[w] \in Rect /\ rects[w] # NoRect
    BY ConstantFacts
  <2>2. \A w \in Window : t.rects[w] # NoRect <=> w \in windows
    BY <1>4, <2>1
  <2> QED
    BY <2>2 DEF Placed
<1>8. \A i \in 1 .. n + m :
        \/ i \in 1 .. n /\ t.order[i] = s.order[i]
        \/ i - n \in 1 .. m /\ t.order[i] = more[i - n]
  <2> SUFFICES ASSUME NEW i \in 1 .. n + m, i \notin 1 .. n
               PROVE  i - n \in 1 .. m /\ t.order[i] = more[i - n]
    BY <1>5
  <2>1. i - n \in 1 .. m /\ n + (i - n) = i
    BY <1>2, <1>3
  <2> QED
    BY <1>5, <2>1
<1>9. OrderIsMapped(t)
  <2> SUFFICES ASSUME NEW i \in 1 .. n + m
               PROVE  t.order[i] \in windows
    BY <1>5, <1>7 DEF OrderIsMapped
  <2>1. CASE i \in 1 .. n /\ t.order[i] = s.order[i]
    BY <1>3, <2>1
  <2>2. CASE i - n \in 1 .. m /\ t.order[i] = more[i - n]
    BY <1>2, <2>2
  <2> QED
    BY <1>8, <2>1, <2>2
<1>10. OrderHasNoRepeats(t)
  <2> SUFFICES ASSUME NEW i \in 1 .. n + m, NEW j \in 1 .. n + m,
                      t.order[i] = t.order[j]
               PROVE  i = j
    BY <1>5 DEF OrderHasNoRepeats
  <2>1. CASE i \in 1 .. n /\ j \in 1 .. n
    BY <1>3, <1>5, <2>1
  <2>2. CASE i \notin 1 .. n /\ j \notin 1 .. n
    <3>1. i - n \in 1 .. m /\ j - n \in 1 .. m /\ more[i - n] = more[j - n]
      BY <1>8, <2>2
    <3>2. i - n = j - n
      BY <1>2, <3>1
    <3> QED
      BY <1>3, <3>2
  <2>3. ASSUME NEW k \in 1 .. n + m, k \in 1 .. n, NEW l \in 1 .. n + m, l \notin 1 .. n
        PROVE  t.order[k] # t.order[l]
    <3>1. t.order[k] \in Placed(s)
      BY <1>3, <1>5, <2>3
    <3>2. t.order[l] \in new
      BY <1>2, <1>8, <2>3
    <3> QED
      BY <3>1, <3>2
  <2> QED
    BY <2>1, <2>2, <2>3
<1>11. OrderIsComplete(t)
  <2> SUFFICES ASSUME NEW w \in windows
               PROVE  \E i \in 1 .. n + m : t.order[i] = w
    BY <1>5, <1>7 DEF OrderIsComplete, Listed
  <2>1. CASE w \in Placed(s)
    BY <1>2, <1>3, <1>5, <2>1
  <2>2. CASE w \notin Placed(s)
    <3>1. PICK i \in 1 .. m : more[i] = w
      BY <1>2, <2>2
    <3>2. n + i \in 1 .. n + m
      BY <1>2, <1>3
    <3> QED
      BY <1>5, <3>1, <3>2
  <2> QED
    BY <2>1, <2>2
<1> QED
  BY <1>4, <1>6, <1>7, <1>9, <1>10, <1>11 DEF PaintOrder

\* ... and the scene then accepts any full order a provider returns.
LEMMA OverlayAcceptsOrder ==
  ASSUME windows \subseteq Window, NEW rects \in [windows -> Rect],
         NEW s \in SceneState, PaintOrder(s), Placed(s) \subseteq windows,
         NEW order \in OrdersOf(windows)
  PROVE  AcceptsOrder(Overlay(s, rects), order) /\ order \in Seq(Window)
<1> DEFINE t == Overlay(s, rects)
<1>1. t \in SceneState /\ PaintOrder(t) /\ Placed(t) = windows
  BY OverlayIsOrdered
<1>2. IsFiniteSet(windows) /\ Len(t.order) = Cardinality(windows)
  BY <1>1, PaintOrderLength, ConstantFacts
<1>3. Cardinality(windows) \in Nat
  BY <1>2, FS_CardinalityType
<1>4. /\ order \in [1 .. Cardinality(windows) -> windows]
      /\ \A i, j \in DOMAIN order : i # j => order[i] # order[j]
  BY DEF OrdersOf
<1>5. order \in Seq(Window) /\ Len(order) = Cardinality(windows)
  BY <1>3, <1>4
<1> QED
  BY <1>1, <1>2, <1>4, <1>5 DEF AcceptsOrder

-----------------------------------------------------------------------------
\* Every scene is well typed and ordered, and places only mapped windows.
LEMMA SceneFacts ==
  ASSUME IInv, NEW ws \in Workspace
  PROVE  /\ scene[ws] \in SceneState
         /\ PaintOrder(scene[ws])
         /\ Placed(scene[ws]) \subseteq windows
BY DEF IInv, TypeOK, ScenesAreOrdered, OnlyMappedWindows

\* CoreState::default() satisfies the inductive invariant.
LEMMA InitEstablishes == Init => IInv
<1> SUFFICES ASSUME Init PROVE IInv
  OBVIOUS
<1>1. EmptyScene \in SceneState /\ PaintOrder(EmptyScene) /\ Placed(EmptyScene) = {}
  BY EmptySceneIsOrdered DEF EmptyScene, Placed
<1>2. EmptyScene.rects = NoGeometry /\ NoGeometry \in [Window -> Rect \cup {NoRect}]
  BY DEF EmptyScene, NoGeometry
<1>3. TypeOK
  BY <1>1, <1>2, ConstantFacts DEF Init, TypeOK, Saved
<1>4. ActiveExists
  BY DEF Init, ActiveExists
<1>5. ScenesAreOrdered
  BY <1>1 DEF Init, ScenesAreOrdered
<1>6. OnlyMappedWindows
  BY <1>1 DEF Init, OnlyMappedWindows, NoGeometry
<1>7. SceneIsSavedGeometry
  BY <1>2, ConstantFacts DEF Init, SceneIsSavedGeometry
<1> QED
  BY <1>3, <1>4, <1>5, <1>6, <1>7 DEF IInv

\* Creating or switching workspaces keeps the invariant.
LEMMA WorkspaceStepsPreserve ==
  ASSUME IInv, NEW ws \in Workspace, CreateWorkspace(ws) \/ SwitchWorkspace(ws)
  PROVE  IInv'
BY DEF IInv, TypeOK, ActiveExists, ScenesAreOrdered, OnlyMappedWindows,
       SceneIsSavedGeometry, CreateWorkspace, SwitchWorkspace

\* A mapped window is in no scene yet, so the invariant stays.
LEMMA MapPreserves ==
  ASSUME IInv, NEW w \in Window, WindowMapped(w)
  PROVE  IInv'
BY DEF IInv, TypeOK, ActiveExists, ScenesAreOrdered, OnlyMappedWindows,
       SceneIsSavedGeometry, WindowMapped

\* Selecting a window without raising it keeps the invariant.
LEMMA FocusPreserves ==
  ASSUME IInv, NEW w \in Window, Focus(w)
  PROVE  IInv'
<1>1. TypeOK'
  BY DEF IInv, TypeOK, Focus
<1>2. OnlyMappedWindows'
  BY DEF IInv, TypeOK, OnlyMappedWindows, Focus
<1> QED
  BY <1>1, <1>2
  DEF IInv, ActiveExists, ScenesAreOrdered, SceneIsSavedGeometry, Focus

\* A step that only raises a window of the active scene.
LEMMA RaisePreserves ==
  ASSUME IInv, NEW w \in Window, WindowFocused(w) \/ Raise(w)
  PROVE  IInv'
<1> DEFINE t == RaiseWindow(scene[active], w)
<1>1. active \in Workspace
  BY DEF IInv, TypeOK
<1>2. t \in SceneState /\ PaintOrder(t) /\ t.rects = scene[active].rects
  BY <1>1, SceneFacts, RaiseWindowPreserves
<1>3. scene' = [scene EXCEPT ![active] = t]
  BY DEF WindowFocused, Raise
<1>4. \A ws \in Workspace :
        /\ scene'[ws] \in SceneState
        /\ PaintOrder(scene'[ws])
        /\ scene'[ws].rects = scene[ws].rects
  <2> HIDE DEF t
  <2> QED
    BY <1>1, <1>2, <1>3, SceneFacts DEF IInv, TypeOK
<1>5. \A ws \in Workspace : Placed(scene'[ws]) = Placed(scene[ws])
  BY <1>4 DEF Placed
<1>6. TypeOK'
  <2>1. scene' \in [Workspace -> SceneState]
    <3> HIDE DEF t
    <3> QED
      BY <1>1, <1>2, <1>3 DEF IInv, TypeOK
  <2> QED
    BY <2>1 DEF IInv, TypeOK, WindowFocused, Raise
<1>7. ScenesAreOrdered'
  BY <1>4 DEF ScenesAreOrdered
<1>8. OnlyMappedWindows'
  BY <1>5 DEF IInv, TypeOK, OnlyMappedWindows, WindowFocused, Raise
<1>9. SceneIsSavedGeometry' /\ ActiveExists'
  BY <1>4 DEF IInv, SceneIsSavedGeometry, ActiveExists, WindowFocused, Raise
<1> QED
  BY <1>6, <1>7, <1>8, <1>9 DEF IInv

\* Unmapping removes the window from everything that remembers it.
LEMMA UnmapPreserves ==
  ASSUME IInv, NEW w \in Window, WindowUnmapped(w)
  PROVE  IInv'
<1>1. \A ws \in Workspace :
        /\ scene'[ws] \in SceneState
        /\ PaintOrder(scene'[ws])
        /\ scene'[ws].rects = [scene[ws].rects EXCEPT ![w] = NoRect]
  BY SceneFacts, RemoveWindowPreserves DEF WindowUnmapped
<1>2. \A ws \in Workspace, l \in Layout :
        /\ geometry[ws][l] \in [Window -> Rect \cup {NoRect}]
        /\ geometry'[ws][l] = [geometry[ws][l] EXCEPT ![w] = NoRect]
  BY DEF WindowUnmapped, IInv, TypeOK, Saved
<1>3. TypeOK'
  <2>1. scene' \in [Workspace -> SceneState]
    BY <1>1 DEF WindowUnmapped
  <2>2. geometry' \in [Workspace -> Saved]
    BY DEF WindowUnmapped, IInv, TypeOK, Saved
  <2>3. focused' \in [Workspace -> Window \cup {NoWindow}]
    BY DEF WindowUnmapped, IInv, TypeOK
  <2> QED
    BY <2>1, <2>2, <2>3 DEF WindowUnmapped, IInv, TypeOK
<1>4. ScenesAreOrdered'
  BY <1>1 DEF ScenesAreOrdered
<1>5. OnlyMappedWindows'
  <2> SUFFICES ASSUME NEW ws \in Workspace
               PROVE  /\ Placed(scene'[ws]) \subseteq windows'
                      /\ focused'[ws] # NoWindow => focused'[ws] \in windows'
                      /\ \A l \in Layout, v \in Window :
                           geometry'[ws][l][v] # NoRect => v \in windows'
    BY DEF OnlyMappedWindows
  <2>1. Placed(scene'[ws]) = Placed(scene[ws]) \ {w}
    BY <1>1, SceneFacts DEF Placed, SceneState
  <2>2. ASSUME NEW l \in Layout, NEW v \in Window, geometry'[ws][l][v] # NoRect
        PROVE  geometry[ws][l][v] # NoRect /\ v # w
    <3> DEFINE g == geometry[ws][l]
    <3>1. g \in [Window -> Rect \cup {NoRect}] /\ geometry'[ws][l] = [g EXCEPT ![w] = NoRect]
      BY <1>2
    <3> HIDE DEF g
    <3>2. geometry'[ws][l][v] = IF v = w THEN NoRect ELSE g[v]
      BY <3>1
    <3> QED
      BY <2>2, <3>2 DEF g
  <2> QED
    BY <2>1, <2>2 DEF WindowUnmapped, IInv, OnlyMappedWindows
<1>6. SceneIsSavedGeometry'
  <2> SUFFICES ASSUME NEW ws \in Workspace
               PROVE  scene'[ws].rects = geometry'[ws][layout'[ws]]
    BY DEF SceneIsSavedGeometry
  <2>1. layout'[ws] = layout[ws] /\ layout[ws] \in Layout
    BY DEF WindowUnmapped, IInv, TypeOK
  <2>2. scene[ws].rects = geometry[ws][layout[ws]]
    BY DEF IInv, SceneIsSavedGeometry
  <2>3. geometry'[ws][layout[ws]] = [geometry[ws][layout[ws]] EXCEPT ![w] = NoRect]
    BY <1>2, <2>1
  <2> QED
    BY <1>1, <2>1, <2>2, <2>3
<1>7. ActiveExists'
  BY DEF WindowUnmapped, IInv, ActiveExists
<1> QED
  BY <1>3, <1>4, <1>5, <1>6, <1>7 DEF IInv

\* A step that rebuilds the active workspace's scene and saved geometry, and
\* nothing of the other workspaces, keeps the invariant if it gets the active
\* workspace right.
LEMMA ActiveWorkspaceStep ==
  ASSUME IInv, NEW t \in SceneState, PaintOrder(t), Placed(t) \subseteq windows,
         NEW l \in Layout, NEW g \in Saved, t.rects = g[l],
         \A m \in Layout, w \in Window : g[m][w] # NoRect => w \in windows,
         scene' = [scene EXCEPT ![active] = t],
         layout' = [layout EXCEPT ![active] = l],
         geometry' = [geometry EXCEPT ![active] = g],
         UNCHANGED <<windows, workspaces, active, focused>>
  PROVE  IInv'
<1>1. active \in Workspace
  BY DEF IInv, TypeOK
<1>2. \A ws \in Workspace :
        /\ scene'[ws] = IF ws = active THEN t ELSE scene[ws]
        /\ layout'[ws] = IF ws = active THEN l ELSE layout[ws]
        /\ geometry'[ws] = IF ws = active THEN g ELSE geometry[ws]
  BY DEF IInv, TypeOK
<1>3. TypeOK'
  BY DEF IInv, TypeOK
<1>4. ScenesAreOrdered'
  BY <1>2 DEF IInv, ScenesAreOrdered
<1>5. OnlyMappedWindows'
  <2> SUFFICES ASSUME NEW ws \in Workspace
               PROVE  /\ Placed(scene'[ws]) \subseteq windows
                      /\ focused[ws] # NoWindow => focused[ws] \in windows
                      /\ \A m \in Layout, w \in Window :
                           geometry'[ws][m][w] # NoRect => w \in windows
    BY DEF OnlyMappedWindows
  <2>1. CASE ws = active
    BY <1>2, <2>1 DEF IInv, OnlyMappedWindows
  <2>2. CASE ws # active
    BY <1>2, <2>2 DEF IInv, OnlyMappedWindows
  <2> QED
    BY <2>1, <2>2
<1>6. SceneIsSavedGeometry'
  BY <1>2 DEF IInv, SceneIsSavedGeometry
<1>7. ActiveExists'
  BY DEF IInv, ActiveExists
<1> QED
  BY <1>3, <1>4, <1>5, <1>6, <1>7 DEF IInv

\* Manual placement updates the scene and the saved geometry alike.
LEMMA SetGeometryPreserves ==
  ASSUME IInv, NEW w \in Window, NEW r \in Rect, SetGeometry(w, r)
  PROVE  IInv'
<1> DEFINE t == SetWindow(scene[active], w, r)
           l == layout[active]
           g == [geometry[active] EXCEPT ![l][w] = r]
<1>1. active \in Workspace /\ l \in Layout /\ geometry[active] \in Saved
      /\ layout \in [Workspace -> Layout] /\ geometry \in [Workspace -> Saved]
  BY DEF IInv, TypeOK
<1>2. scene[active].rects = geometry[active][l]
  BY <1>1 DEF IInv, SceneIsSavedGeometry
<1>3. t \in SceneState /\ PaintOrder(t) /\ Placed(t) = Placed(scene[active]) \cup {w}
  BY <1>1, SceneFacts, SetWindowPreserves
<1>4. Placed(t) \subseteq windows
  BY <1>1, <1>3, SceneFacts DEF SetGeometry
<1>5. g \in Saved /\ g[l] = [geometry[active][l] EXCEPT ![w] = r]
  BY <1>1 DEF Saved
<1>6. t.rects = g[l]
  BY <1>2, <1>5 DEF SetWindow
<1>7. \A m \in Layout, v \in Window : g[m][v] # NoRect => v \in windows
  <2> SUFFICES ASSUME NEW m \in Layout, NEW v \in Window, g[m][v] # NoRect
               PROVE  v \in windows
    OBVIOUS
  <2>1. CASE m = l /\ v = w
    BY <2>1 DEF SetGeometry
  <2>2. CASE ~(m = l /\ v = w)
    <3>1. g[m][v] = geometry[active][m][v]
      BY <1>1, <2>2 DEF Saved
    <3> QED
      BY <1>1, <3>1 DEF IInv, OnlyMappedWindows
  <2> QED
    BY <2>1, <2>2
<1>8. /\ scene' = [scene EXCEPT ![active] = t]
      /\ layout' = [layout EXCEPT ![active] = l]
      /\ geometry' = [geometry EXCEPT ![active] = g]
      /\ UNCHANGED <<windows, workspaces, active, focused>>
  BY <1>1 DEF SetGeometry
<1> HIDE DEF t, l, g
<1> QED
  BY <1>1, <1>3, <1>4, <1>5, <1>6, <1>7, <1>8, ActiveWorkspaceStep

\* Committing a full placement of the mapped windows keeps the invariant.
LEMMA CommitPreserves ==
  ASSUME IInv, NEW l \in Layout, NEW rects \in [windows -> Rect],
         NEW order \in OrdersOf(windows), CommitLayout(l, rects, order)
  PROVE  IInv'
<1> DEFINE o == Overlay(scene[active], rects)
           t == SetOrder(o, order)
           new == [w \in Window |-> IF w \in windows THEN rects[w] ELSE NoRect]
           g == [geometry[active] EXCEPT ![l] = new]
<1>1. active \in Workspace /\ geometry[active] \in Saved /\ windows \subseteq Window
      /\ geometry \in [Workspace -> Saved]
  BY DEF IInv, TypeOK
<1>2. o \in SceneState /\ PaintOrder(o) /\ Placed(o) = windows /\ o.rects = new
  BY <1>1, SceneFacts, OverlayIsOrdered
<1>3. order \in Seq(Window)
  BY <1>1, SceneFacts, OverlayAcceptsOrder
<1>4. t \in SceneState /\ PaintOrder(t) /\ t.rects = new
  BY <1>2, <1>3, SetOrderPreserves, ConstantFacts
<1>5. Placed(t) \subseteq windows
  BY <1>2, <1>4 DEF Placed
<1>6. new \in [Window -> Rect \cup {NoRect}]
  OBVIOUS
<1>7. g \in Saved /\ g[l] = new /\ \A m \in Layout \ {l} : g[m] = geometry[active][m]
  <2> HIDE DEF new
  <2> QED
    BY <1>1, <1>6 DEF Saved
<1>8. \A m \in Layout, w \in Window : g[m][w] # NoRect => w \in windows
  BY <1>1, <1>7 DEF IInv, OnlyMappedWindows
<1>9. /\ scene' = [scene EXCEPT ![active] = t]
      /\ layout' = [layout EXCEPT ![active] = l]
      /\ geometry' = [geometry EXCEPT ![active] = g]
      /\ UNCHANGED <<windows, workspaces, active, focused>>
  BY <1>1 DEF CommitLayout
<1> HIDE DEF o, t, new, g
<1> QED
  BY <1>1, <1>4, <1>5, <1>7, <1>8, <1>9, ActiveWorkspaceStep

\* Both kinds of layout run commit such a placement.
LEMMA RunPreserves ==
  ASSUME IInv, NEW l \in Layout, RunProvider(l) \/ RunRecovery(l)
  PROVE  IInv'
<1>1. windows \subseteq Window /\ active \in Workspace /\ geometry[active] \in Saved
  BY DEF IInv, TypeOK
<1>2. CASE RunProvider(l)
  BY <1>2, CommitPreserves DEF RunProvider
<1>3. CASE RunRecovery(l)
  <2>1. PICK cascade \in [windows -> Rect] :
          CommitLayout(l, [w \in windows |-> IF geometry[active][l][w] # NoRect
                                             THEN geometry[active][l][w]
                                             ELSE cascade[w]], IdOrderOf(windows))
    BY <1>3 DEF RunRecovery
  <2>2. [w \in windows |-> IF geometry[active][l][w] # NoRect
                           THEN geometry[active][l][w] ELSE cascade[w]] \in [windows -> Rect]
    BY <1>1 DEF Saved
  <2>3. IdOrderOf(windows) \in OrdersOf(windows)
    BY <1>1, IdOrderListsAll
  <2> QED
    BY <2>1, <2>2, <2>3, CommitPreserves
<1> QED
  BY <1>2, <1>3

\* A restored session is filtered by the mapped windows.
LEMMA RestorePreserves ==
  ASSUME IInv, NEW l \in Layout, NEW saved \in SavedGeometry, Restore(l, saved)
  PROVE  IInv'
<1> DEFINE g == [m \in Layout |->
                   [w \in Window |-> IF w \in windows THEN saved[m][w] ELSE NoRect]]
           t == [rects |-> g[l], order |-> IdOrderOf({w \in Window : g[l][w] # NoRect})]
<1>1. saved \in Saved
  BY ConstantFacts
<1>2. g \in Saved
  BY <1>1 DEF Saved
<1>3. \A m \in Layout, w \in Window : g[m][w] # NoRect => w \in windows
  OBVIOUS
<1>4. g[l] \in [Window -> Rect \cup {NoRect}]
  BY <1>2 DEF Saved
<1>5. /\ scene' = [scene EXCEPT ![active] = t]
      /\ layout' = [layout EXCEPT ![active] = l]
      /\ geometry' = [geometry EXCEPT ![active] = g]
      /\ UNCHANGED <<windows, workspaces, active, focused>>
  BY DEF Restore
<1> HIDE DEF g
<1>6. t \in SceneState /\ PaintOrder(t) /\ t.rects = g[l]
  BY <1>4, RebuiltSceneIsOrdered
<1>7. Placed(t) \subseteq windows
  BY <1>3, <1>6 DEF Placed
<1> HIDE DEF t
<1> QED
  BY <1>2, <1>3, <1>5, <1>6, <1>7, ActiveWorkspaceStep
-----------------------------------------------------------------------------
\* The invariant is inductive.
LEMMA StepPreserves == IInv /\ [Next]_vars => IInv'
<1> SUFFICES ASSUME IInv, [Next]_vars PROVE IInv'
  OBVIOUS
<1>1. CASE UNCHANGED vars
  BY <1>1 DEF IInv, TypeOK, ActiveExists, ScenesAreOrdered, OnlyMappedWindows,
              SceneIsSavedGeometry, vars
<1>2. CASE Next
  BY <1>2, WorkspaceStepsPreserve, MapPreserves, FocusPreserves, RaisePreserves,
     UnmapPreserves, SetGeometryPreserves, RunPreserves, RestorePreserves DEF Next
<1> QED
  BY <1>1, <1>2

\* The inductive invariant holds in every reachable state of the coordinator.
THEOREM Invariance == Spec => []IInv
BY InitEstablishes, StepPreserves, PTL DEF Spec

\* Every variable keeps its type, whatever the backend and the layouts do.
THEOREM TypeCorrect == Spec => []TypeOK
<1>1. IInv => TypeOK
  BY DEF IInv
<1> QED
  BY <1>1, Invariance, PTL

\* ordered_windows() never panics and no window is painted twice or lost, in
\* any workspace.
THEOREM ScenesStayOrdered == Spec => []ScenesAreOrdered
<1>1. IInv => ScenesAreOrdered
  BY DEF IInv
<1> QED
  BY <1>1, Invariance, PTL

\* An unmapped window survives nowhere: no scene, no saved geometry, no focus.
THEOREM UnmappedWindowsAreForgotten == Spec => []OnlyMappedWindows
<1>1. IInv => OnlyMappedWindows
  BY DEF IInv
<1> QED
  BY <1>1, Invariance, PTL

\* What is painted is what would be saved: active_layout_state() captures the
\* rectangles of the scene exactly.
THEOREM SavedGeometryIsScene == Spec => []SceneIsSavedGeometry
<1>1. IInv => SceneIsSavedGeometry
  BY DEF IInv
<1> QED
  BY <1>1, Invariance, PTL

\* The `let _ = set_order(..)` of apply_layout and interact_layout never hides
\* a refusal.
THEOREM ProviderOrderNeverRefused == Spec => []ProviderOrderIsAccepted
<1>1. IInv => ProviderOrderIsAccepted
  <2> SUFFICES ASSUME IInv, NEW ws \in Workspace, NEW rects \in [windows -> Rect]
               PROVE  /\ Placed(Overlay(scene[ws], rects)) = windows
                      /\ \A order \in OrdersOf(windows) :
                           AcceptsOrder(Overlay(scene[ws], rects), order)
    BY DEF ProviderOrderIsAccepted
  <2>1. windows \subseteq Window
    BY DEF IInv, TypeOK
  <2> QED
    BY <2>1, SceneFacts, OverlayIsOrdered, OverlayAcceptsOrder
<1> QED
  BY <1>1, Invariance, PTL

\* Forgetting a window moves no other in a scene, and no other above or below
\* another.
LEMMA UnmapKeepsOthers ==
  ASSUME IInv, NEW w \in Window, WindowUnmapped(w), NEW ws \in Workspace
  PROVE  /\ Placed(scene'[ws]) = Placed(scene[ws]) \ {w}
         /\ \A v \in windows' : scene'[ws].rects[v] = scene[ws].rects[v]
         /\ \A u, v \in windows' : Above(scene'[ws], u, v) <=> Above(scene[ws], u, v)
<1> DEFINE s == scene[ws]
<1>1. /\ s \in SceneState /\ PaintOrder(s)
      /\ scene'[ws] = RemoveWindow(s, w)
      /\ windows' \subseteq Window \ {w}
  BY SceneFacts DEF WindowUnmapped, IInv, TypeOK
<1> HIDE DEF s
<1>2. RemoveWindow(s, w).rects = [s.rects EXCEPT ![w] = NoRect]
  BY <1>1, RemoveWindowPreserves
<1>3. Placed(scene'[ws]) = Placed(s) \ {w}
  BY <1>1, <1>2 DEF Placed, SceneState
<1>4. \A v \in windows' : scene'[ws].rects[v] = s.rects[v]
  BY <1>1, <1>2 DEF SceneState
<1>5. ASSUME NEW u \in windows', NEW v \in windows'
      PROVE  Above(scene'[ws], u, v) <=> Above(s, u, v)
  <2>1. CASE w \in Placed(s)
    <3>1. Listed(s.order, w)
      BY <1>1, <2>1 DEF PaintOrder, OrderIsComplete
    <3>2. RemoveWindow(s, w).order = Without(s.order, w)
      BY <2>1, <3>1 DEF RemoveWindow
    <3> QED
      BY <1>1, <3>1, <3>2, WithoutKeepsOrder
  <2>2. CASE w \notin Placed(s)
    BY <1>1, <2>2 DEF RemoveWindow
  <2> QED
    BY <2>1, <2>2
<1> QED
  BY <1>3, <1>4, <1>5 DEF s

\* No operation reaches into an inactive workspace, except to drop a window
\* that has been unmapped: layout, focus, places and paint order stay.
THEOREM WorkspacesAreIsolated == Spec => InactiveWorkspacesAreLeftAlone
<1> DEFINE Alone ==
      \A ws \in Workspace \ {active} :
        /\ layout'[ws] = layout[ws]
        /\ focused'[ws] = IF focused[ws] \in windows \ windows' THEN NoWindow ELSE focused[ws]
        /\ Placed(scene'[ws]) = Placed(scene[ws]) \ (windows \ windows')
        /\ \A v \in windows' :
             /\ scene'[ws].rects[v] = scene[ws].rects[v]
             /\ \A w \in windows' : Above(scene'[ws], v, w) <=> Above(scene[ws], v, w)
             /\ \A l \in Layout : geometry'[ws][l][v] = geometry[ws][l][v]
<1>1. ASSUME IInv, Next, NEW ws \in Workspace, ws # active
      PROVE  /\ layout'[ws] = layout[ws]
             /\ focused'[ws] = IF focused[ws] \in windows \ windows' THEN NoWindow ELSE focused[ws]
             /\ Placed(scene'[ws]) = Placed(scene[ws]) \ (windows \ windows')
             /\ \A v \in windows' :
                  /\ scene'[ws].rects[v] = scene[ws].rects[v]
                  /\ \A w \in windows' : Above(scene'[ws], v, w) <=> Above(scene[ws], v, w)
                  /\ \A l \in Layout : geometry'[ws][l][v] = geometry[ws][l][v]
  <2>1. /\ scene \in [Workspace -> SceneState]
        /\ layout \in [Workspace -> Layout]
        /\ focused \in [Workspace -> Window \cup {NoWindow}]
        /\ geometry \in [Workspace -> Saved]
        /\ windows \subseteq Window
    BY <1>1 DEF IInv, TypeOK
  <2>2. CASE \E v \in Window : WindowUnmapped(v)
    <3>1. PICK gone \in Window : WindowUnmapped(gone)
      BY <2>2
    <3>2. windows \ windows' = {gone} /\ windows' = windows \ {gone}
      BY <3>1 DEF WindowUnmapped
    <3>3. layout'[ws] = layout[ws]
      BY <3>1 DEF WindowUnmapped
    <3>4. focused'[ws] = IF focused[ws] = gone THEN NoWindow ELSE focused[ws]
      BY <1>1, <3>1 DEF WindowUnmapped
    <3>5. \A v \in windows', l \in Layout : geometry'[ws][l][v] = geometry[ws][l][v]
      BY <1>1, <2>1, <3>1, <3>2 DEF WindowUnmapped, Saved
    <3> QED
      BY <1>1, <3>1, <3>2, <3>3, <3>4, <3>5, UnmapKeepsOthers
  <2>3. CASE ~(\E v \in Window : WindowUnmapped(v))
    <3>1. ASSUME NEW l \in Layout, RunProvider(l) \/ RunRecovery(l)
          PROVE  UNCHANGED <<layout[ws], focused, geometry[ws], scene[ws], windows>>
      BY <1>1, <2>1, <3>1 DEF RunProvider, RunRecovery, CommitLayout
    <3>2. UNCHANGED <<layout[ws], focused[ws], geometry[ws], scene[ws]>>
      BY <1>1, <2>1, <2>3, <3>1
      DEF Next, CreateWorkspace, SwitchWorkspace, WindowMapped, WindowFocused,
          SetGeometry, Focus, Raise, Restore
    <3>3. windows \subseteq windows'
      BY <1>1, <2>3, <3>1
      DEF Next, CreateWorkspace, SwitchWorkspace, WindowMapped, WindowFocused,
          SetGeometry, Focus, Raise, Restore
    <3> QED
      BY <3>2, <3>3
  <2> QED
    BY <2>2, <2>3
<1>2. IInv /\ [Next]_vars => [Alone]_vars
  BY <1>1
<1> QED
  BY <1>2, Invariance, PTL DEF Spec, InactiveWorkspacesAreLeftAlone
=============================================================================
