---------------------------- MODULE SceneDamage ----------------------------
(***************************************************************************)
(* One `Scene` of crates/wm-scene/src/lib.rs with its generation counter   *)
(* and its DamageTracker, next to what a renderer last painted from it.    *)
(* A renderer drains take_damage() and repaints only what it returns, so a *)
(* place whose picture changed outside the returned bounds stays stale on  *)
(* screen until something else damages it.                                 *)
(***************************************************************************)
EXTENDS Scene, Integers, FiniteSets, FiniteSetsExt

CONSTANTS Points,         \* sampled world points
          MaxGeneration   \* bound on the number of scene changes

ASSUME DamageAssumption ==
  /\ Rect \subseteq [x : Int, y : Int, width : Nat \ {0}, height : Nat \ {0}]
  /\ Points \subseteq [x : Int, y : Int]
  /\ MaxGeneration \in Nat
  /\ IsFiniteSet(Window)

VARIABLES scene,        \* rectangles and paint order
          generation,   \* bumped by every change
          regions,      \* DamageTracker::regions, as a set
          painted       \* the scene the last take_damage() was drawn from

vars == <<scene, generation, regions, painted>>
-----------------------------------------------------------------------------
\* The half-open test of Scene::pick.
Contains(r, p) ==
  /\ p.x >= r.x
  /\ p.x < r.x + r.width
  /\ p.y >= r.y
  /\ p.y < r.y + r.height

Left(r) == r.x
Top(r) == r.y
Right(r) == r.x + r.width
Bottom(r) == r.y + r.height

\* DamageTracker::take: one bound for everything accumulated, or nothing.
Coalesced ==
  IF regions = {} THEN {}
  ELSE LET x0 == Min({Left(r) : r \in regions})
           y0 == Min({Top(r) : r \in regions})
       IN  {[x |-> x0, y |-> y0,
             width |-> Max({Right(r) : r \in regions}) - x0,
             height |-> Max({Bottom(r) : r \in regions}) - y0]}

Shown(s, p) == {w \in Placed(s) : Contains(s.rects[w], p)}

\* What a point shows: windows with their rectangles, and which of them is
\* above which.
Picture(s, p) ==
  [windows |-> {<<w, s.rects[w]>> : w \in Shown(s, p)},
   above |-> {pair \in Shown(s, p) \X Shown(s, p) : Above(s, pair[1], pair[2])}]
-----------------------------------------------------------------------------
Init ==
  /\ scene = EmptyScene
  /\ generation = 0
  /\ regions = {}
  /\ painted = EmptyScene

Changed(s, damage) ==
  /\ generation < MaxGeneration
  /\ scene' = s
  /\ generation' = generation + 1
  /\ regions' = regions \cup damage
  /\ UNCHANGED painted

\* Mutant: the old bounds are damaged even where there were none.
SetWindowDamagingNothing(w, r) ==
  Changed(SetWindow(scene, w, r), {scene.rects[w], r})

\* Scene::set_window: the old bounds, if any, and the new ones are damaged.
DoSetWindow(w, r) ==
  Changed(SetWindow(scene, w, r), ({scene.rects[w]} \ {NoRect}) \cup {r})

DoRemoveWindow(w) ==
  /\ w \in Placed(scene)
  /\ Changed(RemoveWindow(scene, w), {scene.rects[w]})

\* Mutant: a raise moves no bounds, so it damages nothing.
RaiseWithoutDamage(w) ==
  /\ CanRaise(scene, w) /\ ~AtFront(scene, w)
  /\ Changed(RaiseWindow(scene, w), {})

DoRaiseWindow(w) ==
  /\ CanRaise(scene, w) /\ ~AtFront(scene, w)
  /\ Changed(RaiseWindow(scene, w), {scene.rects[w]})

DoSetOrder(order) ==
  /\ AcceptsOrder(scene, order) /\ order # scene.order
  /\ Changed(SetOrder(scene, order), {scene.rects[w] : w \in Placed(scene)})

DoClear == Changed(EmptyScene, {scene.rects[w] : w \in Placed(scene)})

\* The renderer drains the damage and repaints from the current snapshot.
TakeDamage ==
  /\ regions' = {}
  /\ painted' = scene
  /\ UNCHANGED <<scene, generation>>

Orders == UNION {[1 .. n -> Window] : n \in 0 .. Cardinality(Window)}

Next ==
  \/ \E w \in Window, r \in Rect : DoSetWindow(w, r)
  \/ \E w \in Window : DoRemoveWindow(w)
  \/ \E w \in Window : DoRaiseWindow(w)
  \/ \E order \in Orders : DoSetOrder(order)
  \/ DoClear
  \/ TakeDamage

Spec == Init /\ [][Next]_vars
-----------------------------------------------------------------------------
TypeOK ==
  /\ scene \in SceneState
  /\ generation \in 0 .. MaxGeneration
  /\ regions \subseteq Rect
  /\ painted \in SceneState

\* The paint order lists every window of the scene exactly once, whatever
\* mixture of updates, removals, raises and provider orders came before.
SceneIsOrdered == PaintOrder(scene)

\* Repainting the one rectangle take_damage() would return now leaves no
\* point of the screen showing something other than the current scene.
DamageCoversChanges ==
  \A p \in Points :
    Picture(scene, p) # Picture(painted, p) => \E r \in Coalesced : Contains(r, p)
=============================================================================
