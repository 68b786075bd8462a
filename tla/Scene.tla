------------------------------- MODULE Scene -------------------------------
(***************************************************************************)
(* One workspace's scene as crates/wm-scene/src/lib.rs keeps it: a map     *)
(* from windows to world rectangles and a back-to-front paint order.  The  *)
(* operators below are the methods of `Scene`, as functions from a scene   *)
(* to the scene the method leaves behind.  The module has no variables:    *)
(* SceneDamage animates one scene with its damage and generation, and      *)
(* CoreState holds one scene per workspace.                                *)
(*                                                                         *)
(* The rectangle map is total, NoRect standing for "not a key".            *)
(***************************************************************************)
EXTENDS Naturals, Sequences

CONSTANTS Window,   \* window identifiers
          Rect,     \* world rectangles
          NoRect    \* the rectangle of a window the scene does not hold

ASSUME NoRectAssumption == NoRect \notin Rect

SceneState == [rects : [Window -> Rect \cup {NoRect}], order : Seq(Window)]

EmptyScene == [rects |-> [w \in Window |-> NoRect], order |-> <<>>]

\* The keys of the rectangle map.
Placed(s) == {w \in Window : s.rects[w] # NoRect}

\* order.iter().position(|id| *id == window)
Position(order, w) == CHOOSE i \in DOMAIN order : order[i] = w

Listed(order, w) == \E i \in DOMAIN order : order[i] = w

\* Above(s, v, w): v is painted after w.
Above(s, v, w) ==
  \E i, j \in DOMAIN s.order : j < i /\ s.order[i] = v /\ s.order[j] = w

\* Vec::remove(position), and Vec::retain where the window occurs once.
Without(order, w) ==
  LET gap == Position(order, w)
  IN  [i \in 1 .. Len(order) - 1 |-> order[IF i < gap THEN i ELSE i + 1]]
-----------------------------------------------------------------------------
SetWindow(s, w, r) ==
  [rects |-> [s.rects EXCEPT ![w] = r],
   order |-> IF w \in Placed(s) THEN s.order ELSE Append(s.order, w)]

RemoveWindow(s, w) ==
  IF w \in Placed(s)
    THEN [rects |-> [s.rects EXCEPT ![w] = NoRect],
          order |-> IF Listed(s.order, w) THEN Without(s.order, w) ELSE s.order]
    ELSE s

\* raise_window answers false, and changes nothing, unless this holds.
CanRaise(s, w) == w \in Placed(s) /\ Listed(s.order, w)

AtFront(s, w) == Position(s.order, w) = Len(s.order)

\* Mutant: pushes the window to the front without taking it out first.
RaiseWithoutRemoval(s, w) ==
  IF CanRaise(s, w) /\ ~AtFront(s, w)
    THEN [s EXCEPT !.order = Append(s.order, w)]
    ELSE s

RaiseWindow(s, w) ==
  IF CanRaise(s, w) /\ ~AtFront(s, w)
    THEN [s EXCEPT !.order = Append(Without(s.order, w), w)]
    ELSE s

\* set_order answers false, and changes nothing, unless this holds.
AcceptsOrder(s, order) ==
  /\ Len(order) = Len(s.order)
  /\ \A i \in DOMAIN order : order[i] \in Placed(s)
  /\ \A i, j \in DOMAIN order : i < j => order[i] # order[j]

SetOrder(s, order) ==
  IF AcceptsOrder(s, order) THEN [s EXCEPT !.order = order] ELSE s
-----------------------------------------------------------------------------
(* The invariants `Scene` relies on.  ordered_windows() panics with "paint *)
(* order only contains mapped windows" when the first fails; pick() and    *)
(* snapshot() lose a window when the third fails.                          *)
OrderIsMapped(s) == \A i \in DOMAIN s.order : s.order[i] \in Placed(s)

OrderHasNoRepeats(s) ==
  \A i, j \in DOMAIN s.order : s.order[i] = s.order[j] => i = j

OrderIsComplete(s) == \A w \in Placed(s) : Listed(s.order, w)

PaintOrder(s) == OrderIsMapped(s) /\ OrderHasNoRepeats(s) /\ OrderIsComplete(s)
=============================================================================
