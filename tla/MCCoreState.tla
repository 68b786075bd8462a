---------------------------- MODULE MCCoreState ----------------------------
(* Two workspaces, two layouts, two windows and two rectangles.            *)
EXTENDS CoreState, TLC

\* Sessions saved with the same geometry under both layouts, for windows that
\* may or may not be mapped again.
MCSavedGeometry ==
  {[l \in Layout |-> g] : g \in [Window -> Rect \cup {NoRect}]}

Symmetry == Permutations(Rect)
=============================================================================
