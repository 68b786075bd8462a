--------------------------- MODULE MCSceneDamage ---------------------------
(* A 3x2 grid: two overlapping rectangles, one apart, one covering all.    *)
EXTENDS SceneDamage, TLC

MCRect ==
  {[x |-> 0, y |-> 0, width |-> 2, height |-> 1],
   [x |-> 1, y |-> 0, width |-> 1, height |-> 2],
   [x |-> 2, y |-> 1, width |-> 1, height |-> 1]}

Symmetry == Permutations(Window)

MCPoints == [x : 0 .. 2, y : 0 .. 1]
=============================================================================
