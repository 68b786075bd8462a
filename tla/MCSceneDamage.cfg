SPECIFICATION Spec
CONSTANTS
  Window = {w1, w2, w3}
  Rect <- MCRect
  NoRect = NoRect
  Points <- MCPoints
  MaxGeneration = 6
INVARIANTS
  TypeOK
  SceneIsOrdered
  DamageCoversChanges
SYMMETRY Symmetry
