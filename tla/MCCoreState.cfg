SPECIFICATION Spec
CONSTANTS
  Window = {1, 2}
  Rect = {r1, r2}
  NoRect = NoRect
  Workspace = {ws1, ws2}
  FirstWorkspace = ws1
  Layout = {default, other}
  DefaultLayout = default
  NoWindow = NoWindow
  SavedGeometry <- MCSavedGeometry
SYMMETRY Symmetry
INVARIANTS
  TypeOK
  ScenesAreOrdered
  OnlyMappedWindows
  SceneIsSavedGeometry
  ProviderOrderIsAccepted
PROPERTIES
  InactiveWorkspacesAreLeftAlone
