SPECIFICATION Spec
CONSTANTS
  Surface = {s1, s2}
  Key <- MCKey
  Window = {1, 2}
  Rect = {initial, other}
  NoRect = NoRect
  InitialRect = initial
  NoWindow = NoWindow
  NoSurface = NoSurface
  NoRequest = NoRequest
  TheWorkspace = workspace
  TheLayout = layout
  Responsive = {s1, s2}
  MaxBehind = 2
  MaxEvents = 3
SYMMETRY Symmetry
INVARIANTS
  TypeOK
  CoreFollowsToplevels
  FrameShowsLiveWindows
  KeyboardFollowsFocus
  PendingIsNewest
PROPERTY WindowIsStable
