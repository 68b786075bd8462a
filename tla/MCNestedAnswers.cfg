SPECIFICATION FairSpec
CONSTANTS
  Surface = {s1, s2}
  Key <- MCKey
  Window = {1, 2}
  Rect = {initial}
  NoRect = NoRect
  InitialRect = initial
  NoWindow = NoWindow
  NoSurface = NoSurface
  NoRequest = NoRequest
  TheWorkspace = workspace
  TheLayout = layout
  Responsive = {s1}
  MaxBehind = 2
  MaxEvents = 2
PROPERTIES
  AnsweringClientIsManaged
  ImplementsHandshake
