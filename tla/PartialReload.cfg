SPECIFICATION Spec
CONSTANTS
  ConfigFile = config
  Layout = {spatial, tiling}
  Script <- MCScript
  Provider = {p1, p2, broken}
  ValidProvider = {p1, p2}
  Mode = {normal, resize}
  NormalMode = normal
  Chord = {c1, c2}
  NoMode = NoMode
  NoFile = NoFile
  NoProvider = NoProvider
  MaxEdits = 2
  spatial = spatial
  tiling = tiling
  normal = normal
  resize = resize
  c1 = c1
  c2 = c2
INVARIANT ConfigurationIsOneGeneration
