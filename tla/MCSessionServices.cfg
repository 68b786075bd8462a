SPECIFICATION FairSpec
CONSTANTS
  first = first
  Process = {first, second}
  second = second
  NoProcess = NoProcess
  LastDefault = 2
  Chord = {chord}
  Mode = {normal, spawning}
  InitialMode = normal
  Layout = {spatial, tiling}
  DefaultLayout = spatial
  Configured = {spatial}
  Workspace = workspace
  Camera = {home, away}
  InitialCamera = home
  Launch = {terminal}
  Window = {w1}
  Metadata = {browser, editor}
  Binding <- MCBinding
  Rules <- MCRules
  Hook <- MCHook
  HookLimit = 3
  Missing = Missing
  Invalid = Invalid
  Unbound = Unbound
  NoLaunch = NoLaunch
  NoMetadata = NoMetadata
  Client = {c1, c2}
  Patient = {c1}
  NoClient = NoClient
  MaxEvents = 2
  normal = normal
  spawning = spawning
  chord = chord
  spatial = spatial
  tiling = tiling
  terminal = terminal
  browser = browser
  editor = editor
  CONSTRAINT Scope
INVARIANTS
  TypeOK
  OneInstance
  SocketIsServed
  UncleanEndIsReported
  TornOnlyByDeath
  AnswersMatchExecution
  RulesSeeCurrentMetadata
PROPERTIES
  UserFilesAreKept
  FailedRequestsLeaveTheDesktop
  HooksRunWithinQuota
  RulesActOnNews
  PatientClientsAreAnswered
