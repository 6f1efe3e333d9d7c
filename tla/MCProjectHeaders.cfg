CONSTANTS
  ios = ios
  mac = mac
  podA = podA
  podB = podB
  sources = sources
  build = build
  None = None
  Servers = {s1, s2}
  Workspaces = {ios, mac}
  Headers <- OneName
  SkippedDirs = {build}
  Marks <- OneMark
  Trees <- OneTree
  MaxEdits = 1
  MaxStarts = 3
  MaxMoves = 1
  MaxFailures = 1
SPECIFICATION Spec
CHECK_DEADLOCK FALSE
SYMMETRY Symmetric
INVARIANTS OwnPrefixHeader ImportsReachHeaders
