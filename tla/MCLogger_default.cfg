\* logger(rank), the default constructor, started in a directory without ./log.
CONSTANTS
  Dirs <- MCDirs
  Files <- MCFiles
  Msgs = {m1}
  MaxLogs = 2
  CtorPaths <- DefaultCtorPaths
  NoSink = NoSink

SPECIFICATION Spec

INVARIANT NoLogThrows
