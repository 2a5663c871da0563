CONSTANTS
  Dirs <- MCDirs
  Files <- MCFiles
  Msgs = {m1}
  MaxLogs = 3
  CtorPaths <- UserPaths
  NoSink = NoSink

SPECIFICATION Spec

PROPERTY FileLogsFollowPath
