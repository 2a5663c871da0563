------------------------------- MODULE Logger -------------------------------
(***************************************************************************)
(* detail/logger.hpp: one rank's logger.  It filters by level, writes to a *)
(* file, stdout or stderr, and opens its file sink lazily, on the first    *)
(* file log, after creating the parent directory.                          *)
(*                                                                         *)
(* The file system is abstracted to what decides whether opening works.    *)
(* A path is dir/leaf in a one-level tree under ".": leaf "" stands for a  *)
(* trailing separator ("./log/"), and a leaf in Dirs under "." names a     *)
(* directory ("./out").  `dirs` are the directories that exist and        *)
(* `files` the paths the logger has created as files.  Formatting and the  *)
(* spdlog level table are left out.                                       *)
(***************************************************************************)
EXTENDS Naturals, Sequences

CONSTANTS
  Dirs,       \* directory names directly under "."
  Files,      \* plain file names
  Msgs,       \* message payloads
  MaxLogs,    \* bound on the log calls
  CtorPaths,  \* the paths the constructor may be given (a subset of UserPaths)
  NoSink      \* model value: m_file_logger_ptr is empty

Cwd == "."
YgmLogs == "ygm_logs"

Levels == 0..5                      \* log_level: off, critical, error, warn, info, debug
MsgLevels == 1..5                   \* the levels a message is logged at (off is a threshold only)
Targets == {"file", "stdout", "stderr"}

\* The paths a user passes to the constructor or to set_path.
UserPaths ==
     {[dir |-> Cwd, leaf |-> d] : d \in Dirs}
  \cup {[dir |-> d, leaf |-> ""] : d \in Dirs}
  \cup {[dir |-> d, leaf |-> f] : d \in Dirs, f \in Files}

Paths == UserPaths \cup {[dir |-> d, leaf |-> YgmLogs] : d \in Dirs}

\* The target lists log(targets, level, ...) is given in the model.
TargetLists == {<<t>> : t \in Targets} \cup {<<"file", "stdout">>, <<"stdout", "file">>}

VARIABLES
  m_logger_target,
  m_log_level,
  m_path,
  m_file_logger_ptr,  \* NoSink or the path the sink was opened at
  dirs,               \* existing directories
  files,              \* paths created as files
  written,            \* history: [sink, at, msg] for every message a sink received
  thrown,             \* history: some log call ended in an exception
  logs                \* log calls so far

vars == <<m_logger_target, m_log_level, m_path, m_file_logger_ptr, dirs, files,
          written, thrown, logs>>

TypeOK ==
  /\ m_logger_target \in Targets
  /\ m_log_level \in Levels
  /\ m_path \in Paths
  /\ m_file_logger_ptr \in Paths \cup {NoSink}
  /\ dirs \subseteq Dirs
  /\ files \subseteq Paths
  /\ thrown \in BOOLEAN
  /\ logs \in 0..MaxLogs

\* std::filesystem::is_directory on the file system (ds, fs).
IsDirectory(p, ds) ==
  IF p.leaf = "" THEN p.dir = Cwd \/ p.dir \in ds
                 ELSE p.dir = Cwd /\ p.leaf \in ds

\* m_path += "/ygm_logs" on a path that names a directory.
AppendYgmLogs(p) ==
  IF p.leaf = "" THEN [dir |-> p.dir, leaf |-> YgmLogs] ELSE [dir |-> p.leaf, leaf |-> YgmLogs]

\* Names under "." that exist as plain files.
PlainFileNames(fs) == {p.leaf : p \in {q \in fs : q.dir = Cwd}}

\* The file target of log_impl (lines 144-155) on the state st of one log
\* call.  std::filesystem::create_directories(m_path.parent_path()) throws
\* when the parent exists as a plain file.  Opening the sink throws when
\* m_path is a directory.
FileLog(msg, st) ==
  IF st.ptr # NoSink
    THEN [st EXCEPT !.written = Append(@, [sink |-> "file", at |-> st.ptr, msg |-> msg])]
  ELSE IF m_path.dir \in PlainFileNames(st.files)
    THEN [st EXCEPT !.thrown = TRUE]
  ELSE LET ds == IF m_path.dir = Cwd THEN st.dirs ELSE st.dirs \cup {m_path.dir}
       IN IF IsDirectory(m_path, ds)
            THEN [st EXCEPT !.dirs = ds, !.thrown = TRUE]
            ELSE [st EXCEPT !.dirs = ds, !.files = @ \cup {m_path}, !.ptr = m_path,
                            !.written = Append(@, [sink |-> "file", at |-> m_path, msg |-> msg])]

\* log_impl (lines 137-166): the level filter, then the target's sink.
log_impl(t, level, msg, st) ==
  IF level > m_log_level THEN st
  ELSE IF t = "file" THEN FileLog(msg, st)
  ELSE [st EXCEPT !.written = Append(@, [sink |-> t, at |-> NoSink, msg |-> msg])]

\* The loop of log(targets, ...) (lines 117-119).  An exception leaves the
\* loop, so the later targets get nothing.
RECURSIVE LogAll(_, _, _, _)
LogAll(ts, level, msg, st) ==
  IF ts = <<>> \/ st.thrown THEN st
  ELSE LogAll(Tail(ts), level, msg, log_impl(Head(ts), level, msg, st))

\* Either overload of log: the one-level form passes <<m_logger_target>>.
log(targets, level, msg) ==
  LET st == LogAll(targets, level, msg,
                   [dirs |-> dirs, files |-> files, ptr |-> m_file_logger_ptr,
                    written |-> written, thrown |-> FALSE])
  IN /\ logs < MaxLogs
     /\ logs' = logs + 1
     /\ dirs' = st.dirs /\ files' = st.files /\ m_file_logger_ptr' = st.ptr
     /\ written' = st.written
     /\ thrown' = (thrown \/ st.thrown)
     /\ UNCHANGED <<m_logger_target, m_log_level, m_path>>

\* Mutant: set_path keeps the open sink.
SinkAfterSetPath_kept(ptr) == ptr

\* What set_path leaves in m_file_logger_ptr (lines 97-99).
SinkAfterSetPath(ptr) == NoSink

set_path(p) ==
  /\ m_path' = p
  /\ m_file_logger_ptr' = SinkAfterSetPath(m_file_logger_ptr)
  /\ UNCHANGED <<m_logger_target, m_log_level, dirs, files, written, thrown, logs>>

set_log_level(l) ==
  /\ m_log_level' = l
  /\ UNCHANGED <<m_logger_target, m_path, m_file_logger_ptr, dirs, files, written, thrown, logs>>

set_logger_target(t) ==
  /\ m_logger_target' = t
  /\ UNCHANGED <<m_log_level, m_path, m_file_logger_ptr, dirs, files, written, thrown, logs>>

\* The constructor (lines 66-91) with path p, in a working directory whose
\* directories are ds: a path naming an existing directory gets /ygm_logs.
Init ==
  /\ dirs \in SUBSET Dirs
  /\ \E p \in CtorPaths : m_path = IF IsDirectory(p, dirs) THEN AppendYgmLogs(p) ELSE p
  /\ m_logger_target = "file"
  /\ m_log_level = 0
  /\ m_file_logger_ptr = NoSink
  /\ files = {}
  /\ written = <<>>
  /\ thrown = FALSE
  /\ logs = 0

Next ==
  \/ \E ts \in TargetLists \cup {<<m_logger_target>>}, l \in MsgLevels, m \in Msgs : log(ts, l, m)
  \/ \E p \in UserPaths : set_path(p)
  \/ \E l \in Levels : set_log_level(l)
  \/ \E t \in Targets : set_logger_target(t)

Spec == Init /\ [][Next]_vars

-----------------------------------------------------------------------------
(* Properties.                                                             *)

\* Every message a file sink receives goes to the file m_path names when it
\* is logged: set_path must drop the sink opened for the old path, or the
\* next file log writes on into the old file.
FileLogsFollowPath ==
  [][\A k \in DOMAIN written' \ DOMAIN written :
       written'[k].sink = "file" => written'[k].at = m_path]_vars

\* No log call ends in an exception.  The default constructor points the
\* logger at ./log/, and its is_directory branch turns a directory into
\* <dir>/ygm_logs, so a file log is meant to land in a file there.
NoLogThrows == ~thrown

=============================================================================
