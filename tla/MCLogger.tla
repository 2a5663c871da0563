------------------------------ MODULE MCLogger ------------------------------
(* Instantiation of Logger for TLC: two directories, one file name.         *)
EXTENDS Logger

MCDirs == {"log", "out"}
MCFiles == {"run"}

\* The default constructor logger(rank) passes "./log/".
DefaultPath == [dir |-> "log", leaf |-> ""]
DefaultCtorPaths == {DefaultPath}
=============================================================================
