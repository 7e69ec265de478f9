--------------------------- MODULE MCProbeDaemon ---------------------------
(* TLC instances of ProbeDaemon; the constants are in the .cfg files       *)
EXTENDS ProbeDaemon
============================================================================
