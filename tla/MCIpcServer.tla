---------------------------- MODULE MCIpcServer ----------------------------
(* Values of constants for the runs of IpcServer.  Connections share only  *)
(* the checker, which treats each by itself: one shows them all.           *)
EXTENDS IpcServer

CONSTANT s1

MCBodySize == [k \in Kinds |-> IF k = "ping" THEN 1 ELSE 2]
MCMaxMessages == [s \in {s1} |-> 2]
=============================================================================
