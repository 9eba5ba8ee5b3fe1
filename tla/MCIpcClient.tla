---------------------------- MODULE MCIpcClient -----------------------------
(* Values of the constants of IpcClient for model checking.                *)
EXTENDS IpcClient

(* As the program uses it, but for its destructor: connect() once, at construction. *)
NoCalls == {}
BothCalls == {"connect", "disconnect"}
=============================================================================
