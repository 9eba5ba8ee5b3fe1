---------------------- MODULE MCPersistentMessageQueue ----------------------
(* Instances of PersistentMessageQueue for TLC.                            *)
EXTENDS PersistentQueueRefinement

(* What the upload client calls (AsioLoopbackIpcClient), and every public  *)
(* operation of the class.                                                 *)
ClientCalls == {}
EveryCall == {"dequeue", "load_from_disk", "flush_to_disk", "clear"}

TwoSizes == {1, 2}
=============================================================================
