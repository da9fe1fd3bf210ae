------------------------------- MODULE MCQueue -------------------------------
(* Model-checking instances of Queue: one pusher and one popper, as the    *)
(* render thread and the network threads use it, and several pushers, as   *)
(* the file system does.                                                   *)
EXTENDS Queue, TLC
=============================================================================
