--------------------------- MODULE MCNetReplication ---------------------------
(* Model-checking instances of NetReplication: a server that registers     *)
(* entities and a client that does not, as in homework5.md.                *)
EXTENDS NetReplication, TLC

CONSTANTS server, client

Hosts == {server, client}
Others == server :> client @@ client :> server
Values == 0 .. 1
Growing == [v \in Values |-> {w \in Values : w > v}]
Toggling == [v \in Values |-> Values \ {v}]
Updates == server :> 4 @@ client :> 3
FewUpdates == server :> 4 @@ client :> 2
=============================================================================
