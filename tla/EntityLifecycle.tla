--------------------------- MODULE EntityLifecycle ---------------------------
(***************************************************************************)
(* What ecs.h promises of entities, slots left aside: every entity ever    *)
(* spawned is pending until the next ecs_update, lives, and once removed   *)
(* keeps its data until the next ecs_update, after which it is gone for    *)
(* good.  An entity is named by the sequence number in its reference.      *)
(***************************************************************************)
EXTENDS Naturals, FiniteSets

CONSTANTS MaxEntities,  \* how many entities can exist at once
          MaxAdds       \* bound: how many entities are ever spawned

Id == 1 .. MaxAdds

VARIABLE life  \* for each entity: where it stands

Existing == {"pending", "active", "doomed"}

Init == life = [id \in Id |-> "unborn"]

(* Entities are numbered in the order they are spawned. *)
Spawn(id) ==
  /\ life[id] = "unborn"
  /\ id > 1 => life[id - 1] # "unborn"
  /\ Cardinality({e \in Id : life[e] \in Existing}) < MaxEntities
  /\ life' = [life EXCEPT ![id] = "pending"]

Remove(id) ==
  /\ life[id] \in {"pending", "active"}
  /\ life' = [life EXCEPT ![id] = "doomed"]

Update ==
  life' = [id \in Id |-> CASE life[id] = "pending" -> "active"
                           [] life[id] = "doomed" -> "gone"
                           [] OTHER -> life[id]]

Next == Update \/ \E id \in Id : Spawn(id) \/ Remove(id)

Spec == Init /\ [][Next]_life
=============================================================================
