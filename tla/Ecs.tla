--------------------------------- MODULE Ecs ---------------------------------
(***************************************************************************)
(* ecs.c: a fixed table of entity slots.  A reference is a slot and the    *)
(* sequence number its occupant was given; slots are reused, references    *)
(* are weak.  Spawning and removing are deferred to the next ecs_update,   *)
(* so that a query in progress keeps walking a table that does not move.   *)
(***************************************************************************)
EXTENDS Integers, FiniteSets

CONSTANTS MaxEntities,        \* k_max_entities
          MaxComponentTypes,  \* k_max_component_types
          MaxAdds             \* bound: entities spawned over a run

ASSUME EntitiesAssumption == MaxEntities \in Nat \ {0}
ASSUME TypesAssumption == MaxComponentTypes \in Nat
ASSUME AddsAssumption == MaxAdds \in Nat

Slot == 0 .. MaxEntities - 1
ComponentType == 0 .. MaxComponentTypes - 1
Mask == SUBSET ComponentType   \* a uint64_t of bits in the code

VARIABLES global_sequence,  \* the next sequence number
          sequences,        \* per slot: number of its last occupant
          entity_states,    \* per slot
          component_masks,  \* per slot: component types of the last occupant
          registered,       \* how many component types have memory
          query,            \* the query being walked, or NoQuery
          expected,         \* history: slots that matched when the query began
          visited,          \* history: slots that query has stopped at
          refs,             \* history: references handed out
          access            \* slot and type whose memory the last call returned

table == <<global_sequence, sequences, entity_states, component_masks>>
walk == <<query, expected, visited>>
vars == <<table, registered, walk, refs, access>>

State == {"unused", "pending_add", "active", "pending_remove"}
Ref == [entity : Slot, sequence : 1 .. MaxAdds]
NoRef == [entity |-> -1, sequence |-> -1]
NoQuery == [component_mask |-> {}, entity |-> -1]
NoAccess == [entity |-> -1, component |-> -1]

Init == /\ global_sequence = 1
        /\ sequences = [i \in Slot |-> 0]
        /\ entity_states = [i \in Slot |-> "unused"]
        /\ component_masks = [i \in Slot |-> {}]
        /\ registered = 0
        /\ query = NoQuery
        /\ expected = {}
        /\ visited = {}
        /\ refs = {}
        /\ access = NoAccess

(* The tests "state >= k_entity_pending_add" and ">= k_entity_active". *)
AtLeastPendingAdd(i) == entity_states[i] # "unused"
AtLeastActive(i) == entity_states[i] \in {"active", "pending_remove"}

(* Faulty variant: a reference is judged by its slot alone. *)
IsValidBySlot(ref, allow_pending_add) ==
  /\ ref.entity >= 0
  /\ IF allow_pending_add THEN AtLeastPendingAdd(ref.entity) ELSE AtLeastActive(ref.entity)

(* ecs_is_entity_ref_valid *)
IsValid(ref, allow_pending_add) ==
  /\ ref.entity >= 0
  /\ sequences[ref.entity] = ref.sequence
  /\ IF allow_pending_add THEN AtLeastPendingAdd(ref.entity) ELSE AtLeastActive(ref.entity)

Querying == query.entity >= 0

-----------------------------------------------------------------------------
(* Faulty variants: pending removals are forgotten; removed entities revive. *)
UpdateAddsOnly ==
  /\ ~Querying
  /\ entity_states' = [i \in Slot |-> IF entity_states[i] = "pending_add" THEN "active"
                                      ELSE entity_states[i]]
  /\ access' = NoAccess
  /\ UNCHANGED <<global_sequence, sequences, component_masks, registered, walk, refs>>

UpdateRevives ==
  /\ ~Querying
  /\ entity_states' = [i \in Slot |-> IF AtLeastPendingAdd(i) THEN "active" ELSE "unused"]
  /\ access' = NoAccess
  /\ UNCHANGED <<global_sequence, sequences, component_masks, registered, walk, refs>>

(* The frame calls ecs_update between queries, never inside one. *)
Update ==
  /\ ~Querying
  /\ entity_states' = [i \in Slot |-> CASE entity_states[i] = "pending_add" -> "active"
                                        [] entity_states[i] = "pending_remove" -> "unused"
                                        [] OTHER -> entity_states[i]]
  /\ access' = NoAccess
  /\ UNCHANGED <<global_sequence, sequences, component_masks, registered, walk, refs>>

(* Faulty variant: global_sequence is not incremented. *)
AddSameSequence(i, mask) ==
  /\ entity_states[i] = "unused"
  /\ \A j \in 0 .. i - 1 : entity_states[j] # "unused"
  /\ entity_states' = [entity_states EXCEPT ![i] = "pending_add"]
  /\ sequences' = [sequences EXCEPT ![i] = global_sequence]
  /\ component_masks' = [component_masks EXCEPT ![i] = mask]
  /\ refs' = refs \cup {[entity |-> i, sequence |-> global_sequence]}
  /\ access' = NoAccess
  /\ UNCHANGED <<global_sequence, registered, walk>>

(* The first unused slot is taken; its components keep their old bytes. *)
Add(i, mask) ==
  /\ global_sequence <= MaxAdds
  /\ entity_states[i] = "unused"
  /\ \A j \in 0 .. i - 1 : entity_states[j] # "unused"
  /\ entity_states' = [entity_states EXCEPT ![i] = "pending_add"]
  /\ sequences' = [sequences EXCEPT ![i] = global_sequence]
  /\ global_sequence' = global_sequence + 1
  /\ component_masks' = [component_masks EXCEPT ![i] = mask]
  /\ refs' = refs \cup {[entity |-> i, sequence |-> global_sequence]}
  /\ access' = NoAccess
  /\ UNCHANGED <<registered, walk>>

(* No slot is unused: the caller gets the reference {-1, -1}. *)
AddFails ==
  /\ \A i \in Slot : entity_states[i] # "unused"
  /\ refs' = refs \cup {NoRef}
  /\ access' = NoAccess
  /\ UNCHANGED <<table, registered, walk>>

(* Faulty variant: removal takes effect at once. *)
RemoveAtOnce(ref, allow_pending_add) ==
  /\ entity_states' = IF IsValid(ref, allow_pending_add)
                        THEN [entity_states EXCEPT ![ref.entity] = "unused"]
                        ELSE entity_states
  /\ access' = NoAccess
  /\ UNCHANGED <<global_sequence, sequences, component_masks, registered, walk, refs>>

(* An invalid reference is reported and otherwise ignored. *)
Remove(ref, allow_pending_add) ==
  /\ entity_states' = IF IsValid(ref, allow_pending_add)
                        THEN [entity_states EXCEPT ![ref.entity] = "pending_remove"]
                        ELSE entity_states
  /\ access' = NoAccess
  /\ UNCHANGED <<global_sequence, sequences, component_masks, registered, walk, refs>>

(* Faulty variant: nothing stops at the last component type. *)
RegisterUnchecked ==
  /\ registered' = registered + 1
  /\ access' = NoAccess
  /\ UNCHANGED <<table, walk, refs>>

(* Returns -1, and no memory, when every type is taken. *)
RegisterComponentType ==
  /\ registered' = IF registered < MaxComponentTypes THEN registered + 1 ELSE registered
  /\ access' = NoAccess
  /\ UNCHANGED <<table, walk, refs>>

(* ecs_entity_get_component: the address, or NULL. *)
GetComponent(ref, component, allow_pending_add) ==
  /\ access' = IF IsValid(ref, allow_pending_add) /\ component < registered
                 THEN [entity |-> ref.entity, component |-> component]
                 ELSE NoAccess
  /\ UNCHANGED <<table, registered, walk, refs>>

-----------------------------------------------------------------------------
Matches(i, mask) == mask \subseteq component_masks[i] /\ AtLeastActive(i)
Matching(mask) == {i \in Slot : Matches(i, mask)}

(* ecs_query_next: the first match above "from", or -1 when there is none. *)
IsNextMatch(i, from, mask) ==
  LET later == {j \in Matching(mask) : j > from}
  IN  IF later = {} THEN i = -1 ELSE i \in later /\ \A j \in later : i <= j

(* The query moves to slot i, or ends: its reference is handed out. *)
StopAt(mask, i, before) ==
  /\ query' = [component_mask |-> mask, entity |-> i]
  /\ visited' = IF i >= 0 THEN before \cup {i} ELSE before
  /\ refs' = IF i >= 0 THEN refs \cup {[entity |-> i, sequence |-> sequences[i]]} ELSE refs
  /\ access' = NoAccess
  /\ UNCHANGED <<table, registered>>

QueryCreate(mask) ==
  /\ ~Querying
  /\ \E i \in Slot \cup {-1} : IsNextMatch(i, -1, mask) /\ StopAt(mask, i, {})
  /\ expected' = Matching(mask)

QueryNext ==
  LET mask == query.component_mask
  IN  /\ Querying
      /\ \E i \in Slot \cup {-1} : IsNextMatch(i, query.entity, mask) /\ StopAt(mask, i, visited)
      /\ UNCHANGED expected

(* ecs_query_get_component: no test at all, the query is known to be valid. *)
QueryGetComponent(component) ==
  /\ Querying
  /\ component < registered
  /\ access' = [entity |-> query.entity, component |-> component]
  /\ UNCHANGED <<table, registered, walk, refs>>

Next == \/ Update
        \/ \E i \in Slot, mask \in Mask : Add(i, mask)
        \/ AddFails
        \/ \E ref \in refs, allow \in BOOLEAN :
             \/ Remove(ref, allow)
             \/ \E component \in ComponentType : GetComponent(ref, component, allow)
        \/ RegisterComponentType
        \/ \E mask \in Mask : QueryCreate(mask)
        \/ QueryNext
        \/ \E component \in ComponentType : QueryGetComponent(component)

(* Every frame ends the queries it begins and calls ecs_update once. *)
Fairness == WF_vars(QueryNext) /\ SF_vars(Update)

Spec == Init /\ [][Next]_vars /\ Fairness

-----------------------------------------------------------------------------
TypeOK ==
  /\ global_sequence \in 1 .. MaxAdds + 1
  /\ sequences \in [Slot -> 0 .. MaxAdds]
  /\ entity_states \in [Slot -> State]
  /\ component_masks \in [Slot -> Mask]
  /\ registered \in 0 .. MaxComponentTypes
  /\ query \in [component_mask : Mask, entity : Slot \cup {-1}]
  /\ expected \in SUBSET Slot
  /\ visited \in SUBSET Slot
  /\ refs \in SUBSET (Ref \cup {NoRef})
  /\ access \in [entity : Slot \cup {-1}, component : ComponentType \cup {-1}]

(* A reference names one entity: no two references share a sequence number  *)
(* (so none ever denotes two slots), and the occupant of every slot in use  *)
(* has its reference out, so that it can still be removed.                  *)
RefsNameOccupants ==
  /\ \A r, s \in refs : r.sequence = s.sequence => r = s
  /\ \A i \in Slot : AtLeastPendingAdd(i) =>
       [entity |-> i, sequence |-> sequences[i]] \in refs

(* A weak reference that has become invalid stays invalid, whatever is      *)
(* spawned into its slot later.                                             *)
StaleRefStaysDead ==
  [][\A r \in refs : ~IsValid(r, TRUE) => ~IsValid(r, TRUE)']_vars

(* A query stops at every entity that matched when it began, although its   *)
(* body spawns and removes entities while it is walked, and only at slots   *)
(* that still match when it is over.                                        *)
QueryVisitsAll ==
  [][Querying /\ query'.entity = -1 =>
       expected \subseteq visited' /\ visited' \subseteq Matching(query.component_mask)]_vars

(* A removed entity really leaves: its slot becomes free again.             *)
RemovedSlotsComeBack ==
  \A i \in Slot : (entity_states[i] = "pending_remove") ~> (entity_states[i] = "unused")

(* Where the entity with sequence number id stands, seen through the table. *)
Standing == [unused |-> "gone", pending_add |-> "pending",
             active |-> "active", pending_remove |-> "doomed"]
Life(id) ==
  LET slots == {i \in Slot : sequences[i] = id}
  IN  CASE id >= global_sequence -> "unborn"
        [] id < global_sequence /\ slots = {} -> "gone"
        [] OTHER -> Standing[entity_states[CHOOSE i \in slots : TRUE]]

Lifecycle == INSTANCE EntityLifecycle WITH life <- [id \in 1 .. MaxAdds |-> Life(id)]

(* The slots implement entities that are never confused with one another    *)
(* and whose life only moves forward.                                       *)
ImplementsLifecycle == Lifecycle!Spec

(* ecs.h on ecs_entity_get_component: "NULL is returned if the entity is    *)
(* not valid or the component_type is not present on the entity".           *)
ComponentPresent ==
  access # NoAccess => access.component \in component_masks[access.entity]
=============================================================================
