------------------------------ MODULE EcsProofs ------------------------------
(***************************************************************************)
(* Proofs about the entity table of Ecs.tla, for every number of slots,    *)
(* component types and entities spawned, that the table implements the     *)
(* entities of EntityLifecycle.tla, and about the game that uses it.       *)
(***************************************************************************)
EXTENDS FroggerGame, FiniteSetTheorems, TLAPS

(* Slots are non-negative numbers, apart from the -1 of "no entity".       *)
LEMMA SlotFacts == ASSUME NEW i \in Slot PROVE i \in Int /\ i >= 0 /\ i # -1
  BY DEF Slot

(***************************************************************************)
(* The inductive invariant.  Sequence numbers are handed out once: those   *)
(* in the table and in references lie below global_sequence, a slot that   *)
(* is in use has a number (not the zero it was created with) that no other *)
(* slot has, and a reference that shares its number with a slot's occupant *)
(* points to that slot.                                                    *)
(***************************************************************************)
NumbersUsed ==
  /\ \A i \in Slot : sequences[i] < global_sequence
  /\ \A i \in Slot : AtLeastPendingAdd(i) => sequences[i] > 0
  /\ \A r \in refs : r.sequence < global_sequence

SlotsDistinct ==
  \A i, j \in Slot : sequences[i] = sequences[j] /\ sequences[i] > 0 => i = j

RefsFaithful ==
  \A r \in refs, i \in Slot : sequences[i] = r.sequence => r.entity = i

RefsDistinct == \A r, s \in refs : r.sequence = s.sequence => r = s

OccupantsReferenced ==
  \A i \in Slot : sequences[i] > 0 => [entity |-> i, sequence |-> sequences[i]] \in refs

IInv == /\ TypeOK /\ NumbersUsed /\ SlotsDistinct
        /\ RefsFaithful /\ RefsDistinct /\ OccupantsReferenced

LEMMA InitInv == Init => IInv
  BY EntitiesAssumption, TypesAssumption, AddsAssumption
  DEF Init, IInv, TypeOK, NumbersUsed, SlotsDistinct, RefsFaithful, RefsDistinct,
      OccupantsReferenced, AtLeastPendingAdd, Slot, State, Mask, NoQuery, NoAccess

-----------------------------------------------------------------------------
(* Type correctness, step by step.                                         *)

(* A query stops at occupied slots only.                                   *)
LEMMA MatchIsOccupied ==
  ASSUME TypeOK, \A i \in Slot : AtLeastPendingAdd(i) => sequences[i] > 0,
         NEW i \in Slot \cup {-1}, NEW from, NEW mask, IsNextMatch(i, from, mask)
  PROVE  i >= 0 => i \in Slot /\ sequences[i] \in 1 .. MaxAdds
<1>1. i = -1 \/ i \in Matching(mask)
  BY DEF IsNextMatch
<1>2. ASSUME i \in Matching(mask) PROVE i \in Slot /\ AtLeastPendingAdd(i)
  BY <1>2 DEF Matching, Matches, AtLeastActive, AtLeastPendingAdd
<1>3. ASSUME i \in Slot, AtLeastPendingAdd(i) PROVE sequences[i] \in 1 .. MaxAdds
  BY <1>3, AddsAssumption DEF TypeOK
<1>4. QED
  BY <1>1, <1>2, <1>3

LEMMA TypeStep == TypeOK /\ (\A i \in Slot : AtLeastPendingAdd(i) => sequences[i] > 0)
                    /\ [Next]_vars => TypeOK'
<1> SUFFICES ASSUME TypeOK, \A i \in Slot : AtLeastPendingAdd(i) => sequences[i] > 0,
                    [Next]_vars
             PROVE  TypeOK'
  OBVIOUS
<1> USE EntitiesAssumption, TypesAssumption, AddsAssumption
    DEF TypeOK, table, walk, NoAccess
<1>1. CASE Update
  BY <1>1 DEF Update, State
<1>2. ASSUME NEW i \in Slot, NEW mask \in Mask, Add(i, mask) PROVE TypeOK'
  BY <1>2 DEF Add, State, Ref
<1>3. CASE AddFails
  BY <1>3 DEF AddFails
<1>4. ASSUME NEW ref \in refs, NEW allow \in BOOLEAN, Remove(ref, allow) PROVE TypeOK'
  BY <1>4 DEF Remove, State
<1>5. ASSUME NEW ref \in refs, NEW allow \in BOOLEAN, NEW component \in ComponentType,
             GetComponent(ref, component, allow)
      PROVE  TypeOK'
  <2>1. IsValid(ref, allow) => ref.entity \in Slot
    BY DEF IsValid, Ref, NoRef
  <2>2. QED
    BY <1>5, <2>1 DEF GetComponent
<1>6. CASE RegisterComponentType
  BY <1>6 DEF RegisterComponentType
<1>7. ASSUME NEW mask \in Mask, QueryCreate(mask) PROVE TypeOK'
  <2>1. PICK i \in Slot \cup {-1} : IsNextMatch(i, -1, mask) /\ StopAt(mask, i, {})
    BY <1>7 DEF QueryCreate
  <2>2. i >= 0 => i \in Slot /\ sequences[i] \in 1 .. MaxAdds
    BY <2>1, MatchIsOccupied
  <2>3. expected' = Matching(mask) /\ Matching(mask) \subseteq Slot
    BY <1>7 DEF QueryCreate, Matching
  <2>4. QED
    BY <2>1, <2>2, <2>3 DEF StopAt, Ref
<1>8. CASE QueryNext
  <2>1. PICK i \in Slot \cup {-1} :
          /\ IsNextMatch(i, query.entity, query.component_mask)
          /\ StopAt(query.component_mask, i, visited)
    BY <1>8 DEF QueryNext
  <2>2. i >= 0 => i \in Slot /\ sequences[i] \in 1 .. MaxAdds
    BY <2>1, MatchIsOccupied
  <2>3. expected' = expected
    BY <1>8 DEF QueryNext
  <2>4. QED
    BY <2>1, <2>2, <2>3 DEF StopAt, Ref
<1>9. ASSUME NEW component \in ComponentType, QueryGetComponent(component) PROVE TypeOK'
  BY <1>9, SlotFacts DEF QueryGetComponent, Querying
<1>10. CASE UNCHANGED vars
  BY <1>10 DEF vars
<1>11. QED
  BY <1>1, <1>2, <1>3, <1>4, <1>5, <1>6, <1>7, <1>8, <1>9, <1>10 DEF Next

-----------------------------------------------------------------------------
(* Handing out the reference of an occupied slot, as a query does, adds    *)
(* nothing to the references: the occupant already has one.                *)
LEMMA StopKeepsInv ==
  ASSUME IInv, TypeOK', NEW i \in Slot \cup {-1}, NEW from, NEW mask, NEW before,
         IsNextMatch(i, from, mask), StopAt(mask, i, before)
  PROVE  IInv'
<1>1. i >= 0 => i \in Slot /\ sequences[i] > 0
  BY MatchIsOccupied, AddsAssumption DEF IInv, NumbersUsed
<1>2. refs' = refs
  BY <1>1, SlotFacts DEF StopAt, IInv, OccupantsReferenced
<1>3. UNCHANGED table
  BY DEF StopAt
<1>4. QED
  BY <1>2, <1>3 DEF table, IInv, NumbersUsed, SlotsDistinct, RefsFaithful, RefsDistinct,
                    OccupantsReferenced, AtLeastPendingAdd

LEMMA AddKeepsInv ==
  ASSUME IInv, TypeOK', NEW i \in Slot, NEW mask \in Mask, Add(i, mask)
  PROVE  IInv'
<1> DEFINE new == [entity |-> i, sequence |-> global_sequence]
<1>1. /\ sequences' = [sequences EXCEPT ![i] = global_sequence]
      /\ entity_states' = [entity_states EXCEPT ![i] = "pending_add"]
      /\ global_sequence' = global_sequence + 1
      /\ refs' = refs \cup {new}
  BY DEF Add
<1>2. /\ global_sequence \in Nat /\ global_sequence >= 1
      /\ sequences \in [Slot -> Nat] /\ entity_states \in [Slot -> State]
      /\ \A r \in refs : r.sequence \in Int
      /\ \A j \in Slot : sequences[j] < global_sequence
      /\ \A r \in refs : r.sequence < global_sequence
  BY AddsAssumption DEF IInv, TypeOK, NumbersUsed, Ref, NoRef
<1>3. NumbersUsed'
  BY <1>1, <1>2 DEF IInv, NumbersUsed, AtLeastPendingAdd
<1>4. SlotsDistinct'
  BY <1>1, <1>2 DEF IInv, SlotsDistinct
<1>5. RefsFaithful'
  BY <1>1, <1>2 DEF IInv, RefsFaithful
<1>6. RefsDistinct'
  BY <1>1, <1>2 DEF IInv, RefsDistinct
<1>7. OccupantsReferenced'
  BY <1>1, <1>2 DEF IInv, OccupantsReferenced
<1>8. QED
  BY <1>3, <1>4, <1>5, <1>6, <1>7 DEF IInv

(* Steps that move no number and hand out no reference.                    *)
LEMMA SameNumbersKeepInv ==
  ASSUME IInv, TypeOK', UNCHANGED <<global_sequence, sequences>>,
         refs' = refs \/ refs' = refs \cup {NoRef},
         \A i \in Slot : AtLeastPendingAdd(i)' => AtLeastPendingAdd(i)
  PROVE  IInv'
<1>1. \A r \in refs : r.sequence \in Int /\ (r = NoRef \/ r.sequence >= 1)
  BY AddsAssumption DEF IInv, TypeOK, Ref, NoRef
<1>2. /\ global_sequence \in Nat /\ global_sequence >= 1 /\ sequences \in [Slot -> Nat]
  BY AddsAssumption DEF IInv, TypeOK
<1>3. NumbersUsed' /\ SlotsDistinct' /\ OccupantsReferenced'
  BY <1>1, <1>2 DEF IInv, NumbersUsed, SlotsDistinct, OccupantsReferenced, NoRef
<1>4. RefsFaithful' /\ RefsDistinct'
  BY <1>1, <1>2 DEF IInv, RefsFaithful, RefsDistinct, NoRef
<1>5. QED
  BY <1>3, <1>4 DEF IInv

LEMMA InvStep == IInv /\ [Next]_vars => IInv'
<1> SUFFICES ASSUME IInv, [Next]_vars PROVE IInv'
  OBVIOUS
<1>0. TypeOK'
  BY TypeStep DEF IInv, NumbersUsed
<1>1. CASE Update
  <2>1. \A i \in Slot : AtLeastPendingAdd(i)' => AtLeastPendingAdd(i)
    BY <1>1 DEF Update, AtLeastPendingAdd, IInv, TypeOK
  <2>2. QED
    BY <1>0, <1>1, <2>1, SameNumbersKeepInv DEF Update
<1>2. ASSUME NEW i \in Slot, NEW mask \in Mask, Add(i, mask) PROVE IInv'
  BY <1>0, <1>2, AddKeepsInv
<1>3. CASE AddFails
  BY <1>0, <1>3, SameNumbersKeepInv DEF AddFails, table, AtLeastPendingAdd
<1>4. ASSUME NEW ref \in refs, NEW allow \in BOOLEAN, Remove(ref, allow) PROVE IInv'
  <2>1. \A i \in Slot : AtLeastPendingAdd(i)' => AtLeastPendingAdd(i)
    BY <1>4 DEF Remove, IsValid, AtLeastPendingAdd, AtLeastActive, IInv, TypeOK
  <2>2. QED
    BY <1>0, <1>4, <2>1, SameNumbersKeepInv DEF Remove
<1>5. ASSUME NEW mask \in Mask, QueryCreate(mask) PROVE IInv'
  <2>1. PICK i \in Slot \cup {-1} : IsNextMatch(i, -1, mask) /\ StopAt(mask, i, {})
    BY <1>5 DEF QueryCreate
  <2>2. QED
    BY <1>0, <2>1, StopKeepsInv
<1>6. CASE QueryNext
  <2>1. PICK i \in Slot \cup {-1} :
          /\ IsNextMatch(i, query.entity, query.component_mask)
          /\ StopAt(query.component_mask, i, visited)
    BY <1>6 DEF QueryNext
  <2>2. QED
    BY <1>0, <2>1, StopKeepsInv
<1>7. CASE UNCHANGED <<table, refs>>
  BY <1>0, <1>7, SameNumbersKeepInv DEF table, AtLeastPendingAdd
<1>8. QED
  BY <1>1, <1>2, <1>3, <1>4, <1>5, <1>6, <1>7
  DEF Next, GetComponent, QueryGetComponent, RegisterComponentType, vars

(* Type correctness: references, queries and slots stay within the table.  *)
THEOREM TypeCorrect == Spec => []TypeOK
<1>1. IInv => TypeOK
  BY DEF IInv
<1>2. QED
  BY <1>1, InitInv, InvStep, PTL DEF Spec

(* However many entities come and go, a reference names one entity and     *)
(* every entity in the table has its reference out.                        *)
THEOREM ReferencesNameOccupants == Spec => []RefsNameOccupants
<1>1. IInv => RefsNameOccupants
  BY DEF IInv, NumbersUsed, RefsDistinct, OccupantsReferenced, RefsNameOccupants
<1>2. QED
  BY <1>1, InitInv, InvStep, PTL DEF Spec

(* A stale reference never comes back to life, for every number of reuses  *)
(* of its slot.                                                            *)
THEOREM StaleStaysDead == Spec => StaleRefStaysDead
<1>1. ASSUME IInv, [Next]_vars, NEW r \in refs, ~IsValid(r, TRUE)
      PROVE  ~IsValid(r, TRUE)'
  <2>1. /\ r.sequence \in Int /\ r.sequence < global_sequence
        /\ r.entity >= 0 => r.entity \in Slot
        /\ sequences \in [Slot -> Nat] /\ entity_states \in [Slot -> State]
        /\ global_sequence \in Nat
    BY <1>1, AddsAssumption DEF IInv, NumbersUsed, TypeOK, Ref, NoRef
  <2>2. CASE Update
    BY <1>1, <2>1, <2>2 DEF Update, IsValid, AtLeastPendingAdd
  <2>3. ASSUME NEW i \in Slot, NEW mask \in Mask, Add(i, mask) PROVE ~IsValid(r, TRUE)'
    BY <1>1, <2>1, <2>3 DEF Add, IsValid, AtLeastPendingAdd
  <2>4. ASSUME NEW ref \in refs, NEW allow \in BOOLEAN, Remove(ref, allow)
        PROVE  ~IsValid(r, TRUE)'
    <3>1. \A i \in Slot : AtLeastPendingAdd(i)' => AtLeastPendingAdd(i)
      BY <1>1, <2>4 DEF Remove, IsValid, AtLeastPendingAdd, AtLeastActive, IInv, TypeOK
    <3>2. QED
      BY <1>1, <2>1, <2>4, <3>1 DEF Remove, IsValid
  <2>5. CASE UNCHANGED table
    BY <1>1, <2>5 DEF table, IsValid, AtLeastPendingAdd
  <2>6. QED
    BY <1>1, <2>2, <2>3, <2>4, <2>5
    DEF Next, AddFails, GetComponent, RegisterComponentType, QueryCreate, QueryNext,
        StopAt, QueryGetComponent, vars
<1>2. IInv /\ [Next]_vars => [\A r \in refs : ~IsValid(r, TRUE) => ~IsValid(r, TRUE)']_vars
  BY <1>1
<1>3. QED
  BY <1>2, InitInv, InvStep, PTL DEF Spec, StaleRefStaysDead
-----------------------------------------------------------------------------
(* A walk in progress has stopped at every expected slot up to the one it  *)
(* is at, and nowhere else than at slots that still match; no expected     *)
(* slot has stopped matching, because removal is deferred to ecs_update    *)
(* and a slot that is spawned into was no match.                           *)
WalkInv ==
  Querying =>
    /\ \A j \in expected : j <= query.entity => j \in visited
    /\ expected \subseteq Matching(query.component_mask)
    /\ visited \subseteq Matching(query.component_mask)

(* While a query is walked, nothing that matches ceases to.                *)
LEMMA MatchesStay ==
  ASSUME TypeOK, [Next]_vars, Querying, NEW mask
  PROVE  Matching(mask) \subseteq Matching(mask)'
<1> SUFFICES ASSUME NEW j \in Slot, Matches(j, mask) PROVE Matches(j, mask)'
  BY DEF Matching
<1>1. ASSUME NEW i \in Slot, NEW m \in Mask, Add(i, m) PROVE Matches(j, mask)'
  BY <1>1 DEF Add, Matches, AtLeastActive, TypeOK
<1>2. ASSUME NEW ref \in refs, NEW allow \in BOOLEAN, Remove(ref, allow)
      PROVE  Matches(j, mask)'
  BY <1>2 DEF Remove, Matches, AtLeastActive, TypeOK
<1>3. CASE UNCHANGED table
  BY <1>3 DEF table, Matches, AtLeastActive
<1>4. QED
  BY <1>1, <1>2, <1>3
  DEF Next, Update, AddFails, GetComponent, RegisterComponentType, QueryCreate, QueryNext,
      StopAt, QueryGetComponent, vars

(* A step of a query: whatever matched between where it was and where it   *)
(* stops is where it stops, and if it ends nothing is left.                *)
LEMMA NextMatchSkipsNothing ==
  ASSUME NEW i \in Slot \cup {-1}, NEW from \in Int, NEW mask, IsNextMatch(i, from, mask),
         NEW j \in Matching(mask), j > from
  PROVE  i \in Matching(mask) /\ i <= j
BY DEF IsNextMatch

LEMMA WalkStep == IInv /\ WalkInv /\ [Next]_vars => WalkInv'
<1> SUFFICES ASSUME IInv, WalkInv, [Next]_vars, Querying'
             PROVE  WalkInv'
  BY DEF WalkInv
<1>0. TypeOK /\ \A j \in Slot : j \in Int /\ j >= 0
  BY SlotFacts DEF IInv
<1>1. ASSUME NEW mask \in Mask, QueryCreate(mask) PROVE WalkInv'
  <2>1. PICK i \in Slot \cup {-1} : IsNextMatch(i, -1, mask) /\ StopAt(mask, i, {})
    BY <1>1 DEF QueryCreate
  <2>2. /\ query' = [component_mask |-> mask, entity |-> i] /\ i >= 0
        /\ visited' = {i} /\ expected' = Matching(mask) /\ UNCHANGED table
    BY <1>1, <2>1 DEF StopAt, QueryCreate, Querying
  <2>3. i \in Matching(mask) /\ Matching(mask)' = Matching(mask)
    BY <1>0, <2>1, <2>2 DEF IsNextMatch, table, Matching, Matches, AtLeastActive
  <2>4. \A j \in Matching(mask) : i <= j /\ j \in Int
    BY <1>0, <2>1, NextMatchSkipsNothing DEF Matching
  <2>5. \A j \in Matching(mask) : j <= i => j \in {i}
    BY <1>0, <2>2, <2>3, <2>4 DEF Matching
  <2>6. QED
    BY <2>2, <2>3, <2>5 DEF WalkInv
<1>2. CASE QueryNext
  <2> DEFINE mask == query.component_mask
  <2>1. PICK i \in Slot \cup {-1} :
          IsNextMatch(i, query.entity, mask) /\ StopAt(mask, i, visited)
    BY <1>2 DEF QueryNext
  <2>2. /\ query' = [component_mask |-> mask, entity |-> i] /\ i >= 0
        /\ visited' = visited \cup {i} /\ expected' = expected /\ UNCHANGED table
        /\ Querying /\ query.entity \in Int
    BY <1>0, <1>2, <2>1 DEF StopAt, QueryNext, Querying, TypeOK
  <2>3. i \in Matching(mask) /\ Matching(mask)' = Matching(mask)
    BY <1>0, <2>1, <2>2 DEF IsNextMatch, table, Matching, Matches, AtLeastActive
  <2>4. expected \subseteq Matching(mask) /\ Matching(mask) \subseteq Slot
    BY <2>2 DEF WalkInv, Matching
  <2>5. ASSUME NEW j \in expected, j <= i PROVE j \in visited \cup {i}
    <3>1. CASE j <= query.entity
      BY <2>2, <3>1 DEF WalkInv
    <3>2. CASE j > query.entity
      <4>1. i <= j
        BY <2>1, <2>2, <2>4, <3>2, NextMatchSkipsNothing
      <4>2. QED
        BY <1>0, <2>3, <2>4, <2>5, <4>1
    <3>3. QED
      BY <1>0, <2>2, <2>4, <3>1, <3>2
  <2>6. QED
    BY <2>2, <2>3, <2>4, <2>5 DEF WalkInv
<1>3. CASE UNCHANGED walk
  <2>1. Querying
    BY <1>3 DEF walk, Querying
  <2>2. Matching(query.component_mask) \subseteq Matching(query.component_mask)'
    BY <1>0, <1>3, <2>1, MatchesStay DEF walk
  <2>3. QED
    BY <1>3, <2>1, <2>2 DEF walk, WalkInv
<1>4. QED
  BY <1>1, <1>2, <1>3
  DEF Next, Update, Add, AddFails, Remove, GetComponent, RegisterComponentType,
      QueryGetComponent, vars, walk

(* A query misses no entity that matched when it began and stops at none   *)
(* that does not match, whatever its body spawns and removes.              *)
THEOREM QueriesVisitAll == Spec => QueryVisitsAll
<1>1. Init => WalkInv
  BY DEF Init, WalkInv, Querying, NoQuery
<1>2. ASSUME IInv, WalkInv, [Next]_vars, Querying, query'.entity = -1
      PROVE  expected \subseteq visited' /\ visited' \subseteq Matching(query.component_mask)
  <2> DEFINE mask == query.component_mask
  <2>0. /\ TypeOK /\ \A j \in Slot : j \in Int /\ j >= 0
        /\ query.entity \in Int /\ query.entity >= 0
    BY <1>2, SlotFacts DEF IInv, TypeOK, Querying
  <2>1. CASE QueryNext
    <3>1. PICK i \in Slot \cup {-1} :
            IsNextMatch(i, query.entity, mask) /\ StopAt(mask, i, visited)
      BY <2>1 DEF QueryNext
    <3>2. i = -1 /\ visited' = visited
      BY <1>2, <3>1 DEF StopAt
    <3>3. ASSUME NEW j \in expected PROVE j <= query.entity
      <4>1. j \in Matching(mask) /\ j \in Int
        BY <1>2, <2>0, <3>3 DEF WalkInv, Matching
      <4>2. ~(j > query.entity)
        BY <2>0, <3>1, <3>2, <4>1, NextMatchSkipsNothing DEF Matching
      <4>3. QED
        BY <2>0, <4>1, <4>2
    <3>4. QED
      BY <1>2, <3>2, <3>3 DEF WalkInv
  <2>2. CASE UNCHANGED walk
    BY <1>2, <2>0, <2>2 DEF walk
  <2>3. QED
    BY <1>2, <2>1, <2>2
    DEF Next, Update, Add, AddFails, Remove, GetComponent, RegisterComponentType,
        QueryCreate, QueryGetComponent, vars, walk
<1>3. IInv /\ WalkInv /\ [Next]_vars
        => [Querying /\ query'.entity = -1 =>
              expected \subseteq visited' /\ visited' \subseteq Matching(query.component_mask)]_vars
  BY <1>2
<1>4. QED
  BY <1>1, <1>3, InitInv, InvStep, WalkStep, PTL DEF Spec, QueryVisitsAll

-----------------------------------------------------------------------------
(***************************************************************************)
(* The refinement of EntityLifecycle.                                      *)
(***************************************************************************)
Id == 1 .. MaxAdds
Mapped == [id \in Id |-> Life(id)]   \* what Ecs substitutes for life

(* How the mapping reads the table: an entity's number is in one slot at   *)
(* most, whose state is the entity's; one that is in none was not spawned  *)
(* yet or is gone.                                                         *)
LifeReads ==
  \A id \in Id :
    /\ id >= global_sequence => Life(id) = "unborn"
    /\ id < global_sequence =>
         /\ \A i \in Slot : sequences[i] = id => Life(id) = Standing[entity_states[i]]
         /\ (\A i \in Slot : sequences[i] # id) => Life(id) = "gone"

LEMMA InvReads == IInv => LifeReads
<1> SUFFICES ASSUME IInv, NEW id \in Id
             PROVE  /\ id >= global_sequence => Life(id) = "unborn"
                    /\ id < global_sequence =>
                         /\ \A i \in Slot : sequences[i] = id =>
                              Life(id) = Standing[entity_states[i]]
                         /\ (\A i \in Slot : sequences[i] # id) => Life(id) = "gone"
  BY DEF LifeReads
<1> DEFINE slots == {i \in Slot : sequences[i] = id}
<1>1. id \in Int /\ id > 0 /\ global_sequence \in Int
  BY AddsAssumption DEF Id, IInv, TypeOK
<1>2. CASE id >= global_sequence
  BY <1>1, <1>2 DEF Life
<1>3. ASSUME id < global_sequence, NEW i \in Slot, sequences[i] = id
      PROVE  Life(id) = Standing[entity_states[i]]
  <2>1. \A j \in slots : j = i
    BY <1>1, <1>3 DEF IInv, SlotsDistinct
  <2>2. slots # {} /\ (CHOOSE j \in slots : TRUE) = i
    BY <1>3, <2>1
  <2>3. ~(id >= global_sequence)
    BY <1>1, <1>3
  <2>4. Life(id) = Standing[entity_states[CHOOSE j \in slots : TRUE]]
    BY <2>2, <2>3, Zenon DEF Life
  <2>5. QED
    BY <2>2, <2>4
<1>4. ASSUME id < global_sequence, \A i \in Slot : sequences[i] # id
      PROVE  Life(id) = "gone"
  <2>1. slots = {}
    BY <1>4
  <2>2. QED
    BY <1>1, <1>4, <2>1 DEF Life
<1>5. QED
  BY <1>1, <1>2, <1>3, <1>4

-----------------------------------------------------------------------------
(* What Lifecycle and this module take Cardinality to be is the same.      *)
LEMMA SameCardinality == \A S : Lifecycle!Cardinality(S) = Cardinality(S)
  BY DEF Lifecycle!Cardinality, Cardinality, Lifecycle!IsFiniteSet, IsFiniteSet

(* Entities that exist are as many as slots in use, and the slot being     *)
(* taken is not in use.                                                    *)
LEMMA RoomForOneMore ==
  ASSUME IInv, LifeReads, NEW i \in Slot, entity_states[i] = "unused"
  PROVE  Cardinality({e \in Id : Mapped[e] \in Lifecycle!Existing}) < MaxEntities
<1> DEFINE existing == {e \in Id : Mapped[e] \in Lifecycle!Existing}
           occupied == {j \in Slot : sequences[j] \in existing}
           number == [j \in occupied |-> sequences[j]]
<1>1. ASSUME NEW e \in existing PROVE \E j \in occupied : sequences[j] = e
  <2>1. /\ e \in Id /\ Life(e) \in {"pending", "active", "doomed"}
        /\ e \in Int /\ global_sequence \in Int
    BY AddsAssumption DEF Mapped, Lifecycle!Existing, IInv, TypeOK, Id
  <2>2. \E j \in Slot : sequences[j] = e
    BY <2>1 DEF LifeReads
  <2>3. QED
    BY <2>2
<1>2. i \notin occupied
  <2>1. SUFFICES ASSUME i \in occupied PROVE FALSE
    OBVIOUS
  <2>2. /\ sequences[i] \in Id /\ Life(sequences[i]) \in {"pending", "active", "doomed"}
        /\ sequences[i] \in Int /\ global_sequence \in Int
    BY <2>1, AddsAssumption DEF Mapped, Lifecycle!Existing, IInv, TypeOK, Id
  <2>3. Life(sequences[i]) = Standing["unused"]
    BY <2>2 DEF LifeReads, IInv, NumbersUsed
  <2>4. QED
    BY <2>2, <2>3 DEF Standing
<1>3. IsFiniteSet(Slot) /\ Cardinality(Slot) = MaxEntities
  BY FS_Interval, EntitiesAssumption DEF Slot
<1>4. IsFiniteSet(Slot \ {i}) /\ Cardinality(Slot \ {i}) = MaxEntities - 1
  BY <1>3, FS_RemoveElement
<1>5. IsFiniteSet(occupied) /\ Cardinality(occupied) <= MaxEntities - 1
  BY <1>2, <1>4, FS_Subset
<1>6. number \in Surjection(occupied, existing)
  BY <1>1 DEF Surjection
<1>7. IsFiniteSet(existing) /\ Cardinality(existing) <= Cardinality(occupied)
  BY <1>5, <1>6, FS_Surjection
<1>8. QED
  BY <1>5, <1>7, EntitiesAssumption, FS_CardinalityType

-----------------------------------------------------------------------------
(* One lemma per action that changes the table.                            *)

LEMMA UpdateImplements ==
  ASSUME IInv, LifeReads, LifeReads', Update
  PROVE  Mapped' = [id \in Id |-> CASE Mapped[id] = "pending" -> "active"
                                    [] Mapped[id] = "doomed" -> "gone"
                                    [] OTHER -> Mapped[id]]
<1> SUFFICES ASSUME NEW id \in Id
             PROVE  Life(id)' = CASE Life(id) = "pending" -> "active"
                                  [] Life(id) = "doomed" -> "gone"
                                  [] OTHER -> Life(id)
  BY DEF Mapped
<1>1. /\ id \in Int /\ global_sequence \in Int /\ entity_states \in [Slot -> State]
      /\ UNCHANGED <<global_sequence, sequences>>
  BY AddsAssumption DEF IInv, TypeOK, Update, Id
<1>2. CASE id >= global_sequence
  BY <1>1, <1>2 DEF LifeReads
<1>3. ASSUME id < global_sequence, NEW i \in Slot, sequences[i] = id
      PROVE  Life(id)' = CASE Life(id) = "pending" -> "active"
                           [] Life(id) = "doomed" -> "gone"
                           [] OTHER -> Life(id)
  <2>1. Life(id) = Standing[entity_states[i]] /\ Life(id)' = Standing[entity_states[i]']
    BY <1>1, <1>3 DEF LifeReads, Standing
  <2>2. entity_states[i] \in State /\
        entity_states[i]' = CASE entity_states[i] = "pending_add" -> "active"
                              [] entity_states[i] = "pending_remove" -> "unused"
                              [] OTHER -> entity_states[i]
    BY <1>1 DEF Update
  <2>3. QED
    BY <2>1, <2>2 DEF Standing, State
<1>4. CASE id < global_sequence /\ \A i \in Slot : sequences[i] # id
  BY <1>1, <1>4 DEF LifeReads
<1>5. QED
  BY <1>1, <1>2, <1>3, <1>4

LEMMA AddImplements ==
  ASSUME IInv, LifeReads, LifeReads', NEW i \in Slot, NEW mask \in Mask, Add(i, mask)
  PROVE  Lifecycle!Spawn(global_sequence)
<1> DEFINE new == global_sequence
<1>1. /\ new \in Id /\ new \in Int /\ \A id \in Id : id \in Int
      /\ sequences \in [Slot -> Int] /\ entity_states \in [Slot -> State]
      /\ \A j \in Slot : sequences[j] < new
      /\ new' = new + 1
      /\ sequences' = [sequences EXCEPT ![i] = new]
      /\ entity_states' = [entity_states EXCEPT ![i] = "pending_add"]
      /\ entity_states[i] = "unused"
  BY AddsAssumption DEF Add, IInv, TypeOK, NumbersUsed, Id
<1>2. Mapped[new] = "unborn"
  BY <1>1 DEF Mapped, LifeReads
<1>3. new > 1 => Mapped[new - 1] # "unborn"
  <2>1. SUFFICES ASSUME new > 1 PROVE Life(new - 1) # "unborn"
    BY <1>1, AddsAssumption DEF Mapped, Id
  <2>2. new - 1 \in Id /\ new - 1 < new
    BY <1>1, <2>1, AddsAssumption DEF Id
  <2>3. CASE \E j \in Slot : sequences[j] = new - 1
    BY <1>1, <2>2, <2>3 DEF LifeReads, Standing, State
  <2>4. CASE \A j \in Slot : sequences[j] # new - 1
    BY <2>2, <2>4 DEF LifeReads
  <2>5. QED
    BY <2>3, <2>4
<1>4. Cardinality({e \in Id : Mapped[e] \in Lifecycle!Existing}) < MaxEntities
  BY <1>1, RoomForOneMore
<1>5. Mapped' = [Mapped EXCEPT ![new] = "pending"]
  <2>1. SUFFICES ASSUME NEW id \in Id
                 PROVE  Life(id)' = IF id = new THEN "pending" ELSE Life(id)
    BY <1>1 DEF Mapped
  <2>2. CASE id = new
    BY <1>1, <2>2 DEF LifeReads, Standing
  <2>3. CASE id > new
    BY <1>1, <2>3 DEF LifeReads
  <2>4. CASE id < new
    <3> SUFFICES Life(id)' = Life(id)
      BY <1>1, <2>4
    <3>1. ASSUME NEW j \in Slot, sequences[j] = id, j # i PROVE Life(id)' = Life(id)
      BY <1>1, <2>4, <3>1 DEF LifeReads
    <3>2. CASE \A j \in Slot : sequences[j] # id
      <4>1. \A j \in Slot : sequences[j]' # id
        BY <1>1, <2>4, <3>2
      <4>2. QED
        BY <1>1, <2>4, <3>2, <4>1 DEF LifeReads
    <3>3. CASE sequences[i] = id
      <4>1. \A j \in Slot : sequences[j] = id => j = i
        BY <1>1, <3>3 DEF IInv, SlotsDistinct, Id
      <4>2. \A j \in Slot : sequences[j]' # id
        BY <1>1, <2>4, <4>1
      <4>3. Life(id)' = "gone"
        BY <1>1, <2>4, <4>2 DEF LifeReads
      <4>4. Life(id) = "gone"
        BY <1>1, <2>4, <3>3 DEF LifeReads, Standing
      <4>5. QED
        BY <4>3, <4>4
    <3>4. QED
      BY <3>1, <3>2, <3>3
  <2>5. QED
    BY <1>1, <2>2, <2>3, <2>4
<1>6. QED
  BY <1>2, <1>3, <1>4, <1>5, SameCardinality DEF Lifecycle!Spawn, Lifecycle!Id, Mapped, Id

LEMMA SameTableSameLives ==
  ASSUME UNCHANGED table
  PROVE  Mapped' = Mapped
BY DEF table, Mapped, Life

LEMMA RemoveImplements ==
  ASSUME IInv, LifeReads, LifeReads', NEW ref \in refs, NEW allow \in BOOLEAN,
         Remove(ref, allow)
  PROVE  Mapped' = Mapped \/ \E id \in Id : Lifecycle!Remove(id)
<1> DEFINE i == ref.entity
           id == ref.sequence
<1>1. CASE ~IsValid(ref, allow) \/ entity_states[i] = "pending_remove"
  <2>1. entity_states' = entity_states
    BY <1>1 DEF Remove, IInv, TypeOK
  <2>2. QED
    BY <2>1, SameTableSameLives DEF Remove, table
<1>2. CASE IsValid(ref, allow) /\ entity_states[i] # "pending_remove"
  <2>1. /\ i \in Slot /\ id \in Id /\ sequences[i] = id
        /\ id < global_sequence /\ id \in Int /\ id > 0 /\ global_sequence \in Int
    BY <1>2, AddsAssumption DEF IsValid, IInv, TypeOK, NumbersUsed, Ref, NoRef, Id
  <2>2. /\ entity_states \in [Slot -> State]
        /\ entity_states[i] \in {"pending_add", "active"}
        /\ entity_states' = [entity_states EXCEPT ![i] = "pending_remove"]
        /\ UNCHANGED <<global_sequence, sequences>>
    BY <1>2, <2>1 DEF IsValid, AtLeastPendingAdd, AtLeastActive, Remove, IInv, TypeOK, State
  <2>3. Mapped[id] \in {"pending", "active"}
    BY <2>1, <2>2 DEF Mapped, LifeReads, Standing
  <2>4. Mapped' = [Mapped EXCEPT ![id] = "doomed"]
    <3>1. SUFFICES ASSUME NEW e \in Id
                   PROVE  Life(e)' = IF e = id THEN "doomed" ELSE Life(e)
      BY <2>1 DEF Mapped
    <3>2. CASE e = id
      BY <2>1, <2>2, <3>2 DEF LifeReads, Standing
    <3>3. CASE e # id
      <4> SUFFICES Life(e)' = Life(e)
        BY <3>3
      <4>1. e \in Int
        BY DEF Id
      <4>2. CASE e >= global_sequence
        BY <2>1, <2>2, <4>1, <4>2 DEF LifeReads
      <4>3. ASSUME e < global_sequence, NEW j \in Slot, sequences[j] = e
            PROVE  Life(e)' = Life(e)
        <5>1. entity_states[j]' = entity_states[j]
          BY <2>1, <2>2, <3>3, <4>3
        <5>2. Life(e) = Standing[entity_states[j]] /\ Life(e)' = Standing[entity_states[j]']
          BY <2>2, <4>3 DEF LifeReads, Standing
        <5>3. QED
          BY <5>1, <5>2
      <4>4. CASE e < global_sequence /\ \A j \in Slot : sequences[j] # e
        BY <2>2, <4>4 DEF LifeReads
      <4>5. QED
        BY <2>1, <3>3, <4>1, <4>2, <4>3, <4>4
    <3>4. QED
      BY <3>2, <3>3
  <2>5. QED
    BY <2>1, <2>3, <2>4 DEF Lifecycle!Remove, Mapped, Id
<1>3. QED
  BY <1>1, <1>2

-----------------------------------------------------------------------------
(* The slots implement entities that are never confused with one another   *)
(* and whose life only moves forward, however often slots are reused (the  *)
(* deferred ecs_entity_add, ecs_entity_remove and ecs_update of ecs.c).    *)
THEOREM TableImplementsLifecycle == Spec => ImplementsLifecycle
<1>1. Init => Lifecycle!Init
  BY AddsAssumption DEF Init, Lifecycle!Init, Lifecycle!Id, Life
<1>2. ASSUME IInv, LifeReads, LifeReads', [Next]_vars
      PROVE  [Lifecycle!Next]_Mapped
  <2>1. CASE Update
    BY <1>2, <2>1, UpdateImplements
    DEF Lifecycle!Next, Lifecycle!Update, Lifecycle!Id, Mapped, Id
  <2>2. ASSUME NEW i \in Slot, NEW mask \in Mask, Add(i, mask)
        PROVE  [Lifecycle!Next]_Mapped
    <3>1. global_sequence \in Id
      BY <1>2, <2>2, AddsAssumption DEF Add, IInv, TypeOK, Id
    <3>2. QED
      BY <1>2, <2>2, <3>1, AddImplements DEF Lifecycle!Next, Lifecycle!Id, Id
  <2>3. ASSUME NEW ref \in refs, NEW allow \in BOOLEAN, Remove(ref, allow)
        PROVE  [Lifecycle!Next]_Mapped
    BY <1>2, <2>3, RemoveImplements DEF Lifecycle!Next, Lifecycle!Id, Id
  <2>4. CASE UNCHANGED table
    BY <2>4, SameTableSameLives
  <2>5. QED
    BY <1>2, <2>1, <2>2, <2>3, <2>4
    DEF Next, AddFails, GetComponent, RegisterComponentType, QueryCreate, QueryNext,
        StopAt, QueryGetComponent, vars
<1>3. Mapped = [id \in 1 .. MaxAdds |-> Life(id)]
  BY DEF Mapped, Id
<1>4. IInv /\ LifeReads /\ LifeReads' /\ [Next]_vars
        => [Lifecycle!Next]_([id \in 1 .. MaxAdds |-> Life(id)])
  BY <1>2 DEF Mapped, Id
<1>5. QED
  BY <1>1, <1>4, InitInv, InvStep, InvReads, PTL
  DEF Spec, ImplementsLifecycle, Lifecycle!Spec

-----------------------------------------------------------------------------
(***************************************************************************)
(* The player of frogger_game.c on top of the table: FroggerGame.tla, for  *)
(* every number of slots and of players spawned and every size of the road.*)
(***************************************************************************)
(* A frame moves the player by no more than the lanes leave free at the    *)
(* top, and one truck at most touches it.                                  *)
ShortSteps == MaxStep \in 0 .. 1
OneTruck == MaxHits \in 0 .. 1

(* Of the player in slot s: it is the only one; it was removed and nobody  *)
(* has come for it yet; or its successor has, and waits at the bottom.     *)
Alone(s) == /\ entity_states[s] = "active"
            /\ \A i \in Slot \ {s} : entity_states[i] = "unused"

Leaving(s) == /\ entity_states[s] = "pending_remove"
              /\ \A i \in Slot \ {s} : entity_states[i] = "unused"

Replaced(s) ==
  /\ entity_states[s] = "pending_remove"
  /\ \E n \in Slot \ {s} : /\ entity_states[n] = "pending_add"
                           /\ z[n] = Start
                           /\ \A i \in Slot \ {s, n} : entity_states[i] = "unused"

Playing(s) == (respawned = FALSE /\ Alone(s)) \/ (respawned = TRUE /\ Replaced(s))

(* The one that the next ecs_update leaves.                                *)
Survives(s) == \A i \in Slot : entity_states[i] \in {"active", "pending_add"} <=> i = s

GameTypes ==
  /\ entity_states \in [Slot -> State]
  /\ component_masks \in [Slot -> SUBSET Int]
  /\ z \in [Slot -> Int]
  /\ query \in [component_mask : SUBSET Int, entity : Slot \cup {-1}]
  /\ player_query \in Slot \cup {-1}
  /\ lane \in 0 .. 4
  /\ hits \in Nat
  /\ respawned \in BOOLEAN
  /\ \A i \in Slot : entity_states[i] # "unused" => component_masks[i] = PlayerMask

AtPlayer == /\ query.entity \in Slot /\ query.component_mask = PlayerMask
            /\ hits = 0

(* What there is at each place of a frame.  A player past the top is out   *)
(* of the reach of trucks: the one that has been replaced is not replaced  *)
(* again.                                                                  *)
GameInv ==
  /\ GameTypes
  /\ pc \in {"create", "frame", "players", "player", "respawn", "move", "trucks", "hit"}
  /\ pc \in {"create", "frame", "players", "trucks", "hit"} => query.entity = -1
  /\ pc = "create" => \A i \in Slot : entity_states[i] = "unused"
  /\ pc = "frame" => \E s \in Slot : Survives(s) /\ (respawned = TRUE => z[s] = Start)
  /\ pc = "players" => /\ hits = 0
                       /\ \E s \in Slot : Alone(s) /\ (respawned = TRUE => z[s] = Start)
  /\ pc = "player" /\ query.entity # -1 =>
       AtPlayer /\ Alone(query.entity) /\ respawned = FALSE
  /\ pc = "player" /\ query.entity = -1 =>
       hits = 0 /\ \E s \in Slot : Playing(s) /\ (respawned = TRUE => z[s] < LaneZ[3] - 1)
  /\ pc = "respawn" => /\ AtPlayer /\ Leaving(query.entity) /\ respawned = TRUE
                       /\ z[query.entity] < Top
  /\ pc = "move" => /\ AtPlayer /\ Playing(query.entity)
                    /\ respawned = TRUE => z[query.entity] < Top
  /\ pc = "trucks" =>
       /\ player_query \in Slot /\ Playing(player_query) /\ lane > 0
       /\ respawned = TRUE => hits > 0 \/ z[player_query] < LaneZ[3] - 1
  /\ pc = "hit" => /\ player_query \in Slot /\ Leaving(player_query) /\ lane > 0
                   /\ hits > 0 /\ respawned = TRUE

LEMMA GameSlots ==
  /\ PlayerMask = {0} /\ Start = 6 /\ Top = -6
  /\ LaneZ[1] = 4 /\ LaneZ[2] = 0 /\ LaneZ[3] = -4
BY DEF PlayerMask, player_type, Start, Top, LaneZ

(* What the calls of the ecs do to what the game's invariant is about.     *)
LEMMA GameSpawns ==
  ASSUME NEW next, spawn_player(next)
  PROVE  \E n \in Slot :
           /\ entity_states[n] = "unused"
           /\ entity_states' = [entity_states EXCEPT ![n] = "pending_add"]
           /\ component_masks' = [component_masks EXCEPT ![n] = {0}]
           /\ z' = [z EXCEPT ![n] = 6]
           /\ pc' = next /\ query' = query
<1>1. PICK n \in Slot : Add(n, PlayerMask) /\ z' = [z EXCEPT ![n] = Start]
  BY GameSlots DEF spawn_player
<1>2. pc' = next
  BY DEF spawn_player
<1>3. QED
  BY <1>1, <1>2, GameSlots DEF Add, walk

LEMMA GameRemoves ==
  ASSUME NEW s \in Slot, entity_states[s] \in {"active", "pending_remove"},
         Remove(Player(s), FALSE)
  PROVE  /\ entity_states' = [entity_states EXCEPT ![s] = "pending_remove"]
         /\ component_masks' = component_masks /\ query' = query
<1>1. s >= 0
  BY SlotFacts
<1>2. Player(s).entity = s /\ Player(s).sequence = sequences[s]
  BY DEF Player
<1>3. IsValid(Player(s), FALSE)
  BY <1>1, <1>2 DEF IsValid, AtLeastActive
<1>4. QED
  BY <1>2, <1>3 DEF Remove, walk

(* Queries find the player on the screen, also when it was just removed.   *)
LEMMA PlayerFound ==
  ASSUME GameTypes, NEW s \in Slot, Alone(s) \/ Replaced(s),
         NEW i \in Slot \cup {-1}, NEW from \in Int,
         IsNextMatch(i, from, {0})
  PROVE  i = IF from < s THEN s ELSE -1
<1>1. component_masks[s] = {0}
  BY GameSlots DEF GameTypes, Alone, Replaced
<1>2. Matching({0}) = {s}
  <2>1. Matches(s, {0})
    BY <1>1 DEF Matches, AtLeastActive, Alone, Replaced
  <2>2. \A j \in Slot : Matches(j, {0}) => j = s
    BY DEF Matches, AtLeastActive, Alone, Replaced
  <2>3. Slot = Slot
    BY DEF Slot, Slot
  <2>4. QED
    BY <2>1, <2>2, <2>3 DEF Matching
<1>3. s \in Int
  BY SlotFacts
<1>4. QED
  BY <1>2, <1>3 DEF IsNextMatch

LEMMA GameInitInv == GameInit => GameInv
<1> SUFFICES ASSUME GameInit PROVE GameInv
  OBVIOUS
<1>1. /\ entity_states = [i \in Slot |-> "unused"] /\ component_masks = [i \in Slot |-> {}]
      /\ query = [component_mask |-> {}, entity |-> -1]
      /\ z = [s \in Slot |-> 6] /\ pc = "create" /\ player_query = -1 /\ lane = 0
      /\ hits = 0 /\ respawned = FALSE
  BY GameSlots DEF GameInit, Init, NoQuery, Slot
<1>2. GameTypes
  <2>1. entity_states \in [Slot -> State] /\ z \in [Slot -> Int]
    BY <1>1 DEF State
  <2>2. component_masks \in [Slot -> SUBSET Int]
    BY <1>1
  <2>3. query \in [component_mask : SUBSET Int, entity : Slot \cup {-1}]
    BY <1>1
  <2>4. player_query \in Slot \cup {-1} /\ lane \in 0 .. 4 /\ hits \in Nat
    BY <1>1
  <2>5. respawned \in BOOLEAN
    BY <1>1
  <2>6. \A i \in Slot : entity_states[i] = "unused"
    BY <1>1
  <2>7. QED
    BY <2>1, <2>2, <2>3, <2>4, <2>5, <2>6 DEF GameTypes
<1>3. QED
  BY <1>1, <1>2 DEF GameInv

LEMMA GameSame ==
  ASSUME GameTypes, UNCHANGED <<entity_states, component_masks, z>>
  PROVE  /\ \A s : Alone(s)' = Alone(s) /\ Leaving(s)' = Leaving(s)
         /\ \A s : Replaced(s)' = Replaced(s) /\ Survives(s)' = Survives(s)
         /\ \A i \in Slot : entity_states'[i] # "unused" => component_masks'[i] = PlayerMask
BY DEF GameTypes, Alone, Leaving, Replaced, Survives

(* The steps between two spawns, removals and moves.                       *)
LEMMA GameSpawnKeeps ==
  ASSUME GameTypes, NEW n \in Slot, entity_states[n] = "unused",
         entity_states' = [entity_states EXCEPT ![n] = "pending_add"],
         component_masks' = [component_masks EXCEPT ![n] = {0}],
         z' = [z EXCEPT ![n] = 6]
  PROVE  /\ entity_states' \in [Slot -> State] /\ component_masks' \in [Slot -> SUBSET Int]
         /\ z' \in [Slot -> Int]
         /\ \A i \in Slot : entity_states'[i] # "unused" => component_masks'[i] = PlayerMask
         /\ (\A i \in Slot : entity_states[i] = "unused") => Survives(n)' /\ z'[n] = Start
         /\ \A s \in Slot : Leaving(s) => Replaced(s)' /\ z'[s] = z[s]
<1>1. entity_states' \in [Slot -> State] /\ component_masks' \in [Slot -> SUBSET Int]
      /\ z' \in [Slot -> Int]
  BY DEF GameTypes, State
<1>2. \A i \in Slot : entity_states'[i] # "unused" => component_masks'[i] = PlayerMask
  BY GameSlots DEF GameTypes
<1>3. (\A i \in Slot : entity_states[i] = "unused") => Survives(n)' /\ z'[n] = Start
  BY GameSlots DEF GameTypes, Survives
<1>4. ASSUME NEW s \in Slot, Leaving(s) PROVE Replaced(s)' /\ z'[s] = z[s]
  <2>1. n \in Slot \ {s} /\ entity_states[s] = "pending_remove"
    BY <1>4 DEF Leaving
  <2>2. entity_states'[s] = "pending_remove" /\ z'[s] = z[s]
    BY <2>1 DEF GameTypes
  <2>3. entity_states'[n] = "pending_add" /\ z'[n] = 6
    BY DEF GameTypes
  <2>4. \A i \in Slot \ {s, n} : entity_states'[i] = "unused"
    BY <1>4 DEF GameTypes, Leaving
  <2>5. QED
    BY <2>1, <2>2, <2>3, <2>4, GameSlots DEF Replaced
<1>5. QED
  BY <1>1, <1>2, <1>3, <1>4

LEMMA GameRemoveKeeps ==
  ASSUME GameTypes, NEW s \in Slot, Alone(s),
         entity_states' = [entity_states EXCEPT ![s] = "pending_remove"],
         component_masks' = component_masks
  PROVE  /\ entity_states' \in [Slot -> State] /\ component_masks' \in [Slot -> SUBSET Int]
         /\ \A i \in Slot : entity_states'[i] # "unused" => component_masks'[i] = PlayerMask
         /\ Leaving(s)'
<1>1. entity_states' \in [Slot -> State] /\ component_masks' \in [Slot -> SUBSET Int]
  BY DEF GameTypes, State
<1>2. \A i \in Slot : entity_states'[i] # "unused" => component_masks'[i] = PlayerMask
  BY DEF GameTypes, Alone
<1>3. Leaving(s)'
  BY DEF GameTypes, Alone, Leaving
<1>4. QED
  BY <1>1, <1>2, <1>3

LEMMA GameUpdateKeeps ==
  ASSUME GameTypes, Update, NEW s \in Slot, Survives(s)
  PROVE  /\ entity_states' \in [Slot -> State] /\ component_masks' = component_masks
         /\ \A i \in Slot : entity_states'[i] # "unused" => component_masks'[i] = PlayerMask
         /\ Alone(s)' /\ query' = query
<1>1. /\ component_masks' = component_masks /\ query' = query
      /\ entity_states' = [i \in Slot |-> CASE entity_states[i] = "pending_add" -> "active"
                                            [] entity_states[i] = "pending_remove" -> "unused"
                                            [] OTHER -> entity_states[i]]
  BY DEF Update, walk, Slot
<1>2. \A i \in Slot : entity_states[i] \in State
  BY DEF GameTypes
<1>3. \A i \in Slot : entity_states'[i] = IF i = s THEN "active" ELSE "unused"
  BY <1>1, <1>2 DEF Survives, State
<1>4. entity_states' \in [Slot -> State]
  BY <1>1, <1>3 DEF State
<1>5. \A i \in Slot : entity_states'[i] # "unused" => component_masks'[i] = PlayerMask
  BY <1>1, <1>3 DEF GameTypes, Survives
<1>6. QED
  BY <1>1, <1>3, <1>4, <1>5 DEF Alone

LEMMA GameInvStep ==
  ASSUME GameInv, ShortSteps, OneTruck, [GameNext]_gamevars
  PROVE  GameInv'
<1>1. GameTypes
  BY DEF GameInv
<1>2. \A s \in Slot : s # -1
  BY SlotFacts
<1>3. CASE Register
  <2>1. /\ pc = "create" /\ pc' = pc /\ z' = z /\ UNCHANGED <<player_query, lane, hits, respawned>>
        /\ UNCHANGED <<entity_states, component_masks, query>>
    BY <1>3 DEF Register, RegisterComponentType, table, walk,
                game
  <2>2. GameTypes'
    BY <1>1, <2>1 DEF GameTypes
  <2>3. QED
    BY <2>1, <2>2 DEF GameInv
<1>4. CASE Create
  <2>1. pc = "create" /\ UNCHANGED <<player_query, lane, hits, respawned>>
    BY <1>4 DEF Create, game
  <2>2. PICK n \in Slot : /\ entity_states[n] = "unused"
                          /\ entity_states' = [entity_states EXCEPT ![n] = "pending_add"]
                          /\ component_masks' = [component_masks EXCEPT ![n] = {0}]
                          /\ z' = [z EXCEPT ![n] = 6]
                          /\ pc' = "frame" /\ query' = query
    BY <1>4, GameSpawns DEF Create
  <2>3. /\ entity_states' \in [Slot -> State] /\ component_masks' \in [Slot -> SUBSET Int]
        /\ z' \in [Slot -> Int]
        /\ \A i \in Slot : entity_states'[i] # "unused" => component_masks'[i] = PlayerMask
        /\ (\A i \in Slot : entity_states[i] = "unused") => Survives(n)' /\ z'[n] = Start
    BY <1>1, <2>2, GameSpawnKeeps
  <2>4. GameTypes'
    BY <1>1, <2>1, <2>2, <2>3 DEF GameTypes
  <2>5. Survives(n)' /\ z'[n] = Start /\ query.entity = -1
    BY <2>1, <2>3 DEF GameInv
  <2>6. QED
    BY <2>2, <2>4, <2>5 DEF GameInv
<1>5. CASE BeginFrame
  <2>1. /\ pc = "frame" /\ Update /\ pc' = "players" /\ hits' = 0
        /\ UNCHANGED <<z, player_query, lane, respawned>>
    BY <1>5 DEF BeginFrame
  <2>2. PICK s \in Slot : Survives(s) /\ (respawned = TRUE => z[s] = Start)
    BY <2>1 DEF GameInv
  <2>3. /\ entity_states' \in [Slot -> State] /\ component_masks' = component_masks
        /\ \A i \in Slot : entity_states'[i] # "unused" => component_masks'[i] = PlayerMask
        /\ Alone(s)' /\ query' = query
    BY <1>1, <2>1, <2>2, GameUpdateKeeps
  <2>4. GameTypes'
    BY <1>1, <2>1, <2>3 DEF GameTypes
  <2>5. query.entity = -1
    BY <2>1 DEF GameInv
  <2>6. QED
    BY <2>1, <2>2, <2>3, <2>4, <2>5 DEF GameInv
<1>6. CASE QueryPlayers
  <2>1. /\ pc = "players" /\ pc' = "player" /\ respawned' = FALSE
        /\ UNCHANGED <<z, player_query, lane, hits>>
    BY <1>6 DEF QueryPlayers
  <2>2. PICK s \in Slot : Alone(s)
    BY <2>1 DEF GameInv
  <2>3. PICK i \in Slot \cup {-1} :
          IsNextMatch(i, -1, {0}) /\ StopAt({0}, i, {})
    BY <1>6, GameSlots DEF QueryPlayers, QueryCreate, Slot
  <2>4. i = s
    BY <1>1, <2>2, <2>3, SlotFacts, PlayerFound
  <2>5. /\ query' = [component_mask |-> {0}, entity |-> s]
        /\ UNCHANGED <<entity_states, component_masks>>
    BY <2>3, <2>4 DEF StopAt, table
  <2>6. query' \in [component_mask : SUBSET Int, entity : Slot \cup {-1}] /\ query'.entity = s
        /\ query'.component_mask = PlayerMask
    BY <2>5, GameSlots
  <2>7. GameTypes'
    BY <1>1, <2>1, <2>5, <2>6 DEF GameTypes
  <2>8. hits' = 0 /\ Alone(s)'
    BY <2>1, <2>2, <2>5 DEF GameInv, Alone
  <2>9. QED
    BY <1>2, <2>1, <2>6, <2>7, <2>8 DEF GameInv, AtPlayer
<1>7. CASE ReachesTop
  <2>1. /\ pc = "player" /\ query.entity # -1 /\ z[query.entity] < Top /\ pc' = "respawn"
        /\ respawned' = TRUE /\ UNCHANGED <<z, player_query, lane, hits>>
        /\ Remove(Player(query.entity), FALSE)
    BY <1>7 DEF ReachesTop, PastTop
  <2>2. AtPlayer /\ Alone(query.entity)
    BY <2>1 DEF GameInv
  <2>3. PICK s \in Slot : s = query.entity
    BY <2>2 DEF AtPlayer
  <2>4. Alone(s) /\ entity_states[s] \in {"active", "pending_remove"}
    BY <2>2, <2>3 DEF Alone
  <2>5. Remove(Player(s), FALSE)
    BY <2>1, <2>3 DEF Remove, Player
  <2>6. /\ entity_states' = [entity_states EXCEPT ![s] = "pending_remove"]
        /\ component_masks' = component_masks /\ query' = query
    BY <2>4, <2>5, GameRemoves
  <2>7. /\ entity_states' \in [Slot -> State] /\ component_masks' \in [Slot -> SUBSET Int]
        /\ \A i \in Slot : entity_states'[i] # "unused" => component_masks'[i] = PlayerMask
        /\ Leaving(s)'
    BY <1>1, <2>4, <2>6, GameRemoveKeeps
  <2>8. GameTypes'
    BY <1>1, <2>1, <2>6, <2>7 DEF GameTypes
  <2>9. AtPlayer' /\ z'[query'.entity] < Top
    BY <2>1, <2>2, <2>6 DEF AtPlayer
  <2>10. Leaving(query.entity)'
    BY <2>3, <2>6, <2>7 DEF Leaving
  <2>11. QED
    BY <2>1, <2>8, <2>9, <2>10 DEF GameInv
<1>8. CASE RespawnAtTop
  <2>1. pc = "respawn" /\ UNCHANGED <<player_query, lane, hits, respawned>>
    BY <1>8 DEF RespawnAtTop, game
  <2>2. PICK n \in Slot : /\ entity_states[n] = "unused"
                          /\ entity_states' = [entity_states EXCEPT ![n] = "pending_add"]
                          /\ component_masks' = [component_masks EXCEPT ![n] = {0}]
                          /\ z' = [z EXCEPT ![n] = 6]
                          /\ pc' = "move" /\ query' = query
    BY <1>8, GameSpawns DEF RespawnAtTop
  <2>3. AtPlayer /\ Leaving(query.entity) /\ respawned = TRUE /\ z[query.entity] < Top
    BY <2>1 DEF GameInv
  <2>4. PICK s \in Slot : s = query.entity
    BY <2>3 DEF AtPlayer
  <2>5. Leaving(s)
    BY <2>3, <2>4 DEF Leaving
  <2>6. /\ entity_states' \in [Slot -> State] /\ component_masks' \in [Slot -> SUBSET Int]
        /\ z' \in [Slot -> Int]
        /\ \A i \in Slot : entity_states'[i] # "unused" => component_masks'[i] = PlayerMask
        /\ Replaced(s)' /\ z'[s] = z[s]
    BY <1>1, <2>2, <2>5, GameSpawnKeeps
  <2>7. GameTypes'
    BY <1>1, <2>1, <2>2, <2>6 DEF GameTypes
  <2>8. AtPlayer' /\ respawned' = TRUE /\ z'[query'.entity] < Top /\ query'.entity = s
    BY <2>1, <2>2, <2>3, <2>4, <2>6 DEF AtPlayer
  <2>9. Playing(query.entity)'
    BY <2>6, <2>8 DEF Playing, Replaced
  <2>10. QED
    BY <2>2, <2>7, <2>8, <2>9 DEF GameInv
<1>9. CASE NotAtTop
  <2>1. /\ pc = "player" /\ query.entity # -1 /\ pc' = "move" /\ z' = z
        /\ UNCHANGED <<player_query, lane, hits, respawned>>
        /\ UNCHANGED <<entity_states, component_masks, query>>
    BY <1>9 DEF NotAtTop, vars, table, walk, game
  <2>2. GameTypes'
    BY <1>1, <2>1 DEF GameTypes
  <2>3. AtPlayer /\ Alone(query.entity) /\ respawned = FALSE
    BY <2>1 DEF GameInv
  <2>4. AtPlayer' /\ Playing(query.entity)' /\ respawned' # TRUE
    BY <2>1, <2>3 DEF AtPlayer, Playing, Alone
  <2>5. QED
    BY <2>1, <2>2, <2>4 DEF GameInv
<1>10. CASE Move
  <2>1. PICK step \in -MaxStep .. MaxStep : z' = [z EXCEPT ![query.entity] = @ + step]
    BY <1>10 DEF Move
  <2>2. /\ pc = "move" /\ QueryNext /\ pc' = "player"
        /\ UNCHANGED <<player_query, lane, hits, respawned>>
    BY <1>10 DEF Move, game
  <2>3. /\ AtPlayer /\ Playing(query.entity) /\ query.component_mask = {0}
        /\ respawned = TRUE => z[query.entity] < Top
    BY <2>2, GameSlots DEF GameInv, AtPlayer
  <2>4. PICK s \in Slot : s = query.entity
    BY <2>3 DEF AtPlayer
  <2>5. PICK i \in Slot \cup {-1} :
          IsNextMatch(i, s, {0}) /\ StopAt({0}, i, visited)
    BY <2>2, <2>3, <2>4 DEF QueryNext, Slot
  <2>6. s \in Int /\ Playing(s) /\ (Alone(s) \/ Replaced(s))
    BY <2>3, <2>4, SlotFacts DEF Playing, Alone, Replaced
  <2>7. i = -1
    BY <1>1, <2>5, <2>6, PlayerFound
  <2>8. /\ query' = [component_mask |-> {0}, entity |-> -1]
        /\ UNCHANGED <<entity_states, component_masks>>
    BY <2>5, <2>7 DEF StopAt, table
  <2>9. query' \in [component_mask : SUBSET Int, entity : Slot \cup {-1}] /\ query'.entity = -1
    BY <2>8
  <2>10. step \in -1 .. 1 /\ z[s] \in Int
    BY <1>1, <2>1 DEF ShortSteps, GameTypes
  <2>11. z' \in [Slot -> Int] /\ z'[s] = z[s] + step /\ \A n \in Slot \ {s} : z'[n] = z[n]
    BY <1>1, <2>1, <2>4, <2>10 DEF GameTypes
  <2>12. GameTypes'
    BY <1>1, <2>2, <2>8, <2>9, <2>11 DEF GameTypes
  <2>13. Playing(s)'
    <3>1. CASE Alone(s) /\ respawned = FALSE
      BY <2>2, <2>8, <3>1 DEF Playing, Alone
    <3>2. CASE Replaced(s) /\ respawned = TRUE
      <4>1. Replaced(s)'
        BY <2>8, <2>11, <3>2, GameSlots DEF Replaced
      <4>2. QED
        BY <2>2, <3>2, <4>1 DEF Playing
    <3>3. QED
      BY <2>6, <3>1, <3>2 DEF Playing
  <2>14. respawned' = TRUE => z'[s] < LaneZ[3] - 1
    BY <2>2, <2>3, <2>4, <2>10, <2>11, GameSlots
  <2>15. hits' = 0
    BY <2>2, <2>3 DEF AtPlayer
  <2>16. QED
    BY <2>2, <2>9, <2>12, <2>13, <2>14, <2>15 DEF GameInv
<1>11. CASE QueryPlayer
  <2>1. /\ pc = "player" /\ query.entity = -1 /\ pc' = "trucks" /\ lane' = 1
        /\ UNCHANGED <<entity_states, component_masks, query, z, hits, respawned>>
    BY <1>11 DEF QueryPlayer, vars, table, walk
  <2>2. PICK i \in Slot \cup {-1} : IsNextMatch(i, -1, {0}) /\ player_query' = i
    BY <1>11, GameSlots DEF QueryPlayer
  <2>3. PICK s \in Slot : Playing(s) /\ (respawned = TRUE => z[s] < LaneZ[3] - 1)
    BY <2>1 DEF GameInv
  <2>4. i = s
    BY <1>1, <2>2, <2>3, SlotFacts, PlayerFound DEF Playing
  <2>5. GameTypes'
    BY <1>1, <2>1, <2>2 DEF GameTypes
  <2>6. Playing(s)'
    BY <2>1, <2>3 DEF Playing, Alone, Replaced
  <2>7. Playing(player_query)'
    BY <2>2, <2>4, <2>6 DEF Playing, Alone, Replaced
  <2>8. player_query' \in Slot /\ (respawned' = TRUE => z'[player_query'] < LaneZ[3] - 1)
    BY <2>1, <2>2, <2>3, <2>4
  <2>9. QED
    BY <2>1, <2>5, <2>7, <2>8 DEF GameInv
<1>12. CASE TruckHits
  <2>1. /\ pc = "trucks" /\ lane <= 3 /\ hits < MaxHits /\ hits' = hits + 1 /\ respawned' = TRUE
        /\ pc' = "hit" /\ UNCHANGED <<z, player_query, lane>>
        /\ z[player_query] - LaneZ[lane] \in -1 .. 1
        /\ Remove(Player(player_query), FALSE)
    BY <1>12 DEF TruckHits, Touches
  <2>2. /\ player_query \in Slot /\ Playing(player_query) /\ query.entity = -1 /\ lane > 0
        /\ respawned = TRUE => hits > 0 \/ z[player_query] < LaneZ[3] - 1
    BY <2>1 DEF GameInv
  <2>3. PICK s \in Slot : s = player_query
    BY <2>2
  <2>4. lane \in 1 .. 3 /\ z[s] \in Int /\ hits \in Nat
    BY <1>1, <2>1, <2>2 DEF GameTypes
  <2>5. hits = 0
    BY <2>1, <2>4 DEF OneTruck
  <2>6. z[s] >= -5
    BY <2>1, <2>3, <2>4, GameSlots
  <2>7. Alone(s) /\ entity_states[s] \in {"active", "pending_remove"}
    BY <2>2, <2>3, <2>4, <2>5, <2>6, GameSlots DEF Playing, Alone
  <2>8. Remove(Player(s), FALSE)
    BY <2>1, <2>3 DEF Remove, Player
  <2>9. /\ entity_states' = [entity_states EXCEPT ![s] = "pending_remove"]
        /\ component_masks' = component_masks /\ query' = query
    BY <2>7, <2>8, GameRemoves
  <2>10. /\ entity_states' \in [Slot -> State] /\ component_masks' \in [Slot -> SUBSET Int]
         /\ \A i \in Slot : entity_states'[i] # "unused" => component_masks'[i] = PlayerMask
         /\ Leaving(s)'
    BY <1>1, <2>7, <2>9, GameRemoveKeeps
  <2>11. GameTypes'
    BY <1>1, <2>1, <2>4, <2>9, <2>10 DEF GameTypes
  <2>12. Leaving(player_query)' /\ player_query' \in Slot
    BY <2>1, <2>3, <2>10 DEF Leaving
  <2>13. QED
    BY <2>1, <2>2, <2>4, <2>9, <2>11, <2>12 DEF GameInv
<1>13. CASE RespawnHit
  <2>1. pc = "hit" /\ UNCHANGED <<player_query, lane, hits, respawned>>
    BY <1>13 DEF RespawnHit, game
  <2>2. PICK n \in Slot : /\ entity_states[n] = "unused"
                          /\ entity_states' = [entity_states EXCEPT ![n] = "pending_add"]
                          /\ component_masks' = [component_masks EXCEPT ![n] = {0}]
                          /\ z' = [z EXCEPT ![n] = 6]
                          /\ pc' = "trucks" /\ query' = query
    BY <1>13, GameSpawns DEF RespawnHit
  <2>3. /\ query.entity = -1 /\ player_query \in Slot /\ Leaving(player_query) /\ lane > 0
        /\ hits > 0 /\ respawned = TRUE
    BY <2>1 DEF GameInv
  <2>4. PICK s \in Slot : s = player_query
    BY <2>3
  <2>5. Leaving(s)
    BY <2>3, <2>4 DEF Leaving
  <2>6. /\ entity_states' \in [Slot -> State] /\ component_masks' \in [Slot -> SUBSET Int]
        /\ z' \in [Slot -> Int]
        /\ \A i \in Slot : entity_states'[i] # "unused" => component_masks'[i] = PlayerMask
        /\ Replaced(s)' /\ z'[s] = z[s]
    BY <1>1, <2>2, <2>5, GameSpawnKeeps
  <2>7. GameTypes'
    BY <1>1, <2>1, <2>2, <2>6 DEF GameTypes
  <2>8. Playing(player_query)'
    BY <2>1, <2>3, <2>4, <2>6 DEF Playing, Replaced
  <2>9. QED
    BY <2>1, <2>2, <2>3, <2>7, <2>8 DEF GameInv
<1>14. CASE NextLane
  <2>1. /\ pc = "trucks" /\ lane <= 3 /\ lane' = lane + 1 /\ pc' = pc /\ z' = z
        /\ UNCHANGED <<entity_states, component_masks, query>>
        /\ UNCHANGED <<player_query, hits, respawned>>
    BY <1>14 DEF NextLane, vars, table, walk
  <2>2. GameTypes' /\ lane' > 0
    BY <1>1, <2>1 DEF GameTypes
  <2>3. Playing(player_query)'
    BY <2>1 DEF GameInv, Playing, Alone, Replaced
  <2>4. QED
    BY <2>1, <2>2, <2>3 DEF GameInv
<1>15. CASE Draw
  <2>1. /\ pc = "trucks" /\ pc' = "frame" /\ lane' = 0 /\ player_query' = -1 /\ z' = z
        /\ UNCHANGED <<entity_states, component_masks, query, hits, respawned>>
    BY <1>15 DEF Draw, vars, table, walk
  <2>2. GameTypes'
    BY <1>1, <2>1 DEF GameTypes
  <2>3. player_query \in Slot /\ Playing(player_query) /\ query.entity = -1
    BY <2>1 DEF GameInv
  <2>4. \E s \in Slot : Survives(s) /\ (respawned = TRUE => z[s] = Start)
    <3>1. CASE respawned = FALSE /\ Alone(player_query)
      <4>1. Survives(player_query)
        BY <3>1 DEF Survives, Alone
      <4>2. QED
        BY <2>3, <3>1, <4>1
    <3>2. CASE respawned = TRUE /\ Replaced(player_query)
      <4>1. PICK n \in Slot \ {player_query} :
              /\ entity_states[n] = "pending_add" /\ z[n] = Start
              /\ \A i \in Slot \ {player_query, n} : entity_states[i] = "unused"
        BY <3>2 DEF Replaced
      <4>2. Survives(n)
        BY <2>3, <3>2, <4>1 DEF Survives, Replaced
      <4>3. QED
        BY <4>1, <4>2
    <3>3. QED
      BY <2>3, <3>1, <3>2 DEF Playing
  <2>5. \E s \in Slot : Survives(s)' /\ (respawned' = TRUE => z'[s] = Start)
    BY <2>1, <2>4 DEF Survives
  <2>6. QED
    BY <2>1, <2>2, <2>3, <2>5 DEF GameInv
<1>16. CASE UNCHANGED gamevars
  <2>1. UNCHANGED <<entity_states, component_masks, query, z, pc, player_query, lane, hits,
                    respawned>>
    BY <1>16 DEF gamevars, vars, table, walk, game
  <2>2. GameTypes' /\ (AtPlayer => AtPlayer')
    BY <1>1, <2>1 DEF GameTypes, AtPlayer
  <2>3. \A s : (Alone(s) <=> Alone(s)') /\ (Leaving(s) <=> Leaving(s)')
    BY <2>1 DEF Alone, Leaving
  <2>4. \A s : (Playing(s) <=> Playing(s)') /\ (Survives(s) <=> Survives(s)')
    BY <2>1 DEF Playing, Alone, Replaced, Survives
  <2>5. QED
    BY <2>1, <2>2, <2>3, <2>4 DEF GameInv
<1>17. QED
  BY <1>3, <1>4, <1>5, <1>6, <1>7, <1>8, <1>9, <1>10, <1>11, <1>12, <1>13, <1>14, <1>15, <1>16
  DEF GameNext, Over

(* Between two frames there is one player, and traffic is tested against   *)
(* it, if at most one truck touches it in a frame and a frame does not     *)
(* bring it from the top back into a lane: what ReachesTop has replaced is *)
(* still what update_trucks finds, and a truck would replace it again.     *)
THEOREM AlwaysOnePlayer == ShortSteps /\ OneTruck => (GameSpec => []OnePlayer)
<1> SUFFICES ASSUME ShortSteps, OneTruck PROVE GameSpec => []OnePlayer
  OBVIOUS
<1>1. GameInv => OnePlayer
  <2> SUFFICES ASSUME GameInv PROVE OnePlayer
    OBVIOUS
  <2>1. ASSUME pc = "players" PROVE Cardinality(Active) = 1
    <3>1. PICK s \in Slot : Alone(s)
      BY <2>1 DEF GameInv
    <3>2. Active = {s}
      BY <3>1, GameSlots DEF Active, Alone
    <3>3. QED
      BY <3>2, FS_Singleton
  <2>2. ASSUME pc \in {"trucks", "hit"}
        PROVE  player_query # -1 /\ Active \subseteq {player_query}
    <3>1. player_query \in Slot /\ (Playing(player_query) \/ Leaving(player_query))
      BY <2>2 DEF GameInv
    <3>2. \A s \in Slot : entity_states[s] = "active" => s = player_query
      BY <3>1 DEF Playing, Alone, Replaced, Leaving
    <3>3. QED
      BY <3>1, <3>2, SlotFacts, GameSlots DEF Active
  <2>3. pc = "players" => Cardinality(Active) = 1
    BY <2>1
  <2>4. pc \in {"trucks", "hit"} => player_query # -1 /\ Active \subseteq {player_query}
    BY <2>2
  <2>5. QED
    BY <2>3, <2>4, Zenon DEF OnePlayer
<1>2. GameInv /\ [GameNext]_gamevars => GameInv'
  BY GameInvStep
<1>3. QED
  BY <1>1, <1>2, GameInitInv, PTL DEF GameSpec

(* A player that was removed in a frame, at the top or by traffic, is at   *)
(* the bottom in the next, whichever slot its successor has got.           *)
THEOREM AlwaysRespawnsAtStart == ShortSteps /\ OneTruck => (GameSpec => []RespawnsAtStart)
<1> SUFFICES ASSUME ShortSteps, OneTruck PROVE GameSpec => []RespawnsAtStart
  OBVIOUS
<1>1. GameInv => RespawnsAtStart
  <2> SUFFICES ASSUME GameInv, pc = "players", respawned, NEW s \in Active
               PROVE  z[s] = Start
    BY DEF RespawnsAtStart
  <2>1. respawned = TRUE
    BY DEF GameInv, GameTypes
  <2>2. PICK t \in Slot : Alone(t) /\ z[t] = Start
    BY <2>1 DEF GameInv
  <2>3. s \in Slot /\ entity_states[s] = "active"
    BY GameSlots DEF Active
  <2>4. s = t
    BY <2>2, <2>3 DEF Alone
  <2>5. QED
    BY <2>2, <2>4
<1>2. GameInv /\ [GameNext]_gamevars => GameInv'
  BY GameInvStep
<1>3. QED
  BY <1>1, <1>2, GameInitInv, PTL DEF GameSpec
=============================================================================
