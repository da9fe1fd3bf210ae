---------------------------- MODULE NetReplication ----------------------------
(***************************************************************************)
(* net.c: replication of entities between two connected hosts over UDP.    *)
(* In every update a host snapshots the entities it has registered and     *)
(* sends its peer what differs from the last snapshot the peer has         *)
(* acknowledged.  The peer keeps a ghost of each entity it is told of.     *)
(*                                                                         *)
(* The network is the set of all packets ever sent: one may arrive late,   *)
(* repeatedly, out of order or never.  The receive thread, the send thread *)
(* and their queues only add to delay, loss and reordering, and so are     *)
(* part of it.  An entity has one replicated component, and a snapshot     *)
(* always fits its buffer.  Of a timeout this module has what it does to   *)
(* the acknowledgements and the ghosts; its threads and queues are in      *)
(* NetConnections.                                                         *)
(***************************************************************************)
EXTENDS Integers, Sequences, FiniteSets

CONSTANTS Host,
          Peer,           \* the other end of each host's connection
          Author,         \* hosts whose game registers entities
          Forgetful,      \* hosts that may time their peer out
          Value,          \* of the replicated component
          NextValues,     \* per value, those the game may replace it with
          FirstValue,
          SnapshotCount,  \* k_max_snapshots (256 in the code)
          MaxEntities,    \* k_max_entities (32 in the code)
          AnyOrder,       \* the game removes entities in any order
          MaxAlive,       \* bound: entities a game has at a time
          MaxSpawns,      \* bound: entities a game spawns
          MaxSequence     \* bound: updates of each host

ASSUME HostAssumption == /\ Author \subseteq Host /\ Forgetful \subseteq Host
                         /\ Peer \in [Host -> Host]
ASSUME ValueAssumption == /\ Value \subseteq Nat /\ FirstValue \in Value
                          /\ NextValues \in [Value -> SUBSET Value]
ASSUME SizeAssumption == /\ SnapshotCount \in Nat \ {0}
                         /\ MaxEntities \in Nat \ {0}
                         /\ AnyOrder \in BOOLEAN
ASSUME BoundAssumption == MaxAlive \in Nat /\ MaxSpawns \in Nat /\ MaxSequence \in [Host -> Nat]

Position == 0 .. MaxEntities - 1
Unset == -1  \* whatever the memory of the slot last held

VARIABLES phase,              \* "game", or "recv": in the packet_recv of net_update
          sequence,           \* net->sequence
          entities,           \* net->entities, with what the ecs holds for each
          spawned,            \* how many entities the game has spawned
          snapshots,          \* net->snapshots
          incoming_sequence, ack_sequence,  \* of the connection
          ghosts,             \* connection->entities, with what the ecs holds for each
          orphans,            \* ghosts that found no room in connection->entities
          packets,            \* every packet sent
          taken               \* history: the data of every snapshot

connection == <<incoming_sequence, ack_sequence, ghosts, orphans>>
authored == <<entities, spawned>>
vars == <<phase, sequence, authored, snapshots, connection, packets, taken>>

(* state: of the ecs entity behind ref ("gone": ref is not valid). *)
NoEntity == [sequence |-> 0, state |-> "gone", value |-> Unset]
NoGhost == [remote_sequence |-> 0, state |-> "gone", value |-> Unset, last_recved_sequence |-> 0]

Init == /\ phase = [h \in Host |-> "game"]
        /\ sequence = [h \in Host |-> 0]
        /\ entities = [h \in Host |-> [i \in Position |-> NoEntity]]
        /\ spawned = [h \in Host |-> 0]
        /\ snapshots = [h \in Host |-> [i \in 0 .. SnapshotCount - 1 |->
                                          [sequence |-> 0, data |-> <<>>]]]
        /\ incoming_sequence = [h \in Host |-> -1]
        /\ ack_sequence = [h \in Host |-> -1]
        /\ ghosts = [h \in Host |-> [i \in Position |-> NoGhost]]
        /\ orphans = [h \in Host |-> {}]
        /\ packets = {}
        /\ taken = [h \in Host |-> <<>>]

FirstOf(positions) == CHOOSE i \in positions : \A j \in positions : i <= j

-----------------------------------------------------------------------------
(* What the game does between two updates. *)

Valid(table) == {i \in Position : table[i].state # "gone"}

(* net_state_register_entity_instance, on an entity just spawned. *)
Spawn(h) ==
  LET vacant == Position \ Valid(entities[h])
  IN  /\ h \in Author /\ phase[h] = "game"
      /\ spawned[h] < MaxSpawns /\ Cardinality(Valid(entities[h])) < MaxAlive
      /\ vacant # {}
      /\ spawned' = [spawned EXCEPT ![h] = @ + 1]
      /\ entities' = [entities EXCEPT ![h][FirstOf(vacant)] =
                        [sequence |-> spawned'[h], state |-> "live", value |-> FirstValue]]
      /\ UNCHANGED <<phase, sequence, snapshots, connection, packets, taken>>

Change(h, i, v) ==
  /\ phase[h] = "game"
  /\ entities[h][i].state = "live" /\ v \in NextValues[entities[h][i].value]
  /\ entities' = [entities EXCEPT ![h][i].value = v]
  /\ UNCHANGED <<phase, sequence, spawned, snapshots, connection, packets, taken>>

Remove(h, i) ==
  /\ phase[h] = "game"
  /\ entities[h][i].state = "live"
  /\ AnyOrder \/ \A j \in Valid(entities[h]) : j <= i
  /\ entities' = [entities EXCEPT ![h][i].state = "removed"]
  /\ UNCHANGED <<phase, sequence, spawned, snapshots, connection, packets, taken>>

-----------------------------------------------------------------------------
Live(table) == {i \in Position : table[i].state = "live"}

(* timeout_old_connections, whenever nothing came for long enough; the     *)
(* next packet makes a new connection of the slot.  What is sent or comes  *)
(* in between is lost.  The entities the ghosts stood for stay in the ecs. *)
Forget(h) ==
  /\ h \in Forgetful /\ phase[h] = "game"
  /\ incoming_sequence' = [incoming_sequence EXCEPT ![h] = -1]
  /\ ack_sequence' = [ack_sequence EXCEPT ![h] = -1]
  /\ ghosts' = [ghosts EXCEPT ![h] = [i \in Position |-> NoGhost]]
  /\ orphans' = [orphans EXCEPT ![h] =
                    @ \cup {ghosts[h][i].remote_sequence : i \in Live(ghosts[h])}]
  /\ UNCHANGED <<phase, sequence, authored, snapshots, packets, taken>>

(* ecs_update: entities that were removed are gone. *)
Settled(table) ==
  [i \in Position |-> IF table[i].state = "removed" THEN [table[i] EXCEPT !.state = "gone"]
                      ELSE table[i]]

(* snapshot_entities: up to the first entity that is not valid. *)
Data(table) ==
  LET seen == {i \in Position : 0 .. i \subseteq Valid(table)}
  IN  [i \in 1 .. Cardinality(seen) |->
         [sequence |-> table[i - 1].sequence, value |-> table[i - 1].value]]

(* Faulty variant: a slot is taken for the snapshot it was last used for. *)
BaselineUnchecked(ring, ack) == ring[ack % SnapshotCount].data

(* The snapshot the peer acknowledged, unless its slot has been reused.    *)
(* -1 is converted to an unsigned number and names the last slot.          *)
Baseline(ring, ack) ==
  LET slot == ring[ack % SnapshotCount]
  IN  IF slot.sequence = ack THEN slot.data ELSE <<>>

(* packet_add_entities: both snapshots are walked in step; the baseline    *)
(* moves on only past an entity that is also in the current one.           *)
Delta(cur, ack) ==
  LET passed[i \in 0 .. Len(cur)] ==
        IF i = 0 THEN 0
        ELSE IF passed[i - 1] < Len(ack) /\ ack[passed[i - 1] + 1].sequence = cur[i].sequence
               THEN passed[i - 1] + 1
               ELSE passed[i - 1]
      same(i) == passed[i] > passed[i - 1] /\ ack[passed[i]].value = cur[i].value
  IN  [i \in 1 .. Len(cur) |-> [sequence |-> cur[i].sequence, diff |-> ~same(i),
                                value |-> IF same(i) THEN Unset ELSE cur[i].value]]

(* The frame's ecs_update, then net_update up to packet_recv. *)
Update(h) ==
  /\ phase[h] = "game" /\ sequence[h] < MaxSequence[h]
  /\ entities' = [entities EXCEPT ![h] = Settled(@)]
  /\ ghosts' = [ghosts EXCEPT ![h] = Settled(@)]
  /\ LET data == Data(entities'[h])
     IN  /\ snapshots' = [snapshots EXCEPT ![h][sequence[h] % SnapshotCount] =
                            [sequence |-> sequence[h], data |-> data]]
         /\ taken' = [taken EXCEPT ![h] = Append(@, data)]
         /\ packets' = packets \cup
              {[to |-> Peer[h], sequence |-> sequence[h], ack_sequence |-> incoming_sequence[h],
                body |-> Delta(data, Baseline(snapshots'[h], ack_sequence[h]))]}
  /\ phase' = [phase EXCEPT ![h] = "recv"]
  /\ UNCHANGED <<sequence, spawned, incoming_sequence, ack_sequence, orphans>>

(* One entity of a packet, read in update number now. *)
ReadEntity(state, entity, now) ==
  LET table == state.ghosts
      known == {i \in Position : table[i].remote_sequence = entity.sequence}
      i == FirstOf(known)
      marked == IF known = {} THEN table ELSE [table EXCEPT ![i].last_recved_sequence = now]
      vacant == Position \ Valid(table)
      ghost == [remote_sequence |-> entity.sequence, state |-> "live",
                value |-> entity.value, last_recved_sequence |-> now]
  IN  IF known # {} /\ table[i].state # "gone"
        THEN [state EXCEPT !.ghosts = IF entity.diff
                                        THEN [marked EXCEPT ![i].value = entity.value]
                                        ELSE marked]
        ELSE IF vacant # {}
        THEN [state EXCEPT !.ghosts = [marked EXCEPT ![FirstOf(vacant)] = ghost]]
        ELSE [ghosts |-> marked, orphans |-> state.orphans \cup {entity.sequence}]

(* Faulty variant: an entity the snapshot does not show is kept. *)
SweptNothing(table, now) == table

(* "Remove entities that we didn't see in the snapshot!" *)
Swept(table, now) ==
  [i \in Position |->
     IF table[i].state # "gone" /\ table[i].last_recved_sequence # now
       THEN [table[i] EXCEPT !.state = "removed"]
       ELSE table[i]]

(* packet_read_entities *)
Read(state, body, now) ==
  LET read[i \in 0 .. Len(body)] ==
        IF i = 0 THEN state ELSE ReadEntity(read[i - 1], body[i], now)
  IN  [read[Len(body)] EXCEPT !.ghosts = Swept(@, now)]

(* Faulty variant: a packet is taken whatever came before it. *)
IsNewAlways(p, incoming) == p.sequence # incoming

IsNew(p, incoming) == p.sequence > incoming

(* packet_recv pops a packet; one that is not new is skipped. *)
Receive(h, p) ==
  /\ phase[h] = "recv"
  /\ p.to = h /\ IsNew(p, incoming_sequence[h])
  /\ incoming_sequence' = [incoming_sequence EXCEPT ![h] = p.sequence]
  /\ ack_sequence' = [ack_sequence EXCEPT ![h] = p.ack_sequence]
  /\ LET read == Read([ghosts |-> ghosts[h], orphans |-> orphans[h]], p.body, sequence[h])
     IN  /\ ghosts' = [ghosts EXCEPT ![h] = read.ghosts]
         /\ orphans' = [orphans EXCEPT ![h] = read.orphans]
  /\ UNCHANGED <<phase, sequence, authored, snapshots, packets, taken>>

(* The receive queue is empty: net_update returns. *)
Return(h) ==
  /\ phase[h] = "recv"
  /\ sequence' = [sequence EXCEPT ![h] = @ + 1]
  /\ phase' = [phase EXCEPT ![h] = "game"]
  /\ UNCHANGED <<authored, snapshots, connection, packets, taken>>

Next == \E h \in Host :
          \/ Spawn(h)
          \/ \E i \in Position, v \in Value : Change(h, i, v)
          \/ \E i \in Position : Remove(h, i)
          \/ Forget(h)
          \/ Update(h)
          \/ \E p \in packets : Receive(h, p)
          \/ Return(h)

Spec == Init /\ [][Next]_vars

-----------------------------------------------------------------------------
(* The snapshot a host has seen last. *)
Seen(h) == taken[Peer[h]][incoming_sequence[h] + 1]
SeenIds(h) == {Seen(h)[i].sequence : i \in DOMAIN Seen(h)}

(* A host that has applied a packet shows every entity of the snapshot it  *)
(* was made from, once, and with the value it had in it, whatever was lost *)
(* before and however old the acknowledgement it is a difference to        *)
(* (packet_add_entities against packet_read_entities).  With no more       *)
(* changes the replica is then equal: the eventual consistency that        *)
(* homework5.md asks for.                                                  *)
ReplicaMatches ==
  \A h \in Host :
    incoming_sequence[h] >= 0 =>
      \A n \in DOMAIN Seen(h) :
        LET shown == {i \in Position : /\ ghosts[h][i].state = "live"
                                       /\ ghosts[h][i].remote_sequence = Seen(h)[n].sequence}
        IN  /\ Cardinality(shown) = 1
            /\ \A i \in shown : ghosts[h][i].value = Seen(h)[n].value

Shown(h) == {ghosts[h][i].remote_sequence : i \in Live(ghosts[h])} \cup orphans[h]

(* The first packet an update applies removes the ghosts of everything     *)
(* that is not in its snapshot ("Remove entities that we didn't see in the *)
(* snapshot!"); only what an earlier packet of the same update showed      *)
(* stays on until the next.                                                *)
GhostsDisappear ==
  [][\A h \in Host :
       /\ incoming_sequence'[h] \notin {incoming_sequence[h], -1}
       /\ \A i \in Live(ghosts[h]) : ghosts[h][i].last_recved_sequence # sequence[h]
       => Shown(h)' \subseteq SeenIds(h)']_vars

(* A ghost never goes back to an earlier version of its entity, although   *)
(* packets overtake one another and are repeated.  (The game's values grow *)
(* in the run that checks this.)                                           *)
VersionsForward ==
  [][\A h \in Host, i \in Position :
       LET before == ghosts[h][i]
           after == ghosts'[h][i]
       IN  before.state # "gone" /\ after.remote_sequence = before.remote_sequence
             => after.value >= before.value]_vars
=============================================================================
