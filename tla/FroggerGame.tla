----------------------------- MODULE FroggerGame -----------------------------
(***************************************************************************)
(* frogger_game.c: the player and the traffic, on top of the entities of   *)
(* Ecs.  A frame updates the entities, moves the players, or respawns the  *)
(* ones that are past the top, and then tests the trucks of three lanes    *)
(* against the player that its query finds first.  To respawn is to remove *)
(* an entity and to add another, both of which take effect with the next   *)
(* ecs_update.                                                             *)
(*                                                                         *)
(* Players are the entities modelled; positions are z in steps of 2, the   *)
(* players' and the lanes' half width and a lane's clearance.  Where the   *)
(* trucks of a lane are is left open: any may touch a player in its lane.  *)
(***************************************************************************)
EXTENDS Ecs

CONSTANTS Bottom,      \* how far down the player walks
          MaxStep,     \* how far a player moves in one frame
          MaxHits      \* trucks that touch a player in one frame

VARIABLES z,           \* per slot: transform.translation.z
          pc,          \* where frogger_game_update is
          player_query,\* the slot update_trucks tests, or -1
          lane,        \* the lane it is at
          hits,        \* trucks that have touched the player in this frame
          respawned    \* history: a player was removed in this frame

game == <<player_query, lane, hits, respawned>>
gamevars == <<vars, z, pc, game>>

player_type == 0
PlayerMask == {player_type}
Player(s) == [entity |-> s, sequence |-> sequences[s]]

Start == 6                 \* 12.0f
Top == -6                  \* -12.0f
LaneZ == <<4, 0, -4>>      \* 8.0f, 0.0f, -8.0f
Position == Top - MaxStep .. Bottom

ASSUME GameAssumption == /\ MaxComponentTypes > player_type
                         /\ MaxStep \in Nat /\ MaxHits \in Nat
                         /\ Bottom \in Nat /\ Bottom >= Start

GameInit ==
  /\ Init
  /\ z = [s \in Slot |-> Start]
  /\ pc = "create"
  /\ player_query = -1 /\ lane = 0 /\ hits = 0 /\ respawned = FALSE

(* Faulty variant: the position goes to the player there was before. *)
SpawnMisplaced(next) ==
  /\ \E s \in Slot : Add(s, PlayerMask)
  /\ z' = [z EXCEPT ![IF player_query = -1 THEN 0 ELSE player_query] = Start]
  /\ pc' = next

spawn_player(next) ==
  /\ \E s \in Slot : Add(s, PlayerMask) /\ z' = [z EXCEPT ![s] = Start]
  /\ pc' = next

(* The components are registered, and the first player spawned. *)
Register ==
  /\ pc = "create" /\ registered = 0
  /\ RegisterComponentType
  /\ UNCHANGED <<z, pc, game>>

Create ==
  /\ pc = "create" /\ registered > 0
  /\ spawn_player("frame")
  /\ UNCHANGED game

(* ecs_update; the run is over when a frame might spawn more than MaxAdds. *)
BeginFrame ==
  /\ pc = "frame"
  /\ global_sequence + MaxHits + 2 <= MaxAdds + 1
  /\ Update
  /\ pc' = "players"
  /\ hits' = 0
  /\ UNCHANGED <<z, player_query, lane, respawned>>

-----------------------------------------------------------------------------
(* update_players. *)

QueryPlayers ==
  /\ pc = "players"
  /\ QueryCreate(PlayerMask)
  /\ pc' = "player"
  /\ respawned' = FALSE
  /\ UNCHANGED <<z, player_query, lane, hits>>

(* Faulty variant: the top begins in the last lane. *)
PastTopWide(s) == z[s] < LaneZ[3]
PastTop(s) == z[s] < Top

ReachesTop ==
  /\ pc = "player" /\ query.entity # -1
  /\ PastTop(query.entity)
  /\ Remove(Player(query.entity), FALSE)
  /\ pc' = "respawn"
  /\ respawned' = TRUE
  /\ UNCHANGED <<z, player_query, lane, hits>>

RespawnAtTop ==
  /\ pc = "respawn"
  /\ spawn_player("move")
  /\ UNCHANGED game

NotAtTop ==
  /\ pc = "player" /\ query.entity # -1
  /\ ~PastTop(query.entity)
  /\ pc' = "move"
  /\ UNCHANGED <<vars, z, game>>

(* The player the query is at moves, even when it was just removed: up,    *)
(* down or, with both keys, neither or a paused timer, not at all.         *)
Move ==
  /\ pc = "move"
  /\ \E step \in -MaxStep .. MaxStep :
       /\ z[query.entity] + step \in Position
       /\ z' = [z EXCEPT ![query.entity] = @ + step]
  /\ QueryNext
  /\ pc' = "player"
  /\ UNCHANGED game

-----------------------------------------------------------------------------
(* update_trucks. *)

(* The player to test against is the first that a query finds. *)
QueryPlayer ==
  /\ pc = "player" /\ query.entity = -1
  /\ \E s \in Slot \cup {-1} : IsNextMatch(s, -1, PlayerMask) /\ player_query' = s
  /\ lane' = 1
  /\ pc' = "trucks"
  /\ UNCHANGED <<vars, z, hits, respawned>>

(* TestAABBCollision, as far as the lane goes: edges that meet do touch.   *)
Touches(s, l) == z[s] - LaneZ[l] \in -1 .. 1

TruckHits ==
  /\ pc = "trucks" /\ lane <= 3
  /\ Touches(player_query, lane) /\ hits < MaxHits
  /\ hits' = hits + 1
  /\ Remove(Player(player_query), FALSE)
  /\ respawned' = TRUE
  /\ pc' = "hit"
  /\ UNCHANGED <<z, player_query, lane>>

RespawnHit ==
  /\ pc = "hit"
  /\ spawn_player("trucks")
  /\ UNCHANGED game

NextLane ==
  /\ pc = "trucks" /\ lane <= 3
  /\ lane' = lane + 1
  /\ UNCHANGED <<vars, z, pc, player_query, hits, respawned>>

(* draw_models and render_push_done leave the game as it is. *)
Draw ==
  /\ pc = "trucks" /\ lane = 4
  /\ pc' = "frame"
  /\ lane' = 0 /\ player_query' = -1
  /\ UNCHANGED <<vars, z, hits, respawned>>

Over == /\ pc = "frame" /\ global_sequence + MaxHits + 2 > MaxAdds + 1
        /\ UNCHANGED gamevars

GameNext ==
  \/ Register \/ Create \/ BeginFrame
  \/ QueryPlayers \/ ReachesTop \/ RespawnAtTop \/ NotAtTop \/ Move
  \/ QueryPlayer \/ TruckHits \/ RespawnHit \/ NextLane \/ Draw
  \/ Over

GameSpec == GameInit /\ [][GameNext]_gamevars

-----------------------------------------------------------------------------
Active == {s \in Slot : entity_states[s] = "active"}

(* Between two frames there is one player: none is lost when it is removed *)
(* and none is spawned for it twice, at the top and by traffic.  So the    *)
(* one that traffic is tested against is the one on the screen, and the    *)
(* query for it, whose result is used untested, always finds one.          *)
OnePlayer ==
  /\ pc = "players" => Cardinality(Active) = 1
  /\ pc \in {"trucks", "hit"} => player_query # -1 /\ Active \subseteq {player_query}

(* "If the player succesfully reaches the top of the screen, they are      *)
(* respawned at the bottom.  If the player touches traffic, they are       *)
(* respawned at the bottom of the screen." (homework4.md:10-11), in the    *)
(* next frame, whichever slot the new player has got.                      *)
RespawnsAtStart ==
  pc = "players" /\ respawned => \A s \in Active : z[s] = Start
===============================================================================
