---------------------------- MODULE NetConnections ----------------------------
(***************************************************************************)
(* net.c: the connections of one host and the threads that share them.     *)
(* The main thread walks the table in net_update and clears it in          *)
(* net_destroy; the receive thread looks up, or makes, the connection of   *)
(* each packet; every connection has a thread that sends what its          *)
(* send_queue holds.  The table is guarded by connections_mutex, but       *)
(* net_update reads it without, and the receive thread goes on using a     *)
(* connection after it let go of the mutex.                                *)
(*                                                                         *)
(* What a packet says is left to NetReplication: here a packet is the      *)
(* address it came from.  A use of a NULL queue ends the program; a use of *)
(* a destroyed one ends it or has no effect.                               *)
(***************************************************************************)
EXTENDS Integers, Sequences, FiniteSets

CONSTANTS Peer,           \* addresses that packets come from
          Server,         \* the peer that simple_game connects to
          NoPeer,         \* port 0
          Slots,          \* _countof(net->connections)
          QueueCapacity,  \* 3, the capacity of every queue
          Timeout,        \* k_timeout_ms, in ticks of the model's clock
          ClockRange,     \* values of the millisecond clock (2^32)
          SendResults,    \* what sendto may report: {TRUE}, or BOOLEAN
          MaxPackets,     \* bound: packets that arrive over a run
          MaxUpdates      \* bound: calls of net_update over a run

ASSUME PeerAssumption == NoPeer \notin Peer /\ Server \in Peer
ASSUME SizesAssumption == /\ Slots \in Nat \ {0}
                          /\ QueueCapacity \in Nat \ {0}
                          /\ ClockRange \in Nat \ {0}
                          /\ Timeout \in 0 .. ClockRange - 1
ASSUME SendAssumption == SendResults \subseteq BOOLEAN /\ SendResults # {}
ASSUME BoundsAssumption == MaxPackets \in Nat /\ MaxUpdates \in Nat

VARIABLES address,      \* per slot of net->connections
          queues,       \* per slot: the connection whose queues it points to
          last_recv,    \* per slot: last_recv_ms
          connections,  \* every connection made: its two queues, its thread
          mutex,        \* who holds connections_mutex
          main,         \* the main thread: where it is
          recv,         \* the receive thread: where it is, with which packet
          now,          \* the millisecond clock
          socket,       \* whether net->sock is open
          crashed,
          packets,      \* counters, for the bounds
          updates

table == <<address, queues, last_recv>>
counters == <<packets, updates>>
vars == <<table, connections, mutex, main, recv, now, socket, crashed, counters>>

Slot == 1 .. Slots
Null == 0
NoOne == "no one"
Connection == DOMAIN connections

Main(pc, slot) == [main EXCEPT !.pc = pc, !.slot = slot]
HasRoom(queue) == Len(queue) < QueueCapacity

Init == /\ address = [s \in Slot |-> NoPeer]
        /\ queues = [s \in Slot |-> Null]
        /\ last_recv = [s \in Slot |-> 0]
        /\ connections = <<>>
        /\ mutex = NoOne
        /\ main = [pc |-> "start", slot |-> 0, address |-> NoPeer, now |-> 0]
        /\ recv = [pc |-> "recvfrom", slot |-> 0, address |-> NoPeer, queues |-> Null]
        /\ now = 0
        /\ socket = TRUE
        /\ crashed = FALSE
        /\ packets = 0
        /\ updates = 0

-----------------------------------------------------------------------------
(* find_or_create_connection, called by both threads. *)

(* Faulty variant: the search ends at the first free slot. *)
FoundBeforeFree(peer) ==
  {s \in Slot : address[s] = peer /\ \A t \in 1 .. s - 1 : address[t] # NoPeer}

(* Faulty variant: the port is left out, and the peers share a machine.    *)
FoundByHost(peer) == {s \in Slot : address[s] # NoPeer}
Found(peer) == {s \in Slot : address[s] = peer}
Free == {s \in Slot : address[s] = NoPeer}
IsFirst(s, set) == s \in set /\ \A t \in set : s <= t

CanLock == mutex = NoOne

(* The slot is taken: its address is there for net_update to see before    *)
(* its queues are.                                                         *)
ClaimSlot(s, peer) ==
  /\ address' = [address EXCEPT ![s] = peer]
  /\ last_recv' = [last_recv EXCEPT ![s] = now]
  /\ UNCHANGED <<queues, connections>>

(* queue_create twice, thread_create, mutex_unlock. *)
MakeQueues(s) ==
  /\ connections' = Append(connections, [address |-> address[s], alive |-> TRUE,
                                         send |-> <<>>, recv |-> <<>>, sender |-> "pop"])
  /\ queues' = [queues EXCEPT ![s] = Len(connections) + 1]
  /\ mutex' = NoOne
  /\ UNCHANGED <<address, last_recv>>

-----------------------------------------------------------------------------
(* The receive thread. *)

Recv(pc, slot) == [recv EXCEPT !.pc = pc, !.slot = slot]
RecvReady == [pc |-> "recvfrom", slot |-> 0, address |-> NoPeer, queues |-> Null]

RecvFrom(peer) ==
  /\ recv.pc = "recvfrom" /\ socket
  /\ packets < MaxPackets
  /\ packets' = packets + 1
  /\ recv' = [RecvReady EXCEPT !.pc = "find", !.address = peer]
  /\ UNCHANGED <<table, connections, mutex, main, now, socket, crashed, updates>>

(* recvfrom fails: the socket is closed, or a host it sent to refused it.  *)
RecvFails ==
  /\ recv.pc = "recvfrom"
  /\ recv' = [RecvReady EXCEPT !.pc = "exited"]
  /\ UNCHANGED <<table, connections, mutex, main, now, socket, crashed, counters>>

RecvClosed == ~socket /\ RecvFails

RecvFinds ==
  /\ recv.pc = "find" /\ CanLock
  /\ \E s \in Slot : IsFirst(s, Found(recv.address)) /\ recv' = Recv("stamp", s)
  /\ UNCHANGED <<table, connections, mutex, main, now, socket, crashed, counters>>

(* Too many connections: the packet is dropped. *)
RecvTooMany ==
  /\ recv.pc = "find" /\ CanLock
  /\ Found(recv.address) = {} /\ Free = {}
  /\ recv' = RecvReady
  /\ UNCHANGED <<table, connections, mutex, main, now, socket, crashed, counters>>

RecvFindsNone ==
  /\ recv.pc = "find" /\ CanLock
  /\ Found(recv.address) = {}
  /\ \E s \in Slot : IsFirst(s, Free) /\ recv' = Recv("claim", s)
  /\ mutex' = "recv"
  /\ UNCHANGED <<table, connections, main, now, socket, crashed, counters>>

RecvClaims ==
  /\ recv.pc = "claim"
  /\ ClaimSlot(recv.slot, recv.address)
  /\ recv' = [recv EXCEPT !.pc = "create"]
  /\ UNCHANGED <<mutex, main, now, socket, crashed, counters>>

RecvCreates ==
  /\ recv.pc = "create"
  /\ MakeQueues(recv.slot)
  /\ recv' = [recv EXCEPT !.pc = "stamp"]
  /\ UNCHANGED <<main, now, socket, crashed, counters>>

(* last_recv_ms is written and recv_queue is read in whatever the slot is  *)
(* by now: the mutex is no longer held.                                    *)
RecvStamps ==
  /\ recv.pc = "stamp"
  /\ last_recv' = [last_recv EXCEPT ![recv.slot] = now]
  /\ recv' = [recv EXCEPT !.pc = "push", !.queues = queues[recv.slot]]
  /\ crashed' = (queues[recv.slot] = Null)
  /\ UNCHANGED <<address, queues, connections, mutex, main, now, socket, counters>>

(* queue_try_push: a full queue drops the packet. *)
RecvPushes ==
  LET k == recv.queues
  IN  /\ recv.pc = "push" /\ connections[k].alive
      /\ connections' = IF HasRoom(connections[k].recv)
                          THEN [connections EXCEPT ![k].recv = Append(@, recv.address)]
                          ELSE connections
      /\ recv' = RecvReady
      /\ UNCHANGED <<table, mutex, main, now, socket, crashed, counters>>

(* The queue was destroyed since its address was read. *)
RecvPushesFreed ==
  /\ recv.pc = "push" /\ ~connections[recv.queues].alive
  /\ recv' = RecvReady
  /\ crashed' \in BOOLEAN
  /\ UNCHANGED <<table, connections, mutex, main, now, socket, counters>>

RecvThread == \/ RecvFinds \/ RecvTooMany \/ RecvFindsNone \/ RecvClaims
              \/ RecvCreates \/ RecvStamps \/ RecvPushes \/ RecvPushesFreed
              \/ RecvClosed

-----------------------------------------------------------------------------
(* send_thread_func of connection k. *)

SenderPops(k) ==
  /\ connections[k].sender = "pop" /\ connections[k].send # <<>>
  /\ connections' =
       [connections EXCEPT ![k].send = Tail(@),
                           ![k].sender = IF Head(connections[k].send) = "NULL"
                                           THEN "exited" ELSE "send"]
  /\ UNCHANGED <<table, mutex, main, recv, now, socket, crashed, counters>>

(* A sendto that fails ends the thread, and nothing empties the queue then. *)
SenderSends(k) ==
  /\ connections[k].sender = "send"
  /\ \E sent \in SendResults :
       connections' = [connections EXCEPT ![k].sender = IF sent THEN "pop" ELSE "exited"]
  /\ UNCHANGED <<table, mutex, main, recv, now, socket, crashed, counters>>

Sender(k) == SenderPops(k) \/ SenderSends(k)

-----------------------------------------------------------------------------
(* The main thread: a game that serves, or that connects to a server first. *)

Serve ==
  /\ main.pc = "start"
  /\ main' = Main("idle", 0)
  /\ UNCHANGED <<table, connections, mutex, recv, now, socket, crashed, counters>>

Connect ==
  /\ main.pc = "start" /\ CanLock
  /\ IF Found(Server) # {}
       THEN main' = Main("idle", 0) /\ UNCHANGED mutex
       ELSE /\ \E s \in Slot : IsFirst(s, Free)
                               /\ main' = [Main("claim", s) EXCEPT !.address = Server]
            /\ mutex' = "main"
  /\ UNCHANGED <<table, connections, recv, now, socket, crashed, counters>>

ConnectClaims ==
  /\ main.pc = "claim"
  /\ ClaimSlot(main.slot, main.address)
  /\ main' = [main EXCEPT !.pc = "create"]
  /\ UNCHANGED <<mutex, recv, now, socket, crashed, counters>>

ConnectCreates ==
  /\ main.pc = "create"
  /\ MakeQueues(main.slot)
  /\ main' = [Main("idle", 0) EXCEPT !.address = NoPeer]
  /\ UNCHANGED <<recv, now, socket, crashed, counters>>

Update ==
  /\ main.pc = "idle"
  /\ updates < MaxUpdates
  /\ updates' = updates + 1
  /\ main' = Main("lock_timeout", 0)
  /\ UNCHANGED <<table, connections, mutex, recv, now, socket, crashed, packets>>

(* net_destroy, up to the mutex of net_disconnect_all. *)
Destroy ==
  /\ main.pc = "idle"
  /\ main' = Main("lock_disconnect", 0)
  /\ UNCHANGED <<table, connections, mutex, recv, now, socket, crashed, counters>>

(* timeout_old_connections: one slot after the other, the time read once.  *)
LockForTimeout ==
  /\ main.pc = "lock_timeout" /\ CanLock
  /\ mutex' = "main"
  /\ main' = [Main("timeout", 1) EXCEPT !.now = now]
  /\ UNCHANGED <<table, connections, recv, now, socket, crashed, counters>>

TimedOut(s) == /\ address[s] # NoPeer
               /\ (last_recv[s] + Timeout) % ClockRange < main.now

TimeoutLooks ==
  /\ main.pc = "timeout" /\ main.slot \in Slot
  /\ main' = IF TimedOut(main.slot) THEN Main("timeout_push", main.slot)
             ELSE Main("timeout", main.slot + 1)
  /\ UNCHANGED <<table, connections, mutex, recv, now, socket, crashed, counters>>

TimeoutEnds ==
  /\ main.pc = "timeout" /\ main.slot \notin Slot
  /\ mutex' = NoOne
  /\ main' = [Main("send", 1) EXCEPT !.now = 0]
  /\ UNCHANGED <<table, connections, recv, now, socket, crashed, counters>>

LockForDisconnect ==
  /\ main.pc = "lock_disconnect" /\ CanLock
  /\ mutex' = "main"
  /\ main' = Main("disconnect", 1)
  /\ UNCHANGED <<table, connections, recv, now, socket, crashed, counters>>

DisconnectLooks ==
  /\ main.pc = "disconnect" /\ main.slot \in Slot
  /\ main' = IF address[main.slot] # NoPeer THEN Main("disconnect_push", main.slot)
             ELSE Main("disconnect", main.slot + 1)
  /\ UNCHANGED <<table, connections, mutex, recv, now, socket, crashed, counters>>

(* Taking one connection down: NULL to its thread, the join, the queues.   *)
(* The mutex is held all the while.                                        *)
(* Faulty variant: a full queue is tried once and given up on.             *)
TearDownTries ==
  LET k == queues[main.slot]
  IN  /\ main.pc \in {"timeout_push", "disconnect_push"}
      /\ connections' = IF HasRoom(connections[k].send)
                          THEN [connections EXCEPT ![k].send = Append(@, "NULL")]
                          ELSE connections
      /\ main' = Main(IF main.pc = "timeout_push" THEN "timeout_join" ELSE "disconnect_join",
                      main.slot)
      /\ UNCHANGED <<table, mutex, recv, now, socket, crashed, counters>>

TearDownPushes ==
  LET k == queues[main.slot]
  IN  /\ main.pc \in {"timeout_push", "disconnect_push"}
      /\ HasRoom(connections[k].send)
      /\ connections' = [connections EXCEPT ![k].send = Append(@, "NULL")]
      /\ main' = Main(IF main.pc = "timeout_push" THEN "timeout_join" ELSE "disconnect_join",
                      main.slot)
      /\ UNCHANGED <<table, mutex, recv, now, socket, crashed, counters>>

ClearSlots(set) ==
  /\ address' = [s \in Slot |-> IF s \in set THEN NoPeer ELSE address[s]]
  /\ queues' = [s \in Slot |-> IF s \in set THEN Null ELSE queues[s]]
  /\ last_recv' = [s \in Slot |-> IF s \in set THEN 0 ELSE last_recv[s]]

(* Faulty variant: the queues go before their thread has ended. *)
JoinedAtOnce(k) == TRUE
Joined(k) == connections[k].sender = "exited"

TimeoutJoins ==
  LET k == queues[main.slot]
  IN  /\ main.pc = "timeout_join" /\ Joined(k)
      /\ connections' = [connections EXCEPT ![k].alive = FALSE]
      /\ ClearSlots({main.slot})
      /\ main' = Main("timeout", main.slot + 1)
      /\ UNCHANGED <<mutex, recv, now, socket, crashed, counters>>

DisconnectJoins ==
  LET k == queues[main.slot]
  IN  /\ main.pc = "disconnect_join" /\ Joined(k)
      /\ connections' = [connections EXCEPT ![k].alive = FALSE]
      /\ main' = Main("disconnect", main.slot + 1)
      /\ UNCHANGED <<table, mutex, recv, now, socket, crashed, counters>>

(* The table is cleared, the mutex released, the socket closed. *)
DisconnectEnds ==
  /\ main.pc = "disconnect" /\ main.slot \notin Slot
  /\ ClearSlots(Slot)
  /\ mutex' = NoOne
  /\ main' = Main("close", 0)
  /\ UNCHANGED <<connections, recv, now, socket, crashed, counters>>

CloseSocket ==
  /\ main.pc = "close"
  /\ socket' = FALSE
  /\ main' = Main("join_recv", 0)
  /\ UNCHANGED <<table, connections, mutex, recv, now, crashed, counters>>

JoinRecv ==
  /\ main.pc = "join_recv" /\ recv.pc = "exited"
  /\ main' = Main("gone", 0)
  /\ UNCHANGED <<table, connections, mutex, recv, now, socket, crashed, counters>>

(* net_update's loop: packet_send, which blocks on a full queue, then      *)
(* packet_recv, which empties the other.  The table is read unlocked.      *)
SkipSlot ==
  /\ main.pc = "send" /\ main.slot \in Slot /\ address[main.slot] = NoPeer
  /\ main' = Main("send", main.slot + 1)
  /\ UNCHANGED <<table, connections, mutex, recv, now, socket, crashed, counters>>

PacketSend ==
  LET k == queues[main.slot]
  IN  /\ main.pc = "send" /\ main.slot \in Slot /\ address[main.slot] # NoPeer
      /\ k # Null /\ HasRoom(connections[k].send)
      /\ connections' = [connections EXCEPT ![k].send = Append(@, "packet")]
      /\ main' = Main("recv", main.slot)
      /\ UNCHANGED <<table, mutex, recv, now, socket, crashed, counters>>

(* The receive thread has not made the queues of this slot yet. *)
PacketSendToNull ==
  /\ main.pc = "send" /\ main.slot \in Slot
  /\ address[main.slot] # NoPeer /\ queues[main.slot] = Null
  /\ crashed' = TRUE
  /\ UNCHANGED <<table, connections, mutex, main, recv, now, socket, counters>>

PacketRecv ==
  LET k == queues[main.slot]
  IN  /\ main.pc = "recv"
      /\ IF connections[k].recv = <<>>
           THEN main' = Main("send", main.slot + 1) /\ UNCHANGED connections
           ELSE /\ connections' = [connections EXCEPT ![k].recv = Tail(@)]
                /\ UNCHANGED main
      /\ UNCHANGED <<table, mutex, recv, now, socket, crashed, counters>>

UpdateReturns ==
  /\ main.pc = "send" /\ main.slot \notin Slot
  /\ main' = Main("idle", 0)
  /\ UNCHANGED <<table, connections, mutex, recv, now, socket, crashed, counters>>

Locking == LockForTimeout \/ LockForDisconnect

InCall == \/ Locking
          \/ ConnectClaims \/ ConnectCreates
          \/ TimeoutLooks \/ TimeoutEnds \/ TimeoutJoins
          \/ DisconnectLooks \/ DisconnectEnds \/ DisconnectJoins \/ TearDownPushes
          \/ CloseSocket \/ JoinRecv
          \/ SkipSlot \/ PacketSend \/ PacketSendToNull \/ PacketRecv \/ UpdateReturns

Tick ==
  /\ now' = (now + 1) % ClockRange
  /\ UNCHANGED <<table, connections, mutex, main, recv, socket, crashed, counters>>

(* The program has ended, or has crashed. *)
Over == (crashed \/ main.pc = "gone") /\ UNCHANGED vars

Next == \/ ~crashed /\ \/ Serve \/ Update \/ Destroy \/ InCall
                       \/ RecvThread \/ RecvFails
                       \/ Connect
                       \/ \E peer \in Peer : RecvFrom(peer)
                       \/ \E k \in Connection : Sender(k)
                       \/ Tick
        \/ Over

(* Threads run, and a thread that waits for the mutex gets it in the end.  *)
(* No packet has to arrive, no call has to be made.                        *)
Fairness == /\ WF_vars(~crashed /\ InCall)
            /\ SF_vars(~crashed /\ Locking)
            /\ WF_vars(~crashed /\ RecvThread)
            /\ \A k \in 1 .. MaxPackets + 1 :
                 WF_vars(~crashed /\ k \in Connection /\ Sender(k))

Spec == Init /\ [][Next]_vars /\ Fairness

-----------------------------------------------------------------------------
(* However packets, net_connect and timeouts interleave, no peer ever has  *)
(* two connections: a second would get only some of its packets, have a    *)
(* replica of its own, and if it took the first one's slot nothing would   *)
(* end the first one's thread.                                             *)
OneConnectionPerPeer ==
  /\ \A s, t \in Slot : address[s] = address[t] /\ address[s] # NoPeer => s = t
  /\ \A j, k \in Connection :
       connections[j].alive /\ connections[k].alive
         /\ connections[j].address = connections[k].address => j = k

(* A connection's queues outlive the thread that sends from them, and the   *)
(* table never points to destroyed queues, nor two slots to the same ones,  *)
(* except while net_disconnect_all holds the mutex and is about to clear it.*)
QueuesOutliveUsers ==
  /\ \A k \in Connection : connections[k].sender # "exited" => connections[k].alive
  /\ \A s \in Slot : queues[s] # Null =>
       \/ connections[queues[s]].alive
       \/ mutex = "main" /\ main.pc \in {"disconnect", "disconnect_push", "disconnect_join"}
  /\ \A s, t \in Slot : queues[s] = queues[t] /\ queues[s] # Null => s = t

(* What packet_recv takes from a connection came from the connection's own  *)
(* peer, although the receive thread uses a slot it no longer has locked.   *)
PacketsOfPeer ==
  \A k \in Connection : \A i \in DOMAIN connections[k].recv :
    connections[k].recv[i] = connections[k].address

(* net_update and net_destroy come back, unless the program has crashed:    *)
(* nothing they wait for - the mutex, room in a send queue, the end of a    *)
(* send thread or of the receive thread - waits for them.                   *)
CallsReturn ==
  main.pc \notin {"start", "idle"} ~> (main.pc \in {"idle", "gone"} \/ crashed)
===============================================================================
