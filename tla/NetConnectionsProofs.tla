------------------------ MODULE NetConnectionsProofs ------------------------
(***************************************************************************)
(* Proofs about the connection table of NetConnections.tla, for every      *)
(* number of slots, peers, packets and updates, every capacity of a queue  *)
(* and every outcome of sendto.                                            *)
(***************************************************************************)
EXTENDS NetConnections, SequenceTheorems, TLAPS

ConnectionRecord == [address : Peer, alive : BOOLEAN, send : Seq({"packet", "NULL"}),
                     recv : Seq(Peer), sender : {"pop", "send", "exited"}]

Disconnecting == {"disconnect", "disconnect_push", "disconnect_join"}
TimingOut == {"timeout", "timeout_push", "timeout_join"}
Making == {"claim", "create"}

(* Where each thread may be, and in which places it knows its slot.        *)
MainPc == {"start", "idle", "lock_timeout", "lock_disconnect", "send", "recv", "close",
           "join_recv", "gone"} \cup Making \cup TimingOut \cup Disconnecting
Using == {"recv", "timeout_push", "timeout_join", "disconnect_push", "disconnect_join"}
RecvPc == {"recvfrom", "find", "stamp", "push", "exited"} \cup Making

MainType ==
  /\ main \in [pc : MainPc, slot : 0 .. Slots + 1, address : Peer \cup {NoPeer}, now : Int]
  /\ main.pc \in TimingOut \cup Disconnecting \cup {"send"} => main.slot >= 1
  /\ main.pc \in Making \cup Using => main.slot \in Slot
  /\ main.pc \in Making => main.address \in Peer

RecvType ==
  /\ recv \in [pc : RecvPc, slot : 0 .. Slots, address : Peer \cup {NoPeer},
               queues : 0 .. Len(connections)]
  /\ recv.pc \in Making \cup {"stamp"} => recv.slot \in Slot
  /\ recv.pc \notin {"recvfrom", "exited"} => recv.address \in Peer

TableType ==
  /\ address \in [Slot -> Peer \cup {NoPeer}]
  /\ queues \in [Slot -> 0 .. Len(connections)]
  /\ connections \in Seq(ConnectionRecord)

TypeInv == now \in Int /\ MainType /\ RecvType /\ TableType

(* Who holds the mutex is a matter of where the threads are.               *)
MutexInv ==
  /\ recv.pc \in Making <=> mutex = "recv"
  /\ main.pc \in Making \cup TimingOut \cup Disconnecting <=> mutex = "main"

(* The slot a thread ("at") is making a connection in, for a new peer.     *)
MakingInv(at) ==
  /\ at.pc = "claim" => address[at.slot] = NoPeer /\ Found(at.address) = {}
  /\ at.pc = "create" => address[at.slot] = at.address /\ queues[at.slot] = Null

AddressesDistinct ==
  \A s, t \in Slot : address[s] = address[t] /\ address[s] # NoPeer => s = t

(* A slot has an address and queues, or neither, unless they are being     *)
(* made; its queues are those of a connection to its address.              *)
TableInv ==
  /\ \A s \in Slot : address[s] = NoPeer => queues[s] = Null
  /\ \A s \in Slot : address[s] # NoPeer /\ queues[s] = Null =>
       (recv.pc = "create" /\ recv.slot = s) \/ (main.pc = "create" /\ main.slot = s)
  /\ \A s \in Slot : queues[s] # Null => connections[queues[s]].address = address[s]

QueuesDistinct ==
  \A s, t \in Slot : queues[s] = queues[t] /\ queues[s] # Null => s = t

(* The connections that are alive are those in the table, less the slots   *)
(* net_disconnect_all has been past.                                       *)
Passed(s) == main.pc \in Disconnecting /\ s < main.slot
AliveInv ==
  /\ \A k \in Connection : connections[k].alive => \E s \in Slot : queues[s] = k
  /\ \A s \in Slot : queues[s] # Null => (connections[queues[s]].alive <=> ~Passed(s))
  /\ \A k \in Connection : connections[k].sender # "exited" => connections[k].alive

(* What the main thread is taking down, or reading from, is there.         *)
InUseInv ==
  main.pc \in Using => address[main.slot] # NoPeer /\ queues[main.slot] # Null

IInv == /\ TypeInv /\ MutexInv /\ MakingInv(recv) /\ MakingInv(main)
        /\ AddressesDistinct /\ TableInv /\ QueuesDistinct /\ AliveInv /\ InUseInv

(* The receive thread uses a slot it no longer has locked.  Only a timeout *)
(* takes an address out of the table, only the receive thread puts one in  *)
(* after that, and so the slot is still its packet's or empty.             *)
StampInv ==
  /\ recv.pc = "stamp" =>
       /\ address[recv.slot] \in {recv.address, NoPeer}
       /\ main.pc \in {"start"} \cup Making => address[recv.slot] = recv.address
  /\ recv.pc = "push" /\ ~crashed =>
       /\ recv.queues # Null
       /\ connections[recv.queues].address = recv.address
PacketInv == IInv /\ StampInv /\ PacketsOfPeer

(* Nothing is in use before the first step.                                *)
LEMMA InitInv == Init => PacketInv
<1> SUFFICES ASSUME Init PROVE PacketInv
  OBVIOUS
<1>1. connections \in Seq(ConnectionRecord) /\ Len(connections) = 0 /\ Connection = {}
  BY DEF Init, Connection
<1>2. TypeInv
  BY <1>1, SizesAssumption
  DEF Init, TypeInv, MainType, RecvType, TableType, MainPc, RecvPc, Using, Null, Slot, Making,
      TimingOut, Disconnecting
<1>3. QED
  BY <1>1, <1>2, PeerAssumption
  DEF Init, PacketInv, IInv, MutexInv, MakingInv, AddressesDistinct, TableInv, QueuesDistinct,
      AliveInv, InUseInv, Using, StampInv, PacketsOfPeer, Making, TimingOut, Disconnecting, NoOne

LEMMA SlotFacts ==
  /\ Slots \in Nat /\ Slots >= 1 /\ 1 \in Slot /\ NoPeer \notin Peer
  /\ \A s \in Slot : s \in Int /\ s >= 1 /\ s <= Slots /\ s \in 0 .. Slots /\ s \in 0 .. Slots + 1
                     /\ s + 1 \in 0 .. Slots + 1 /\ s + 1 >= 1
  /\ \A s \in 0 .. Slots + 1 : s \in Int /\ (s >= 1 /\ s \notin Slot => s = Slots + 1)
  /\ 0 \in 0 .. Slots /\ 0 \in 0 .. Slots + 1
BY SizesAssumption, PeerAssumption DEF Slot

(* What changing one connection leaves alone.                              *)
LEMMA OneConnectionChanges ==
  ASSUME connections \in Seq(ConnectionRecord), NEW k \in Connection,
         NEW c \in ConnectionRecord,
         connections' = [connections EXCEPT ![k] = c]
  PROVE  /\ connections' \in Seq(ConnectionRecord)
         /\ Len(connections') = Len(connections) /\ Connection' = Connection
         /\ connections'[k] = c
         /\ \A j \in Connection : j # k => connections'[j] = connections[j]
  BY ExceptSeq DEF Connection

LEMMA ConnectionFacts ==
  ASSUME connections \in Seq(ConnectionRecord)
  PROVE  /\ Len(connections) \in Nat /\ Connection = 1 .. Len(connections)
         /\ \A k \in Connection : connections[k] \in ConnectionRecord
  BY DEF Connection

(* Where the main thread goes, field by field. *)
LEMMA MainMoves ==
  ASSUME MainType, NEW pc \in MainPc, NEW s \in 0 .. Slots + 1, main' = Main(pc, s),
         pc \in TimingOut \cup Disconnecting \cup {"send"} => s >= 1,
         pc \in Making \cup Using => s \in Slot,
         pc \in Making => main.address \in Peer
  PROVE  /\ MainType'
         /\ main'.pc = pc /\ main'.slot = s /\ main'.address = main.address
  BY DEF Main, MainType

LEMMA RecvMoves ==
  ASSUME RecvType, NEW pc \in RecvPc, NEW s \in 0 .. Slots, recv' = Recv(pc, s),
         pc \in Making \cup {"stamp"} => s \in Slot,
         pc \notin {"recvfrom", "exited"} => recv.address \in Peer,
         Len(connections') = Len(connections)
  PROVE  /\ RecvType'
         /\ recv'.pc = pc /\ recv'.slot = s /\ recv'.address = recv.address
         /\ recv'.queues = recv.queues
  BY DEF Recv, RecvType

LEMMA RecvStartsOver ==
  ASSUME RecvType, NEW pc \in {"recvfrom", "exited"}, recv' = [RecvReady EXCEPT !.pc = pc],
         Len(connections') = Len(connections), connections \in Seq(ConnectionRecord)
  PROVE  RecvType' /\ recv'.pc = pc
<1>1. Len(connections) \in Nat /\ Len(connections') \in Nat
  BY ConnectionFacts
<1>2. recv' = [pc |-> pc, slot |-> 0, address |-> NoPeer, queues |-> 0]
  BY DEF RecvReady, Null
<1>3. 0 \in 0 .. Len(connections') /\ 0 \in 0 .. Slots /\ pc \in RecvPc
  BY <1>1, SlotFacts DEF RecvPc
<1>4. recv'.pc = pc /\ pc \notin Making \cup {"stamp"}
  BY <1>2 DEF Making
<1>5. recv' \in [pc : RecvPc, slot : 0 .. Slots, address : Peer \cup {NoPeer},
                 queues : 0 .. Len(connections')]
  <2>1. \A n : 0 \in n => [pc |-> pc, slot |-> 0, address |-> NoPeer, queues |-> 0]
               \in [pc : RecvPc, slot : 0 .. Slots, address : Peer \cup {NoPeer}, queues : n]
    BY <1>3
  <2>2. QED
    BY <1>2, <1>3, <2>1
<1>6. QED
  BY <1>4, <1>5 DEF RecvType

LEMMA SameTableType ==
  ASSUME TableType, UNCHANGED <<address, queues, connections>>
  PROVE  TableType'
  BY DEF TableType

LEMMA SameRecvType ==
  ASSUME RecvType, UNCHANGED recv, Len(connections') = Len(connections)
  PROVE  RecvType'
  BY DEF RecvType

-----------------------------------------------------------------------------
(* Steps that leave the table alone, and of the connections what the       *)
(* invariant reads of them.                                                *)
Holding == Making \cup TimingOut \cup Disconnecting
SoftChange ==
  /\ Len(connections') = Len(connections)
  /\ \A k \in Connection :
       /\ connections'[k].address = connections[k].address
       /\ connections'[k].alive = connections[k].alive
       /\ connections'[k].sender # "exited" => connections[k].sender # "exited"

LEMMA QueuesExist ==
  ASSUME TableType
  PROVE  \A s \in Slot : queues[s] # Null => queues[s] \in Connection
<1>1. Len(connections) \in Nat /\ Connection = 1 .. Len(connections)
  BY ConnectionFacts DEF TableType
<1>2. QED
  BY <1>1 DEF TableType, Null

LEMMA SoftSameConnections ==
  ASSUME TableType, TableType', SoftChange
  PROVE  Connection' = Connection
<1>1. Connection = 1 .. Len(connections)
  BY LenProperties DEF TableType, Connection
<1>2. Connection' = 1 .. Len(connections')
  BY LenProperties DEF TableType, Connection
<1>3. QED
  BY <1>1, <1>2 DEF SoftChange

LEMMA MainMoveKeeps ==
  ASSUME IInv, MainType', connections' \in Seq(ConnectionRecord), SoftChange, now' \in Int,
         UNCHANGED <<address, queues, recv>>,
         mutex' = "recv" <=> mutex = "recv",
         main'.pc \in Holding <=> mutex' = "main",
         main.pc # "create", MakingInv(main)',
         main'.pc \in Using => address[main'.slot] # NoPeer /\ queues[main'.slot] # Null,
         \A s \in Slot : queues[s] # Null => (Passed(s)' <=> Passed(s))
  PROVE  IInv'
<1>0. TableType' /\ TypeInv'
  BY SameRecvType DEF IInv, TypeInv, TableType, SoftChange
<1>1. /\ Connection' = Connection
      /\ \A s \in Slot : queues[s] # Null => queues[s] \in Connection
  BY <1>0, SoftSameConnections, QueuesExist DEF IInv, TypeInv
<1>2. MakingInv(recv)' /\ AddressesDistinct' /\ QueuesDistinct' /\ MutexInv' /\ InUseInv'
  BY DEF IInv, MakingInv, Found, AddressesDistinct, QueuesDistinct, MutexInv, Holding,
         InUseInv, Using
<1>3. TableInv'
  BY <1>1 DEF IInv, TableInv, SoftChange
<1>4. AliveInv'
  BY <1>1 DEF IInv, AliveInv, SoftChange
<1>5. QED
  BY <1>0, <1>2, <1>3, <1>4 DEF IInv

LEMMA OtherMoveKeeps ==
  ASSUME IInv, RecvType', connections' \in Seq(ConnectionRecord), SoftChange, now' \in Int,
         UNCHANGED <<address, queues, main>>,
         mutex' = "main" <=> mutex = "main",
         recv'.pc \in Making <=> mutex' = "recv",
         recv' = recv \/ recv.pc # "create", MakingInv(recv)'
  PROVE  IInv'
<1>0. TableType' /\ TypeInv'
  BY DEF IInv, TypeInv, TableType, MainType, SoftChange
<1>1. /\ Connection' = Connection
      /\ \A s \in Slot : queues[s] # Null => queues[s] \in Connection
  BY <1>0, SoftSameConnections, QueuesExist DEF IInv, TypeInv
<1>2. MakingInv(main)' /\ AddressesDistinct' /\ QueuesDistinct' /\ InUseInv' /\ MutexInv'
  BY DEF IInv, MakingInv, Found, AddressesDistinct, QueuesDistinct, InUseInv, MutexInv
<1>3. TableInv'
  BY <1>1 DEF IInv, TableInv, SoftChange
<1>4. AliveInv'
  BY <1>1 DEF IInv, AliveInv, SoftChange, Passed
<1>5. QED
  BY <1>0, <1>2, <1>3, <1>4 DEF IInv

LEMMA NoChangeIsSoft ==
  ASSUME IInv, UNCHANGED connections
  PROVE  SoftChange /\ connections' \in Seq(ConnectionRecord)
  BY DEF SoftChange, IInv, TypeInv, TableType

-----------------------------------------------------------------------------
(* One case per action of the main thread that only moves it. *)
LEMMA MainMovesStep ==
  ASSUME IInv,
         \/ Serve \/ Update \/ Destroy \/ LockForDisconnect \/ CloseSocket \/ JoinRecv
         \/ SkipSlot \/ UpdateReturns \/ TimeoutLooks \/ DisconnectLooks
  PROVE  IInv'
<1> USE DEF Making, TimingOut, Disconnecting, Using
<1>0. /\ MainType /\ now \in Int /\ (UNCHANGED connections => SoftChange)
      /\ (UNCHANGED connections => connections' \in Seq(ConnectionRecord))
      /\ (main.pc \in Holding <=> mutex = "main")
      /\ \A s \in Slot : address[s] = NoPeer => queues[s] = Null
      /\ \A s \in Slot : address[s] # NoPeer /\ queues[s] = Null =>
           (recv.pc = "create" /\ mutex = "recv") \/ main.pc = "create"
  BY NoChangeIsSoft DEF IInv, TypeInv, MutexInv, Holding, TableInv
<1>1. CASE Serve
  <2>1. MainType' /\ main'.pc = "idle" /\ main'.slot = 0
    BY <1>0, <1>1, MainMoves, SlotFacts DEF Serve, MainPc
  <2>2. QED
    BY <1>0, <1>1, <2>1, MainMoveKeeps, SlotFacts
    DEF Serve, table, Passed, Holding, MakingInv
<1>2. CASE Update
  <2>1. MainType' /\ main'.pc = "lock_timeout" /\ main'.slot = 0
    BY <1>0, <1>2, MainMoves, SlotFacts DEF Update, MainPc
  <2>2. QED
    BY <1>0, <1>2, <2>1, MainMoveKeeps, SlotFacts
    DEF Update, table, Passed, Holding, MakingInv
<1>3. CASE Destroy
  <2>1. MainType' /\ main'.pc = "lock_disconnect" /\ main'.slot = 0
    BY <1>0, <1>3, MainMoves, SlotFacts DEF Destroy, MainPc
  <2>2. QED
    BY <1>0, <1>3, <2>1, MainMoveKeeps, SlotFacts
    DEF Destroy, table, Passed, Holding, MakingInv
<1>4. CASE CloseSocket
  <2>1. MainType' /\ main'.pc = "join_recv" /\ main'.slot = 0
    BY <1>0, <1>4, MainMoves, SlotFacts DEF CloseSocket, MainPc
  <2>2. QED
    BY <1>0, <1>4, <2>1, MainMoveKeeps, SlotFacts
    DEF CloseSocket, table, Passed, Holding, MakingInv
<1>5. CASE JoinRecv
  <2>1. MainType' /\ main'.pc = "gone" /\ main'.slot = 0
    BY <1>0, <1>5, MainMoves, SlotFacts DEF JoinRecv, MainPc
  <2>2. QED
    BY <1>0, <1>5, <2>1, MainMoveKeeps, SlotFacts
    DEF JoinRecv, table, Passed, Holding, MakingInv
<1>6. CASE SkipSlot
  <2>1. MainType' /\ main'.pc = "send" /\ main'.slot = main.slot + 1
    BY <1>0, <1>6, MainMoves, SlotFacts DEF SkipSlot, MainPc
  <2>2. QED
    BY <1>0, <1>6, <2>1, MainMoveKeeps, SlotFacts
    DEF SkipSlot, table, Passed, Holding, MakingInv
<1>7. CASE UpdateReturns
  <2>1. MainType' /\ main'.pc = "idle" /\ main'.slot = 0
    BY <1>0, <1>7, MainMoves, SlotFacts DEF UpdateReturns, MainPc
  <2>2. main.pc = "send" /\ UNCHANGED <<address, queues, connections, recv, mutex, now>>
    BY <1>7 DEF UpdateReturns, table
  <2>3. QED
    BY <1>0, <2>1, <2>2, MainMoveKeeps DEF Passed, Holding, MakingInv
<1>8. CASE LockForDisconnect
  <2>1. MainType' /\ main'.pc = "disconnect" /\ main'.slot = 1
    BY <1>0, <1>8, MainMoves, SlotFacts DEF LockForDisconnect, MainPc
  <2>2. \A s \in Slot : ~Passed(s) /\ ~Passed(s)'
    BY <1>8, <2>1, SlotFacts DEF LockForDisconnect, Passed
  <2>3. QED
    BY <1>0, <1>8, <2>1, <2>2, MainMoveKeeps
    DEF LockForDisconnect, table, Holding, MakingInv, CanLock, NoOne
<1>9. CASE TimeoutLooks
  <2>1. /\ MainType' /\ main.slot \in Slot
        /\ \/ main'.pc = "timeout_push" /\ main'.slot = main.slot /\ address[main.slot] # NoPeer
           \/ main'.pc = "timeout" /\ main'.slot = main.slot + 1
    <3>1. main.slot \in Slot /\ main.slot >= 1 /\ main.slot \in 0 .. Slots + 1
          /\ main.slot + 1 \in 0 .. Slots + 1 /\ main.slot + 1 >= 1
      BY <1>9, SlotFacts DEF TimeoutLooks
    <3>2. CASE TimedOut(main.slot)
      <4>1. main' = Main("timeout_push", main.slot) /\ address[main.slot] # NoPeer
        BY <1>9, <3>2 DEF TimeoutLooks, TimedOut
      <4>2. MainType' /\ main'.pc = "timeout_push" /\ main'.slot = main.slot
        BY <1>0, <3>1, <4>1, MainMoves DEF MainPc
      <4>3. QED
        BY <3>1, <4>1, <4>2
    <3>3. CASE ~TimedOut(main.slot)
      <4>1. main' = Main("timeout", main.slot + 1)
        BY <1>9, <3>3 DEF TimeoutLooks
      <4>2. MainType' /\ main'.pc = "timeout" /\ main'.slot = main.slot + 1
        BY <1>0, <3>1, <4>1, MainMoves DEF MainPc
      <4>3. QED
        BY <3>1, <4>2
    <3>4. QED
      BY <3>2, <3>3
  <2>2. QED
    BY <1>0, <1>9, <2>1, MainMoveKeeps, SlotFacts
    DEF TimeoutLooks, table, Passed, Holding, MakingInv
<1>10. CASE DisconnectLooks
  <2>1. /\ MainType' /\ main.slot \in Slot
        /\ \/ main'.pc = "disconnect_push" /\ main'.slot = main.slot /\ address[main.slot] # NoPeer
           \/ main'.pc = "disconnect" /\ main'.slot = main.slot + 1 /\ queues[main.slot] = Null
    BY <1>0, <1>10, MainMoves, SlotFacts DEF DisconnectLooks, MainPc
  <2>2. QED
    BY <1>0, <1>10, <2>1, MainMoveKeeps, SlotFacts
    DEF DisconnectLooks, table, Passed, Holding, MakingInv
<1>11. QED
  BY <1>1, <1>2, <1>3, <1>4, <1>5, <1>6, <1>7, <1>8, <1>9, <1>10

(* Connections that change in their queues or their thread only.           *)
LEMMA OneSoftChange ==
  ASSUME IInv, NEW k \in Connection, NEW c \in ConnectionRecord,
         connections' = [connections EXCEPT ![k] = c],
         c.address = connections[k].address, c.alive = connections[k].alive,
         c.sender # "exited" => connections[k].sender # "exited"
  PROVE  SoftChange /\ connections' \in Seq(ConnectionRecord)
<1>1. connections \in Seq(ConnectionRecord)
  BY DEF IInv, TypeInv, TableType
<1>2. /\ connections' \in Seq(ConnectionRecord) /\ Len(connections') = Len(connections)
      /\ connections'[k] = c
      /\ \A j \in Connection : j # k => connections'[j] = connections[j]
  BY <1>1, OneConnectionChanges
<1>3. QED
  BY <1>2 DEF SoftChange

LEMMA SendQueueGrows ==
  ASSUME IInv, NEW k \in Connection, NEW x \in {"packet", "NULL"},
         connections' = [connections EXCEPT ![k].send = Append(@, x)]
  PROVE  SoftChange /\ connections' \in Seq(ConnectionRecord)
<1> DEFINE c == [connections[k] EXCEPT !.send = Append(connections[k].send, x)]
<1>1. connections[k] \in ConnectionRecord
  BY ConnectionFacts DEF IInv, TypeInv, TableType
<1>2. Append(connections[k].send, x) \in Seq({"packet", "NULL"})
  BY <1>1, AppendProperties DEF ConnectionRecord
<1>3. /\ c \in ConnectionRecord /\ c.address = connections[k].address
      /\ c.alive = connections[k].alive /\ c.sender = connections[k].sender
  BY <1>1, <1>2 DEF ConnectionRecord
<1>4. QED
  BY <1>3, OneSoftChange

LEMMA RecvQueueChanges ==
  ASSUME IInv, NEW k \in Connection, NEW q \in Seq(Peer),
         connections' = [connections EXCEPT ![k].recv = q]
  PROVE  SoftChange /\ connections' \in Seq(ConnectionRecord)
<1> DEFINE c == [connections[k] EXCEPT !.recv = q]
<1>1. connections[k] \in ConnectionRecord
  BY ConnectionFacts DEF IInv, TypeInv, TableType
<1>2. /\ c \in ConnectionRecord /\ c.address = connections[k].address
      /\ c.alive = connections[k].alive /\ c.sender = connections[k].sender
  BY <1>1 DEF ConnectionRecord
<1>3. QED
  BY <1>2, OneSoftChange

LEMMA SenderChanges ==
  ASSUME IInv, NEW k \in Connection, connections[k].sender # "exited",
         NEW q \in Seq({"packet", "NULL"}), NEW next \in {"pop", "send", "exited"},
         connections' = [connections EXCEPT ![k].send = q, ![k].sender = next]
  PROVE  SoftChange /\ connections' \in Seq(ConnectionRecord)
<1> DEFINE c == [connections[k] EXCEPT !.send = q, !.sender = next]
<1>1. connections[k] \in ConnectionRecord
  BY ConnectionFacts DEF IInv, TypeInv, TableType
<1>2. /\ c \in ConnectionRecord /\ c.address = connections[k].address
      /\ c.alive = connections[k].alive /\ c.sender = next
  BY <1>1 DEF ConnectionRecord
<1>3. connections' = [connections EXCEPT ![k] = c]
  BY <1>1, ConnectionFacts DEF IInv, TypeInv, TableType
<1>4. QED
  BY <1>2, <1>3, OneSoftChange

-----------------------------------------------------------------------------
(* The main thread locks and unlocks, pushes and pops. *)
LEMMA MainWorksStep ==
  ASSUME IInv,
         \/ Connect \/ LockForTimeout \/ TimeoutEnds \/ PacketSendToNull
         \/ TearDownPushes \/ PacketSend \/ PacketRecv
  PROVE  IInv'
<1> USE DEF Making, TimingOut, Disconnecting, Using
<1>0. /\ MainType /\ now \in Int /\ (UNCHANGED connections => SoftChange)
      /\ (UNCHANGED connections => connections' \in Seq(ConnectionRecord))
      /\ (main.pc \in Holding <=> mutex = "main")
      /\ main.pc \in Using => address[main.slot] # NoPeer /\ queues[main.slot] # Null
      /\ \A s \in Slot : queues[s] # Null => queues[s] \in Connection
      /\ \A s \in Slot : address[s] # NoPeer /\ queues[s] = Null =>
           (recv.pc = "create" /\ mutex = "recv") \/ main.pc = "create"
  BY NoChangeIsSoft, QueuesExist DEF IInv, TypeInv, MutexInv, Holding, TableInv, InUseInv
<1>1. CASE Connect
  <2>1. CASE Found(Server) # {}
    <3>1. MainType' /\ main'.pc = "idle"
      BY <1>0, <1>1, <2>1, MainMoves, SlotFacts DEF Connect, MainPc
    <3>2. QED
      BY <1>0, <1>1, <2>1, <3>1, MainMoveKeeps
      DEF Connect, table, Passed, Holding, MakingInv
  <2>2. CASE Found(Server) = {}
    <3>1. PICK s \in Slot : /\ s \in Free
                            /\ main' = [Main("claim", s) EXCEPT !.address = Server]
      BY <1>1, <2>2 DEF Connect, IsFirst, Free
    <3>2. /\ main'.pc = "claim" /\ main'.slot = s /\ main'.address = Server
          /\ main'.now = main.now
      BY <1>0, <3>1 DEF Main, MainType
    <3>3. MainType'
      BY <1>0, <3>1, <3>2, SlotFacts, PeerAssumption DEF Main, MainType, MainPc
    <3>4. MakingInv(main)'
      BY <1>1, <2>2, <3>1, <3>2 DEF MakingInv, Connect, table, Found, Free
    <3>5. QED
      BY <1>0, <1>1, <2>2, <3>2, <3>3, <3>4, MainMoveKeeps
      DEF Connect, table, Passed, Holding, CanLock, NoOne
  <2>3. QED
    BY <2>1, <2>2
<1>2. CASE LockForTimeout
  <2>1. main'.pc = "timeout" /\ main'.slot = 1
    BY <1>0, <1>2 DEF LockForTimeout, Main, MainType
  <2>2. MainType'
    BY <1>0, <1>2, <2>1, SlotFacts DEF LockForTimeout, Main, MainType, MainPc
  <2>3. QED
    BY <1>0, <1>2, <2>1, <2>2, MainMoveKeeps
    DEF LockForTimeout, table, Passed, Holding, MakingInv, CanLock, NoOne
<1>3. CASE TimeoutEnds
  <2>1. main'.pc = "send" /\ main'.slot = 1
    BY <1>0, <1>3 DEF TimeoutEnds, Main, MainType
  <2>2. MainType'
    BY <1>0, <1>3, <2>1, SlotFacts DEF TimeoutEnds, Main, MainType, MainPc
  <2>3. QED
    BY <1>0, <1>3, <2>1, <2>2, MainMoveKeeps
    DEF TimeoutEnds, table, Passed, Holding, MakingInv, NoOne
<1>4. CASE PacketSendToNull
  <2>1. MainType'
    BY <1>0, <1>4 DEF PacketSendToNull, MainType
  <2>2. QED
    BY <1>0, <1>4, <2>1, MainMoveKeeps
    DEF PacketSendToNull, table, Passed, Holding, MakingInv
<1>5. CASE TearDownPushes
  <2>1. /\ main.slot \in Slot /\ queues[main.slot] \in Connection
        /\ address[main.slot] # NoPeer /\ queues[main.slot] # Null
    BY <1>0, <1>5 DEF TearDownPushes, MainType
  <2>2. SoftChange /\ connections' \in Seq(ConnectionRecord)
    BY <1>5, <2>1, SendQueueGrows DEF TearDownPushes
  <2>3. /\ MainType' /\ main'.slot = main.slot
        /\ \/ main.pc = "timeout_push" /\ main'.pc = "timeout_join"
           \/ main.pc = "disconnect_push" /\ main'.pc = "disconnect_join"
    <3> DEFINE next == IF main.pc = "timeout_push" THEN "timeout_join" ELSE "disconnect_join"
    <3>1. main.pc \in {"timeout_push", "disconnect_push"} /\ main' = Main(next, main.slot)
      BY <1>5 DEF TearDownPushes
    <3>2. /\ next \in {"timeout_join", "disconnect_join"} /\ next \in MainPc /\ next \notin Making
          /\ main.slot \in 0 .. Slots + 1 /\ main.slot >= 1
      BY <2>1, SlotFacts DEF MainPc
    <3>3. \/ main.pc = "timeout_push" /\ next = "timeout_join"
          \/ main.pc = "disconnect_push" /\ next = "disconnect_join"
      BY <3>1
    <3> HIDE DEF next
    <3>4. MainType' /\ main'.pc = next /\ main'.slot = main.slot
      BY <1>0, <2>1, <3>1, <3>2, MainMoves
    <3>5. QED
      BY <3>3, <3>4
  <2>4. QED
    BY <1>0, <1>5, <2>1, <2>2, <2>3, MainMoveKeeps
    DEF TearDownPushes, table, Passed, Holding, MakingInv
<1>6. CASE PacketSend
  <2>1. /\ main.slot \in Slot /\ queues[main.slot] \in Connection
        /\ address[main.slot] # NoPeer /\ queues[main.slot] # Null
    BY <1>0, <1>6 DEF PacketSend, MainType
  <2>2. SoftChange /\ connections' \in Seq(ConnectionRecord)
    BY <1>6, <2>1, SendQueueGrows DEF PacketSend
  <2>3. MainType' /\ main'.slot = main.slot /\ main'.pc = "recv"
    <3>1. main' = Main("recv", main.slot)
      BY <1>6 DEF PacketSend
    <3>2. "recv" \in MainPc /\ "recv" \notin Making /\ main.slot \in 0 .. Slots + 1
      BY <2>1, SlotFacts DEF MainPc
    <3>3. QED
      BY <1>0, <2>1, <3>1, <3>2, MainMoves
  <2>4. QED
    BY <1>0, <1>6, <2>1, <2>2, <2>3, MainMoveKeeps
    DEF PacketSend, table, Passed, Holding, MakingInv
<1>7. CASE PacketRecv
  <2> DEFINE k == queues[main.slot]
  <2>1. main.slot \in Slot /\ k \in Connection /\ address[main.slot] # NoPeer /\ k # Null
    BY <1>0, <1>7 DEF PacketRecv, MainType
  <2>2. CASE connections[k].recv = <<>>
    <3>1. MainType' /\ main'.slot = main.slot + 1 /\ main'.pc = "send"
      BY <1>0, <1>7, <2>1, <2>2, MainMoves, SlotFacts DEF PacketRecv, MainPc
    <3>2. QED
      BY <1>0, <1>7, <2>1, <2>2, <3>1, MainMoveKeeps
      DEF PacketRecv, table, Passed, Holding, MakingInv
  <2>3. CASE connections[k].recv # <<>>
    <3>1. connections[k].recv \in Seq(Peer)
      BY <2>1, ConnectionFacts DEF IInv, TypeInv, TableType, ConnectionRecord
    <3>2. Tail(connections[k].recv) \in Seq(Peer)
      BY <2>3, <3>1, HeadTailProperties
    <3>3. connections' = [connections EXCEPT ![k].recv = Tail(connections[k].recv)]
      BY <1>7, <2>3 DEF PacketRecv
    <3>4. SoftChange /\ connections' \in Seq(ConnectionRecord)
      BY <2>1, <3>2, <3>3, RecvQueueChanges
    <3>5. MainType' /\ UNCHANGED <<address, queues, recv, mutex, main, now>>
      BY <1>0, <1>7, <2>3 DEF PacketRecv, MainType, table
    <3>6. QED
      BY <1>0, <1>7, <2>1, <3>4, <3>5, MainMoveKeeps
      DEF PacketRecv, Passed, Holding, MakingInv
  <2>4. QED
    BY <2>2, <2>3
<1>8. QED
  BY <1>1, <1>2, <1>3, <1>4, <1>5, <1>6, <1>7

-----------------------------------------------------------------------------
(* The other threads and the clock, where the table does not change. *)
LEMMA OthersStep ==
  ASSUME IInv,
         \/ RecvFails \/ RecvFinds \/ RecvTooMany \/ RecvFindsNone \/ RecvStamps
         \/ RecvPushes \/ RecvPushesFreed \/ Tick
         \/ \E peer \in Peer : RecvFrom(peer)
         \/ \E k \in Connection : Sender(k)
  PROVE  IInv'
<1> USE DEF Making
<1>0. /\ RecvType /\ now \in Int /\ (UNCHANGED connections => SoftChange)
      /\ (UNCHANGED connections => connections' \in Seq(ConnectionRecord))
      /\ (recv.pc \in Making <=> mutex = "recv")
      /\ MakingInv(recv)
      /\ connections \in Seq(ConnectionRecord) /\ Len(connections) \in Nat
      /\ \A k \in Connection : connections[k] \in ConnectionRecord
      /\ queues \in [Slot -> 0 .. Len(connections)]
  BY NoChangeIsSoft, ConnectionFacts DEF IInv, TypeInv, MutexInv, TableType
<1>1. CASE RecvFails
  <2>1. RecvType' /\ recv'.pc = "exited"
    BY <1>0, <1>1, RecvStartsOver DEF RecvFails
  <2>2. QED
    BY <1>0, <1>1, <2>1, OtherMoveKeeps DEF RecvFails, table, MakingInv
<1>2. CASE RecvFinds
  <2>1. PICK s \in Slot : recv' = Recv("stamp", s)
    BY <1>2 DEF RecvFinds
  <2>2. RecvType' /\ recv'.pc = "stamp"
    BY <1>0, <1>2, <2>1, RecvMoves, SlotFacts DEF RecvFinds, RecvPc, RecvType
  <2>3. QED
    BY <1>0, <1>2, <2>2, OtherMoveKeeps DEF RecvFinds, table, MakingInv
<1>3. CASE RecvTooMany
  <2>1. recv' = [RecvReady EXCEPT !.pc = "recvfrom"]
    BY <1>3 DEF RecvTooMany, RecvReady
  <2>2. RecvType' /\ recv'.pc = "recvfrom"
    BY <1>0, <1>3, <2>1, RecvStartsOver DEF RecvTooMany
  <2>3. QED
    BY <1>0, <1>3, <2>2, OtherMoveKeeps DEF RecvTooMany, table, MakingInv
<1>4. CASE RecvFindsNone
  <2>1. PICK s \in Slot : s \in Free /\ recv' = Recv("claim", s)
    BY <1>4 DEF RecvFindsNone, IsFirst, Free
  <2>2. /\ RecvType' /\ recv'.pc = "claim" /\ recv'.slot = s
        /\ recv'.address = recv.address
    BY <1>0, <1>4, <2>1, RecvMoves, SlotFacts DEF RecvFindsNone, RecvPc, RecvType
  <2>3. MakingInv(recv)'
    BY <1>4, <2>1, <2>2 DEF MakingInv, RecvFindsNone, table, Found, Free
  <2>4. QED
    BY <1>0, <1>4, <2>2, <2>3, OtherMoveKeeps DEF RecvFindsNone, table, CanLock, NoOne
<1>5. CASE RecvStamps
  <2>1. recv.slot \in Slot /\ queues[recv.slot] \in 0 .. Len(connections)
    BY <1>0, <1>5 DEF RecvStamps, RecvType
  <2>2. RecvType' /\ recv'.pc = "push"
    BY <1>0, <1>5, <2>1 DEF RecvStamps, RecvType, RecvPc
  <2>3. QED
    BY <1>0, <1>5, <2>2, OtherMoveKeeps DEF RecvStamps, MakingInv
<1>6. CASE RecvPushes
  <2> DEFINE k == recv.queues
  <2>1. SoftChange /\ connections' \in Seq(ConnectionRecord)
    <3>1. CASE UNCHANGED connections
      BY <1>0, <3>1
    <3>2. CASE /\ k \in Connection
               /\ connections' = [connections EXCEPT ![k].recv = Append(@, recv.address)]
      <4>1. connections[k].recv \in Seq(Peer) /\ recv.address \in Peer
        BY <1>0, <1>6, <3>2 DEF ConnectionRecord, RecvPushes, RecvType
      <4>2. Append(connections[k].recv, recv.address) \in Seq(Peer)
        BY <4>1, AppendProperties
      <4>3. QED
        BY <3>2, <4>2, RecvQueueChanges
    <3>3. k \notin Connection =>
            [connections EXCEPT ![k].recv = Append(@, recv.address)] = connections
      <4>1. connections \in [Connection -> ConnectionRecord]
        BY <1>0, LenProperties DEF Connection
      <4>2. QED
        BY <4>1
    <3>4. QED
      BY <1>6, <3>1, <3>2, <3>3 DEF RecvPushes
  <2>2. recv' = [RecvReady EXCEPT !.pc = "recvfrom"] /\ Len(connections') = Len(connections)
    BY <1>6, <2>1 DEF RecvPushes, RecvReady, SoftChange
  <2>3. RecvType' /\ recv'.pc = "recvfrom"
    BY <1>0, <2>2, RecvStartsOver
  <2>4. QED
    BY <1>0, <1>6, <2>1, <2>3, OtherMoveKeeps DEF RecvPushes, table, MakingInv
<1>7. CASE RecvPushesFreed
  <2>1. recv' = [RecvReady EXCEPT !.pc = "recvfrom"]
    BY <1>7 DEF RecvPushesFreed, RecvReady
  <2>2. RecvType' /\ recv'.pc = "recvfrom"
    BY <1>0, <1>7, <2>1, RecvStartsOver DEF RecvPushesFreed
  <2>3. QED
    BY <1>0, <1>7, <2>2, OtherMoveKeeps DEF RecvPushesFreed, table, MakingInv
<1>8. CASE Tick
  <2>1. now' \in Int
    BY <1>0, <1>8, SizesAssumption DEF Tick
  <2>2. RecvType'
    BY <1>0, <1>8, SameRecvType DEF Tick
  <2>3. MakingInv(recv)' /\ UNCHANGED <<address, queues, connections, main, mutex, recv>>
    BY <1>0, <1>8 DEF Tick, table, MakingInv, Found
  <2>4. QED
    BY <1>0, <2>1, <2>2, <2>3, OtherMoveKeeps
<1>9. ASSUME NEW peer \in Peer, RecvFrom(peer) PROVE IInv'
  <2>1. recv' = [pc |-> "find", slot |-> 0, address |-> peer, queues |-> 0]
    BY <1>9 DEF RecvFrom, RecvReady, Null
  <2>2. Len(connections') = Len(connections) /\ 0 \in 0 .. Len(connections)
    <3>1. UNCHANGED connections
      BY <1>9 DEF RecvFrom
    <3>2. QED
      BY <1>0, <3>1
  <2>3. \A n : 0 \in n => [pc |-> "find", slot |-> 0, address |-> peer, queues |-> 0]
          \in [pc : RecvPc, slot : 0 .. Slots, address : Peer \cup {NoPeer}, queues : n]
    BY SlotFacts DEF RecvPc
  <2>4. RecvType' /\ recv'.pc = "find"
    BY <2>1, <2>2, <2>3 DEF RecvType
  <2>5. QED
    BY <1>0, <1>9, <2>4, OtherMoveKeeps DEF RecvFrom, table, MakingInv
<1>10. ASSUME NEW k \in Connection, Sender(k) PROVE IInv'
  <2> DEFINE q == connections[k].send
  <2>1. q \in Seq({"packet", "NULL"}) /\ connections[k] \in ConnectionRecord
    BY <1>0 DEF ConnectionRecord
  <2>2. SoftChange /\ connections' \in Seq(ConnectionRecord)
    <3>1. CASE SenderPops(k)
      <4>1. Tail(q) \in Seq({"packet", "NULL"})
        BY <2>1, <3>1, HeadTailProperties DEF SenderPops
      <4>2. PICK next \in {"exited", "send"} :
              connections' = [connections EXCEPT ![k].send = Tail(q), ![k].sender = next]
        BY <3>1 DEF SenderPops
      <4>3. QED
        BY <3>1, <4>1, <4>2, SenderChanges DEF SenderPops
    <3>2. CASE SenderSends(k)
      <4>1. PICK next \in {"pop", "exited"} :
              connections' = [connections EXCEPT ![k].sender = next]
        BY <3>2 DEF SenderSends
      <4>2. connections' = [connections EXCEPT ![k].send = q, ![k].sender = next]
        BY <1>0, <2>1, <4>1 DEF ConnectionRecord
      <4>3. QED
        BY <2>1, <3>2, <4>1, <4>2, SenderChanges DEF SenderSends
    <3>3. QED
      BY <1>10, <3>1, <3>2 DEF Sender
  <2>3. UNCHANGED <<address, queues, mutex, main, recv, now>>
    BY <1>10 DEF Sender, SenderPops, SenderSends, table
  <2>4. RecvType' /\ MakingInv(recv)'
    BY <1>0, <2>2, <2>3, SameRecvType DEF SoftChange, MakingInv, Found
  <2>5. QED
    BY <1>0, <2>2, <2>3, <2>4, OtherMoveKeeps
<1>11. QED
  BY <1>1, <1>2, <1>3, <1>4, <1>5, <1>6, <1>7, <1>8, <1>9, <1>10

-----------------------------------------------------------------------------
(* A thread makes a connection, with the mutex: it takes the slot ...      *)

(* What a claim does for whichever thread makes it ("at").                 *)
LEMMA ClaimKeepsTable ==
  ASSUME IInv, NEW s \in Slot, NEW peer \in Peer, ClaimSlot(s, peer),
         address[s] = NoPeer, Found(peer) = {}
  PROVE  /\ TableType' /\ AddressesDistinct' /\ QueuesDistinct'
         /\ address'[s] = peer /\ queues[s] = Null
         /\ \A t \in Slot : t # s => address'[t] = address[t]
         /\ UNCHANGED <<queues, connections>>
<1>1. /\ address \in [Slot -> Peer \cup {NoPeer}]
      /\ address' = [address EXCEPT ![s] = peer]
      /\ UNCHANGED <<queues, connections>>
  BY DEF IInv, TypeInv, TableType, ClaimSlot
<1>2. \A t \in Slot : address[t] # peer
  BY DEF Found
<1>3. AddressesDistinct' /\ QueuesDistinct'
  BY <1>1, <1>2 DEF IInv, AddressesDistinct, QueuesDistinct
<1>4. TableType'
  BY <1>1 DEF IInv, TypeInv, TableType
<1>5. queues[s] = Null
  BY DEF IInv, TableInv
<1>6. QED
  BY <1>1, <1>3, <1>4, <1>5

LEMMA ClaimsStep ==
  ASSUME IInv, RecvClaims \/ ConnectClaims
  PROVE  IInv'
<1> USE DEF Making, TimingOut, Disconnecting, Using
<1>0. /\ MainType /\ RecvType /\ TableType /\ now \in Int /\ MutexInv
      /\ MakingInv(recv) /\ MakingInv(main) /\ TableInv /\ AliveInv /\ InUseInv
      /\ \A s \in Slot : queues[s] # Null => queues[s] \in Connection
  BY QueuesExist DEF IInv, TypeInv
<1>1. CASE RecvClaims
  <2> DEFINE s == recv.slot
  <2>1. /\ s \in Slot /\ recv.address \in Peer /\ recv.pc = "claim"
        /\ address[s] = NoPeer /\ Found(recv.address) = {}
        /\ ClaimSlot(s, recv.address) /\ UNCHANGED <<mutex, main, now>>
        /\ main.pc \notin Making \cup TimingOut \cup Disconnecting
    BY <1>0, <1>1 DEF RecvClaims, RecvType, MakingInv, MutexInv
  <2>2. /\ TableType' /\ AddressesDistinct' /\ QueuesDistinct'
        /\ address'[s] = recv.address /\ queues[s] = Null /\ recv.address # NoPeer
        /\ \A t \in Slot : t # s => address'[t] = address[t]
        /\ UNCHANGED <<queues, connections>>
    BY <2>1, ClaimKeepsTable, SlotFacts
  <2>3. /\ recv'.pc = "create" /\ recv'.slot = s /\ recv'.address = recv.address
        /\ RecvType'
    BY <1>0, <1>1, <2>1, <2>2 DEF RecvClaims, RecvType, RecvPc
  <2>4. MainType' /\ MutexInv' /\ MakingInv(recv)' /\ MakingInv(main)'
    BY <1>0, <2>1, <2>2, <2>3 DEF MainType, MutexInv, MakingInv
  <2>5. TableInv'
    BY <1>0, <2>1, <2>2, <2>3 DEF TableInv
  <2>6. AliveInv'
    BY <1>0, <2>1, <2>2 DEF AliveInv, Passed, Connection
  <2>7. InUseInv'
    BY <1>0, <2>1, <2>2 DEF InUseInv, MainType
  <2>8. QED
    BY <1>0, <2>1, <2>2, <2>3, <2>4, <2>5, <2>6, <2>7 DEF IInv, TypeInv
<1>2. CASE ConnectClaims
  <2> DEFINE s == main.slot
  <2>1. /\ s \in Slot /\ main.address \in Peer /\ main.pc = "claim"
        /\ address[s] = NoPeer /\ Found(main.address) = {}
        /\ ClaimSlot(s, main.address) /\ UNCHANGED <<mutex, recv, now>>
        /\ recv.pc \notin Making
    BY <1>0, <1>2 DEF ConnectClaims, MainType, MakingInv, MutexInv
  <2>2. /\ TableType' /\ AddressesDistinct' /\ QueuesDistinct'
        /\ address'[s] = main.address /\ queues[s] = Null /\ main.address # NoPeer
        /\ \A t \in Slot : t # s => address'[t] = address[t]
        /\ UNCHANGED <<queues, connections>>
    BY <2>1, ClaimKeepsTable, SlotFacts
  <2>3. /\ main'.pc = "create" /\ main'.slot = s /\ main'.address = main.address
        /\ MainType'
    BY <1>0, <1>2, <2>1, <2>2 DEF ConnectClaims, MainType, MainPc
  <2>4. RecvType' /\ MutexInv' /\ MakingInv(recv)' /\ MakingInv(main)'
    BY <1>0, <2>1, <2>2, <2>3 DEF RecvType, MutexInv, MakingInv
  <2>5. TableInv'
    BY <1>0, <2>1, <2>2, <2>3 DEF TableInv
  <2>6. AliveInv'
    BY <1>0, <2>1, <2>2, <2>3 DEF AliveInv, Passed, Connection
  <2>7. InUseInv'
    BY <2>3 DEF InUseInv
  <2>8. QED
    BY <1>0, <2>1, <2>2, <2>3, <2>4, <2>5, <2>6, <2>7 DEF IInv, TypeInv
<1>3. QED
  BY <1>1, <1>2

(* ... and gives it queues and a thread.                                   *)
LEMMA CreateKeepsTable ==
  ASSUME IInv, NEW s \in Slot, MakeQueues(s), address[s] # NoPeer, queues[s] = Null,
         main.pc \notin Disconnecting, main'.pc \notin Disconnecting
  PROVE  /\ TableType' /\ AddressesDistinct' /\ QueuesDistinct' /\ AliveInv'
         /\ Len(connections') = Len(connections) + 1 /\ Len(connections) \in Nat
         /\ queues'[s] # Null /\ connections'[queues'[s]].address = address[s]
         /\ \A t \in Slot : t # s => queues'[t] = queues[t]
         /\ \A t \in Slot : t # s /\ queues[t] # Null =>
              connections'[queues[t]] = connections[queues[t]]
         /\ UNCHANGED address
<1> DEFINE k == Len(connections) + 1
           c == [address |-> address[s], alive |-> TRUE, send |-> <<>>, recv |-> <<>>,
                 sender |-> "pop"]
<1>1. /\ TableType /\ QueuesDistinct /\ AddressesDistinct /\ AliveInv
      /\ Len(connections) \in Nat /\ Connection = 1 .. Len(connections)
      /\ \A t \in Slot : queues[t] # Null => queues[t] \in Connection
      /\ \A t \in Slot : queues[t] # k
  BY QueuesExist, ConnectionFacts DEF IInv, TypeInv, TableType
<1>2. /\ connections' = Append(connections, c) /\ UNCHANGED address
      /\ queues' = [queues EXCEPT ![s] = k]
  BY DEF MakeQueues
<1>3. c \in ConnectionRecord
  BY <1>1 DEF TableType, ConnectionRecord
<1>4. /\ connections' \in Seq(ConnectionRecord) /\ Len(connections') = k
      /\ \A j \in Connection : connections'[j] = connections[j]
      /\ connections'[k] = c
  BY <1>1, <1>2, <1>3, AppendProperties DEF TableType
<1>5. Connection' = 1 .. k /\ \A j \in Connection' : j = k \/ j \in Connection
  BY <1>1, <1>4, LenProperties DEF Connection
<1>6. /\ queues' \in [Slot -> 0 .. k] /\ queues'[s] = k
      /\ \A t \in Slot : t # s => queues'[t] = queues[t]
  BY <1>1, <1>2 DEF TableType
<1>7. TableType'
  BY <1>1, <1>2, <1>4, <1>6 DEF TableType
<1>8. AddressesDistinct' /\ QueuesDistinct'
  BY <1>1, <1>2, <1>6 DEF AddressesDistinct, QueuesDistinct
<1>9. AliveInv'
  <2>1. \A j \in Connection : connections[j].alive => \E t \in Slot : t # s /\ queues'[t] = j
    BY <1>1, <1>6 DEF AliveInv, Null
  <2>2. ASSUME NEW j \in Connection', connections'[j].alive
        PROVE  \E t \in Slot : queues'[t] = j
    BY <1>4, <1>5, <1>6, <2>1, <2>2
  <2>3. ASSUME NEW t \in Slot, queues'[t] # Null
        PROVE  connections'[queues'[t]].alive <=> ~Passed(t)'
    BY <1>1, <1>4, <1>6, <2>3 DEF AliveInv, Passed
  <2>4. ASSUME NEW j \in Connection', connections'[j].sender # "exited"
        PROVE  connections'[j].alive
    BY <1>1, <1>4, <1>5, <2>4 DEF AliveInv
  <2>5. QED
    BY <2>2, <2>3, <2>4 DEF AliveInv
<1>10. QED
  BY <1>1, <1>2, <1>4, <1>6, <1>7, <1>8, <1>9 DEF Null

LEMMA CreatesStep ==
  ASSUME IInv, RecvCreates \/ ConnectCreates
  PROVE  IInv'
<1> USE DEF Making, TimingOut, Disconnecting, Using
<1>0. /\ MainType /\ RecvType /\ TableType /\ now \in Int /\ MutexInv
      /\ MakingInv(recv) /\ MakingInv(main) /\ TableInv /\ InUseInv
  BY DEF IInv, TypeInv
<1>1. CASE RecvCreates
  <2> DEFINE s == recv.slot
  <2>1. /\ s \in Slot /\ recv.address \in Peer /\ recv.pc = "create" /\ mutex = "recv"
        /\ address[s] = recv.address /\ queues[s] = Null /\ mutex' = NoOne
        /\ MakeQueues(s) /\ UNCHANGED <<main, now>>
        /\ main.pc \notin Making \cup TimingOut \cup Disconnecting
    BY <1>0, <1>1 DEF RecvCreates, RecvType, MakingInv, MutexInv, MakeQueues
  <2>2. /\ TableType' /\ AddressesDistinct' /\ QueuesDistinct' /\ AliveInv'
        /\ Len(connections') = Len(connections) + 1 /\ Len(connections) \in Nat
        /\ queues'[s] # Null /\ connections'[queues'[s]].address = address[s]
        /\ \A t \in Slot : t # s => queues'[t] = queues[t]
        /\ \A t \in Slot : t # s /\ queues[t] # Null =>
             connections'[queues[t]] = connections[queues[t]]
        /\ UNCHANGED address
    BY <2>1, CreateKeepsTable, SlotFacts
  <2>3. recv'.pc = "stamp" /\ RecvType'
    <3>1. recv' = [recv EXCEPT !.pc = "stamp"] /\ recv'.pc = "stamp" /\ recv'.slot = s
          /\ recv'.address = recv.address
      BY <1>0, <1>1 DEF RecvCreates, RecvType
    <3>2. \A n \in 0 .. Len(connections) : n \in 0 .. Len(connections')
      BY <2>2
    <3>3. QED
      BY <1>0, <2>1, <3>1, <3>2 DEF RecvType, RecvPc
  <2>4. MainType' /\ MutexInv' /\ MakingInv(recv)' /\ MakingInv(main)'
    BY <1>0, <2>1, <2>2, <2>3 DEF MainType, MutexInv, MakingInv, NoOne
  <2>5. TableInv'
    <3>1. ASSUME NEW t \in Slot, address'[t] = NoPeer PROVE queues'[t] = Null
      BY <1>0, <2>1, <2>2, <3>1, SlotFacts DEF TableInv
    <3>2. \A t \in Slot : ~(address'[t] # NoPeer /\ queues'[t] = Null)
      BY <1>0, <2>1, <2>2 DEF TableInv, MutexInv
    <3>3. ASSUME NEW t \in Slot, queues'[t] # Null
          PROVE  connections'[queues'[t]].address = address'[t]
      BY <1>0, <2>1, <2>2, <3>3 DEF TableInv
    <3>4. QED
      BY <3>1, <3>2, <3>3 DEF TableInv
  <2>6. InUseInv'
    BY <1>0, <2>1, <2>2 DEF InUseInv, MainType
  <2>7. QED
    BY <1>0, <2>1, <2>2, <2>3, <2>4, <2>5, <2>6 DEF IInv, TypeInv
<1>2. CASE ConnectCreates
  <2> DEFINE s == main.slot
  <2>1. /\ s \in Slot /\ main.address \in Peer /\ main.pc = "create" /\ mutex = "main"
        /\ address[s] = main.address /\ queues[s] = Null /\ mutex' = NoOne
        /\ MakeQueues(s) /\ UNCHANGED <<recv, now>> /\ recv.pc \notin Making
    BY <1>0, <1>2 DEF ConnectCreates, MainType, MakingInv, MutexInv, MakeQueues
  <2>2. main'.pc = "idle" /\ MainType'
    BY <1>0, <1>2, SlotFacts DEF ConnectCreates, Main, MainType, MainPc
  <2>3. /\ TableType' /\ AddressesDistinct' /\ QueuesDistinct' /\ AliveInv'
        /\ Len(connections') = Len(connections) + 1 /\ Len(connections) \in Nat
        /\ queues'[s] # Null /\ connections'[queues'[s]].address = address[s]
        /\ \A t \in Slot : t # s => queues'[t] = queues[t]
        /\ \A t \in Slot : t # s /\ queues[t] # Null =>
             connections'[queues[t]] = connections[queues[t]]
        /\ UNCHANGED address
    BY <2>1, <2>2, CreateKeepsTable, SlotFacts
  <2>4. RecvType'
    <3>1. \A n \in 0 .. Len(connections) : n \in 0 .. Len(connections')
      BY <2>3
    <3>2. QED
      BY <1>0, <2>1, <3>1 DEF RecvType
  <2>5. MutexInv' /\ MakingInv(recv)' /\ MakingInv(main)' /\ InUseInv'
    BY <1>0, <2>1, <2>2, <2>3 DEF MutexInv, MakingInv, NoOne, InUseInv
  <2>6. TableInv'
    <3>1. ASSUME NEW t \in Slot, address'[t] = NoPeer PROVE queues'[t] = Null
      BY <1>0, <2>1, <2>3, <3>1, SlotFacts DEF TableInv
    <3>2. \A t \in Slot : ~(address'[t] # NoPeer /\ queues'[t] = Null)
      BY <1>0, <2>1, <2>3 DEF TableInv, MutexInv
    <3>3. ASSUME NEW t \in Slot, queues'[t] # Null
          PROVE  connections'[queues'[t]].address = address'[t]
      BY <1>0, <2>1, <2>3, <3>3 DEF TableInv
    <3>4. QED
      BY <3>1, <3>2, <3>3 DEF TableInv
  <2>7. QED
    BY <1>0, <2>1, <2>2, <2>3, <2>4, <2>5, <2>6 DEF IInv, TypeInv
<1>3. QED
  BY <1>1, <1>2

-----------------------------------------------------------------------------
(* The end of a connection, after its thread, and of all of them.          *)

(* The queues of connection k go.                                          *)
LEMMA DyingFacts ==
  ASSUME IInv, NEW k \in Connection, Joined(k),
         connections' = [connections EXCEPT ![k].alive = FALSE]
  PROVE  /\ connections' \in Seq(ConnectionRecord) /\ Connection' = Connection
         /\ Len(connections') = Len(connections)
         /\ \A j \in Connection : connections'[j].address = connections[j].address
         /\ \A j \in Connection : j # k => connections'[j] = connections[j]
         /\ ~connections'[k].alive /\ connections'[k].sender = "exited"
<1> DEFINE c == [connections[k] EXCEPT !.alive = FALSE]
<1>1. connections[k] \in ConnectionRecord /\ connections \in Seq(ConnectionRecord)
  BY ConnectionFacts DEF IInv, TypeInv, TableType
<1>2. /\ c \in ConnectionRecord /\ c.address = connections[k].address /\ c.alive = FALSE
      /\ c.sender = "exited"
  BY <1>1 DEF ConnectionRecord, Joined
<1>3. connections' = [connections EXCEPT ![k] = c]
  OBVIOUS
<1> HIDE DEF c
<1>4. /\ connections' \in Seq(ConnectionRecord)
      /\ Len(connections') = Len(connections) /\ Connection' = Connection
      /\ connections'[k] = c
      /\ \A j \in Connection : j # k => connections'[j] = connections[j]
  BY <1>1, <1>2, <1>3, OneConnectionChanges
<1>5. \A j \in Connection : connections'[j].address = connections[j].address
  BY <1>2, <1>4
<1>6. QED
  BY <1>2, <1>4, <1>5

LEMMA TimeoutJoinsStep ==
  ASSUME IInv, TimeoutJoins
  PROVE  IInv'
<1> DEFINE s == main.slot
           k == queues[s]
<1> USE DEF Making, TimingOut, Disconnecting, Using
<1>0. /\ MainType /\ RecvType /\ TableType /\ now \in Int /\ MutexInv /\ AddressesDistinct
      /\ MakingInv(recv) /\ MakingInv(main) /\ TableInv /\ QueuesDistinct /\ AliveInv
      /\ \A t \in Slot : queues[t] # Null => queues[t] \in Connection
      /\ Len(connections) \in Nat /\ 0 \in 0 .. Len(connections)
  BY QueuesExist, ConnectionFacts DEF IInv, TypeInv, TableType
<1>1. /\ main.pc = "timeout_join" /\ s \in Slot /\ k # Null /\ k \in Connection /\ Joined(k)
      /\ connections' = [connections EXCEPT ![k].alive = FALSE]
      /\ main' = Main("timeout", s + 1) /\ ClearSlots({s})
      /\ UNCHANGED <<mutex, recv, now>> /\ recv.pc \notin Making
  BY <1>0 DEF TimeoutJoins, MainType, MutexInv, IInv, InUseInv
<1>2. /\ connections' \in Seq(ConnectionRecord) /\ Connection' = Connection
      /\ Len(connections') = Len(connections)
      /\ \A j \in Connection : connections'[j].address = connections[j].address
      /\ \A j \in Connection : j # k => connections'[j] = connections[j]
      /\ ~connections'[k].alive /\ connections'[k].sender = "exited"
  BY <1>1, DyingFacts
<1>3. MainType' /\ main'.pc = "timeout" /\ main'.slot = s + 1
  BY <1>0, <1>1, MainMoves, SlotFacts DEF MainPc
<1>4. /\ address' = [t \in Slot |-> IF t = s THEN NoPeer ELSE address[t]]
      /\ queues' = [t \in Slot |-> IF t = s THEN Null ELSE queues[t]]
  BY <1>1 DEF ClearSlots
<1>5. TableType' /\ RecvType'
  BY <1>0, <1>1, <1>2, <1>4 DEF TableType, RecvType, Null
<1>6. MutexInv' /\ MakingInv(recv)' /\ MakingInv(main)' /\ InUseInv'
  BY <1>0, <1>1, <1>3 DEF MutexInv, MakingInv, InUseInv
<1>7. AddressesDistinct' /\ QueuesDistinct'
  BY <1>0, <1>4 DEF AddressesDistinct, QueuesDistinct
<1>8. TableInv'
  BY <1>0, <1>1, <1>2, <1>3, <1>4 DEF TableInv
<1>9. AliveInv'
  <2>1. ASSUME NEW j \in Connection, connections'[j].alive PROVE \E t \in Slot : queues'[t] = j
    BY <1>0, <1>1, <1>2, <1>4, <2>1 DEF AliveInv
  <2>2. ASSUME NEW t \in Slot, queues'[t] # Null
        PROVE  connections'[queues'[t]].alive <=> ~Passed(t)'
    BY <1>0, <1>1, <1>2, <1>3, <1>4, <2>2 DEF AliveInv, Passed, QueuesDistinct
  <2>3. ASSUME NEW j \in Connection, connections'[j].sender # "exited"
        PROVE  connections'[j].alive
    BY <1>0, <1>2, <2>3 DEF AliveInv
  <2>4. QED
    BY <1>2, <2>1, <2>2, <2>3 DEF AliveInv
<1>10. QED
  BY <1>0, <1>1, <1>3, <1>5, <1>6, <1>7, <1>8, <1>9 DEF IInv, TypeInv

LEMMA DisconnectJoinsStep ==
  ASSUME IInv, DisconnectJoins
  PROVE  IInv'
<1> DEFINE s == main.slot
           k == queues[s]
<1> USE DEF Making, TimingOut, Disconnecting, Using
<1>0. /\ MainType /\ RecvType /\ TableType /\ now \in Int /\ MutexInv /\ AddressesDistinct
      /\ MakingInv(recv) /\ MakingInv(main) /\ TableInv /\ QueuesDistinct /\ AliveInv
      /\ \A t \in Slot : queues[t] # Null => queues[t] \in Connection
  BY QueuesExist DEF IInv, TypeInv
<1>1. /\ main.pc = "disconnect_join" /\ s \in Slot /\ k # Null /\ k \in Connection /\ Joined(k)
      /\ connections' = [connections EXCEPT ![k].alive = FALSE]
      /\ main' = Main("disconnect", s + 1)
      /\ UNCHANGED <<address, queues, mutex, recv, now>> /\ recv.pc \notin Making
  BY <1>0 DEF DisconnectJoins, MainType, MutexInv, IInv, InUseInv, table
<1>2. /\ connections' \in Seq(ConnectionRecord) /\ Connection' = Connection
      /\ Len(connections') = Len(connections)
      /\ \A j \in Connection : connections'[j].address = connections[j].address
      /\ \A j \in Connection : j # k => connections'[j] = connections[j]
      /\ ~connections'[k].alive /\ connections'[k].sender = "exited"
  BY <1>1, DyingFacts
<1>3. MainType' /\ main'.pc = "disconnect" /\ main'.slot = s + 1
  BY <1>0, <1>1, MainMoves, SlotFacts DEF MainPc
<1>4. TableType' /\ RecvType'
  BY <1>0, <1>1, <1>2 DEF TableType, RecvType
<1>5. MutexInv' /\ MakingInv(recv)' /\ MakingInv(main)' /\ InUseInv'
  BY <1>0, <1>1, <1>3 DEF MutexInv, MakingInv, InUseInv
<1>6. AddressesDistinct' /\ QueuesDistinct'
  BY <1>0, <1>1 DEF AddressesDistinct, QueuesDistinct
<1>7. TableInv'
  BY <1>0, <1>1, <1>2, <1>3 DEF TableInv
<1>8. AliveInv'
  <2>1. ASSUME NEW j \in Connection, connections'[j].alive PROVE \E t \in Slot : queues'[t] = j
    BY <1>0, <1>1, <1>2, <2>1 DEF AliveInv
  <2>2. ASSUME NEW t \in Slot, queues'[t] # Null
        PROVE  connections'[queues'[t]].alive <=> ~Passed(t)'
    <3>1. Passed(t)' <=> Passed(t) \/ t = s
      BY <1>1, <1>3, SlotFacts DEF Passed
    <3>2. QED
      BY <1>0, <1>1, <1>2, <2>2, <3>1 DEF AliveInv, QueuesDistinct
  <2>3. ASSUME NEW j \in Connection, connections'[j].sender # "exited"
        PROVE  connections'[j].alive
    BY <1>0, <1>2, <2>3 DEF AliveInv
  <2>4. QED
    BY <1>2, <2>1, <2>2, <2>3 DEF AliveInv
<1>9. QED
  BY <1>0, <1>1, <1>3, <1>4, <1>5, <1>6, <1>7, <1>8 DEF IInv, TypeInv

(* net_disconnect_all has been past every slot: nothing is alive.          *)
LEMMA DisconnectEndsStep ==
  ASSUME IInv, DisconnectEnds
  PROVE  IInv'
<1> USE DEF Making, TimingOut, Disconnecting, Using
<1>0. /\ MainType /\ RecvType /\ TableType /\ now \in Int /\ MutexInv /\ AliveInv
      /\ MakingInv(recv) /\ \A t \in Slot : queues[t] # Null => queues[t] \in Connection
      /\ Len(connections) \in Nat /\ 0 \in 0 .. Len(connections)
  BY QueuesExist, ConnectionFacts DEF IInv, TypeInv, TableType
<1>1. /\ main.pc = "disconnect" /\ main.slot \notin Slot /\ main' = Main("close", 0)
      /\ ClearSlots(Slot) /\ mutex' = NoOne /\ UNCHANGED <<connections, recv, now>>
      /\ recv.pc \notin Making /\ mutex = "main"
  BY <1>0 DEF DisconnectEnds, MutexInv
<1>2. MainType' /\ main'.pc = "close" /\ main'.slot = 0
  BY <1>0, <1>1, MainMoves, SlotFacts DEF MainPc
<1>3. \A t \in Slot : address'[t] = NoPeer /\ queues'[t] = Null
  BY <1>1 DEF ClearSlots
<1>4. TableType' /\ RecvType'
  BY <1>0, <1>1 DEF TableType, RecvType, ClearSlots, Null
<1>5. MutexInv' /\ MakingInv(recv)' /\ MakingInv(main)' /\ InUseInv'
  BY <1>0, <1>1, <1>2 DEF MutexInv, MakingInv, InUseInv, NoOne
<1>6. AddressesDistinct' /\ QueuesDistinct' /\ TableInv'
  BY <1>3 DEF AddressesDistinct, QueuesDistinct, TableInv
<1>7. AliveInv'
  <2>1. \A t \in Slot : Passed(t)
    <3>1. main.slot = Slots + 1
      BY <1>0, <1>1, SlotFacts DEF MainType
    <3>2. QED
      BY <1>1, <3>1, SlotFacts DEF Passed
  <2>2. \A j \in Connection : ~connections[j].alive
    BY <1>0, <2>1 DEF AliveInv, Null, Connection
  <2>3. QED
    BY <1>0, <1>1, <1>3, <2>2 DEF AliveInv, Connection
<1>8. QED
  BY <1>0, <1>1, <1>2, <1>4, <1>5, <1>6, <1>7 DEF IInv, TypeInv

LEMMA StutterStep ==
  ASSUME IInv, UNCHANGED vars
  PROVE  IInv'
  BY DEF IInv, TypeInv, MainType, RecvType, TableType, MutexInv, MakingInv, Found,
         AddressesDistinct, TableInv, QueuesDistinct, AliveInv, Passed, Connection, InUseInv,
         vars, table

LEMMA InvStep == IInv /\ [Next]_vars => IInv'
<1> SUFFICES ASSUME IInv, [Next]_vars PROVE IInv'
  OBVIOUS
<1>1. CASE InCall
  BY <1>1, MainMovesStep, MainWorksStep, ClaimsStep, CreatesStep, TimeoutJoinsStep,
     DisconnectJoinsStep, DisconnectEndsStep
  DEF InCall, Locking
<1>2. CASE RecvThread
  BY <1>2, OthersStep, ClaimsStep, CreatesStep DEF RecvThread, RecvClosed
<1>3. QED
  BY <1>1, <1>2, MainMovesStep, MainWorksStep, OthersStep, StutterStep DEF Next, Over

-----------------------------------------------------------------------------
LEMMA InitIInv == Init => IInv
  BY InitInv DEF PacketInv

(* No peer has two connections, however many slots and peers there are and *)
(* whatever the threads do (find_or_create_connection, the timeout and     *)
(* net_disconnect_all under connections_mutex).                            *)
THEOREM PeersHaveOneConnection == Spec => []OneConnectionPerPeer
<1>1. ASSUME IInv PROVE OneConnectionPerPeer
  <2>1. \A s, t \in Slot : address[s] = address[t] /\ address[s] # NoPeer => s = t
    BY <1>1 DEF IInv, AddressesDistinct
  <2>2. ASSUME NEW j \in Connection, NEW k \in Connection, connections[j].alive,
               connections[k].alive, connections[j].address = connections[k].address
        PROVE  j = k
    <3>1. PICK s \in Slot : queues[s] = j
      BY <1>1, <2>2 DEF IInv, AliveInv
    <3>2. PICK t \in Slot : queues[t] = k
      BY <1>1, <2>2 DEF IInv, AliveInv
    <3>3. j # Null /\ k # Null
      BY <1>1, ConnectionFacts DEF IInv, TypeInv, TableType, Null
    <3>4. address[s] = address[t] /\ address[s] # NoPeer
      BY <1>1, <2>2, <3>1, <3>2, <3>3 DEF IInv, TableInv
    <3>5. QED
      BY <2>1, <3>1, <3>2, <3>4
  <2>3. QED
    BY <2>1, <2>2 DEF OneConnectionPerPeer
<1>2. QED
  BY <1>1, InitIInv, InvStep, PTL DEF Spec

(* A send thread never finds its queue destroyed, and the table never      *)
(* points to destroyed queues but while it is about to be cleared.         *)
THEOREM QueuesLastLongEnough == Spec => []QueuesOutliveUsers
<1>1. ASSUME IInv PROVE QueuesOutliveUsers
  <2>1. \A k \in Connection : connections[k].sender # "exited" => connections[k].alive
    BY <1>1 DEF IInv, AliveInv
  <2>2. ASSUME NEW s \in Slot, queues[s] # Null, ~connections[queues[s]].alive
        PROVE  mutex = "main" /\ main.pc \in Disconnecting
    BY <1>1, <2>2 DEF IInv, AliveInv, Passed, MutexInv
  <2>3. \A s, t \in Slot : queues[s] = queues[t] /\ queues[s] # Null => s = t
    BY <1>1 DEF IInv, QueuesDistinct
  <2>4. QED
    BY <2>1, <2>2, <2>3 DEF QueuesOutliveUsers, Disconnecting
<1>2. QED
  BY <1>1, InitIInv, InvStep, PTL DEF Spec

-----------------------------------------------------------------------------
(* Packets are pushed to the connection of the peer they came from.        *)

(* What a step keeps of the connections: their addresses, and no packet    *)
(* is added to one.                                                        *)
NoPacketAdded ==
  /\ \A k \in Connection : /\ k \in Connection'
                           /\ connections'[k].address = connections[k].address
  /\ \A k \in Connection' :
       \/ k \in Connection /\ connections'[k].recv = connections[k].recv
       \/ /\ k \in Connection /\ connections[k].recv # <<>>
          /\ connections'[k].recv = Tail(connections[k].recv)
       \/ connections'[k].recv = <<>>

LEMMA PacketsKept ==
  ASSUME IInv, PacketsOfPeer, NoPacketAdded
  PROVE  PacketsOfPeer'
<1> SUFFICES ASSUME NEW k \in Connection', NEW i \in DOMAIN connections'[k].recv
             PROVE  connections'[k].recv[i] = connections'[k].address
  BY DEF PacketsOfPeer
<1>1. CASE k \in Connection /\ connections'[k].recv = connections[k].recv
  BY <1>1 DEF PacketsOfPeer, NoPacketAdded
<1>2. CASE /\ k \in Connection /\ connections[k].recv # <<>>
           /\ connections'[k].recv = Tail(connections[k].recv)
  <2> DEFINE q == connections[k].recv
  <2>1. q \in Seq(Peer)
    BY <1>2, ConnectionFacts DEF IInv, TypeInv, TableType, ConnectionRecord
  <2>2. /\ Tail(q) \in Seq(Peer) /\ Len(Tail(q)) = Len(q) - 1 /\ Len(q) \in Nat
        /\ \A j \in 1 .. Len(Tail(q)) : Tail(q)[j] = q[j + 1]
    BY <1>2, <2>1, HeadTailProperties, LenProperties
  <2>3. i \in 1 .. Len(Tail(q)) /\ i + 1 \in DOMAIN q
    BY <1>2, <2>1, <2>2, LenProperties
  <2>4. QED
    BY <1>2, <2>2, <2>3 DEF PacketsOfPeer, NoPacketAdded
<1>3. CASE connections'[k].recv = <<>>
  BY <1>3
<1>4. QED
  BY <1>1, <1>2, <1>3 DEF NoPacketAdded

LEMMA OtherFields ==
  ASSUME IInv, NEW k \in Connection, NEW x, NEW y,
         \/ connections' = [connections EXCEPT ![k].send = x]
         \/ connections' = [connections EXCEPT ![k].alive = x]
         \/ connections' = [connections EXCEPT ![k].sender = x]
         \/ connections' = [connections EXCEPT ![k].send = x, ![k].sender = y]
  PROVE  NoPacketAdded
<1>1. connections \in [Connection -> ConnectionRecord]
  BY LenProperties DEF IInv, TypeInv, TableType, Connection
<1>2. Connection' = Connection
  BY DEF Connection
<1>3. ASSUME NEW j \in Connection
      PROVE  /\ connections'[j].address = connections[j].address
             /\ connections'[j].recv = connections[j].recv
  <2>1. connections[k] \in ConnectionRecord
    BY <1>1
  <2>2. CASE j # k
    BY <1>1, <2>2
  <2>3. connections'[k] \in {[connections[k] EXCEPT !.send = x], [connections[k] EXCEPT !.alive = x],
                            [connections[k] EXCEPT !.sender = x],
                            [connections[k] EXCEPT !.send = x, !.sender = y]}
    BY <1>1, <2>1
  <2>4. /\ connections'[k].address = connections[k].address
        /\ connections'[k].recv = connections[k].recv
    BY <2>1, <2>3 DEF ConnectionRecord
  <2>5. QED
    BY <2>2, <2>4
<1>4. QED
  BY <1>2, <1>3 DEF NoPacketAdded

LEMMA NewConnection ==
  ASSUME IInv, NEW s \in Slot, MakeQueues(s), address[s] \in Peer
  PROVE  NoPacketAdded
<1> DEFINE k == Len(connections) + 1
           c == [address |-> address[s], alive |-> TRUE, send |-> <<>>, recv |-> <<>>,
                 sender |-> "pop"]
<1>1. /\ connections \in Seq(ConnectionRecord) /\ Len(connections) \in Nat
      /\ Connection = 1 .. Len(connections)
  BY ConnectionFacts DEF IInv, TypeInv, TableType
<1>2. connections' = Append(connections, c) /\ c \in ConnectionRecord
  BY DEF MakeQueues, ConnectionRecord
<1>3. /\ connections' \in Seq(ConnectionRecord) /\ Len(connections') = k
      /\ \A j \in Connection : connections'[j] = connections[j]
      /\ connections'[k].recv = <<>>
  BY <1>1, <1>2, AppendProperties
<1>4. Connection' = 1 .. k /\ \A j \in Connection' : j = k \/ j \in Connection
  BY <1>1, <1>3, LenProperties DEF Connection
<1>5. QED
  BY <1>1, <1>3, <1>4 DEF NoPacketAdded

LEMMA SameConnections ==
  ASSUME UNCHANGED connections
  PROVE  NoPacketAdded
  BY DEF NoPacketAdded, Connection

(* The packet a thread is about to push stays with its connection.         *)
LEMMA StampKept ==
  ASSUME IInv, StampInv, NoPacketAdded, UNCHANGED recv, ~crashed,
         main'.pc \in {"start"} \cup Making => main.pc \in {"start"} \cup Making,
         \A s \in Slot : \/ address'[s] = address[s]
                         \/ address'[s] = NoPeer /\ main'.pc \notin {"start"} \cup Making
                         \/ address[s] = NoPeer /\ main.pc \in Making
  PROVE  StampInv'
<1>1. /\ recv.pc \in {"stamp"} => recv.slot \in Slot /\ recv.address \in Peer
      /\ recv.queues \in 0 .. Len(connections)
      /\ recv.queues # Null => recv.queues \in Connection
  BY ConnectionFacts DEF IInv, TypeInv, RecvType, TableType, Null
<1>2. ASSUME recv.pc = "stamp"
      PROVE  /\ address'[recv.slot] \in {recv.address, NoPeer}
             /\ main'.pc \in {"start"} \cup Making => address'[recv.slot] = recv.address
  BY <1>1, <1>2, SlotFacts DEF StampInv
<1>3. ASSUME recv.pc = "push"
      PROVE  recv.queues # Null /\ connections'[recv.queues].address = recv.address
  BY <1>1, <1>3 DEF StampInv, NoPacketAdded
<1>4. QED
  BY <1>2, <1>3 DEF StampInv

LEMMA PacketTaken ==
  ASSUME IInv, NEW k \in Connection, connections[k].recv # <<>>,
         connections' = [connections EXCEPT ![k].recv = Tail(@)]
  PROVE  NoPacketAdded
<1>1. connections \in [Connection -> ConnectionRecord] /\ connections[k] \in ConnectionRecord
  BY LenProperties DEF IInv, TypeInv, TableType, Connection
<1>2. Connection' = Connection
  BY DEF Connection
<1>3. /\ connections'[k] = [connections[k] EXCEPT !.recv = Tail(connections[k].recv)]
      /\ \A j \in Connection : j # k => connections'[j] = connections[j]
  BY <1>1
<1>4. /\ connections'[k].address = connections[k].address
      /\ connections'[k].recv = Tail(connections[k].recv)
  BY <1>1, <1>3 DEF ConnectionRecord
<1>5. QED
  BY <1>2, <1>3, <1>4 DEF NoPacketAdded

LEMMA PacketPushed ==
  ASSUME IInv, PacketsOfPeer, NEW k \in Connection,
         connections' = [connections EXCEPT ![k].recv = Append(@, connections[k].address)]
  PROVE  PacketsOfPeer'
<1> DEFINE q == connections[k].recv
           a == connections[k].address
<1>1. connections \in [Connection -> ConnectionRecord] /\ connections[k] \in ConnectionRecord
  BY LenProperties DEF IInv, TypeInv, TableType, Connection
<1>2. Connection' = Connection
  BY DEF Connection
<1>3. /\ connections'[k] = [connections[k] EXCEPT !.recv = Append(q, a)]
      /\ \A j \in Connection : j # k => connections'[j] = connections[j]
  BY <1>1
<1>4. connections'[k].address = a /\ connections'[k].recv = Append(q, a)
  BY <1>1, <1>3 DEF ConnectionRecord
<1>5. q \in Seq(Peer) /\ a \in Peer
  BY <1>1 DEF ConnectionRecord
<1>6. ASSUME NEW i \in DOMAIN Append(q, a) PROVE Append(q, a)[i] = a
  <2>1. /\ Append(q, a) \in Seq(Peer) /\ Len(Append(q, a)) = Len(q) + 1 /\ Len(q) \in Nat
        /\ DOMAIN q = 1 .. Len(q) /\ DOMAIN Append(q, a) = 1 .. Len(q) + 1
        /\ \A j \in 1 .. Len(q) : Append(q, a)[j] = q[j]
        /\ Append(q, a)[Len(q) + 1] = a
    BY <1>5, AppendProperties, LenProperties
  <2>2. i = Len(q) + 1 \/ i \in DOMAIN q
    BY <1>6, <2>1
  <2>3. QED
    BY <2>1, <2>2 DEF PacketsOfPeer
<1>7. QED
  BY <1>2, <1>3, <1>4, <1>6 DEF PacketsOfPeer

LEMMA PacketsElsewhere ==
  ASSUME PacketInv, ~crashed, Serve \/ Update \/ Destroy \/ InCall \/ Connect
  PROVE  StampInv' /\ PacketsOfPeer'
<1> USE DEF Making, TimingOut, Disconnecting, Using
<1>0. /\ IInv /\ StampInv /\ PacketsOfPeer /\ MainType /\ MutexInv
      /\ \A s \in Slot : queues[s] # Null => queues[s] \in Connection
      /\ main.pc \in Using => queues[main.slot] \in Connection
      /\ (UNCHANGED connections => NoPacketAdded)
      /\ (NoPacketAdded => PacketsOfPeer')
  BY QueuesExist, SameConnections, PacketsKept
  DEF PacketInv, IInv, TypeInv, MainType, InUseInv
<1> USE DEF Main
<1>1. CASE Serve \/ Update \/ Destroy \/ Locking \/ TimeoutLooks \/ DisconnectLooks \/ CloseSocket
           \/ JoinRecv \/ SkipSlot \/ UpdateReturns \/ Connect \/ TimeoutEnds \/ PacketSendToNull
  <2>1. UNCHANGED <<address, connections, recv>>
    BY <1>1 DEF Serve, Update, Destroy, Locking, LockForTimeout, LockForDisconnect, TimeoutLooks,
            DisconnectLooks, CloseSocket, JoinRecv, SkipSlot, UpdateReturns, Connect, TimeoutEnds,
            PacketSendToNull, table
  <2>2. main'.pc \in {"start"} \cup Making => main.pc \in {"start"} \cup Making
    BY <1>0, <1>1
    DEF Serve, Update, Destroy, Locking, LockForTimeout, LockForDisconnect, TimeoutLooks,
        DisconnectLooks, CloseSocket, JoinRecv, SkipSlot, UpdateReturns, Connect, TimeoutEnds,
        PacketSendToNull, MainType
  <2>3. QED
    BY <1>0, <2>1, <2>2, StampKept
<1>2. CASE ConnectClaims
  <2>1. /\ UNCHANGED <<connections, recv>> /\ main.pc \in Making
        /\ \A s \in Slot : address'[s] = address[s] \/ address[s] = NoPeer
    BY <1>0, <1>2 DEF ConnectClaims, ClaimSlot, IInv, MakingInv, TypeInv, TableType
  <2>2. QED
    BY <1>0, <2>1, StampKept
<1>3. CASE ConnectCreates
  <2>1. main.slot \in Slot /\ address[main.slot] \in Peer
    BY <1>0, <1>3 DEF ConnectCreates, MainType, IInv, MakingInv
  <2>2. /\ UNCHANGED <<address, recv>> /\ main'.pc = "idle" /\ MakeQueues(main.slot)
    BY <1>0, <1>3 DEF ConnectCreates, MakeQueues, MainType
  <2>3. NoPacketAdded
    BY <1>0, <2>1, <2>2, NewConnection
  <2>4. QED
    BY <1>0, <2>2, <2>3, StampKept
<1>4. CASE TearDownPushes
  <2>1. /\ UNCHANGED <<address, recv>> /\ main'.pc \notin {"start"} \cup Making
        /\ queues[main.slot] \in Connection
        /\ \E x : connections' = [connections EXCEPT ![queues[main.slot]].send = x]
    BY <1>0, <1>4 DEF TearDownPushes, table, MainType
  <2>2. NoPacketAdded
    BY <1>0, <2>1, OtherFields
  <2>3. QED
    BY <1>0, <2>1, <2>2, StampKept
<1>5. CASE TimeoutJoins \/ DisconnectJoins
  <2>1. /\ UNCHANGED recv /\ main'.pc \notin {"start"} \cup Making
        /\ queues[main.slot] \in Connection
        /\ connections' = [connections EXCEPT ![queues[main.slot]].alive = FALSE]
        /\ \A s \in Slot : address'[s] \in {address[s], NoPeer}
    <3>1. UNCHANGED recv /\ main.pc \in {"timeout_join", "disconnect_join"}
      BY <1>5 DEF TimeoutJoins, DisconnectJoins
    <3>2. main'.pc \notin {"start"} \cup Making
      BY <1>0, <1>5 DEF TimeoutJoins, DisconnectJoins, Main, MainType
    <3>3. queues[main.slot] \in Connection
      BY <1>0, <3>1
    <3>4. connections' = [connections EXCEPT ![queues[main.slot]].alive = FALSE]
      BY <1>5 DEF TimeoutJoins, DisconnectJoins
    <3>5. \A s \in Slot : address'[s] \in {address[s], NoPeer}
      BY <1>5 DEF TimeoutJoins, DisconnectJoins, table, ClearSlots
    <3>6. QED
      BY <3>1, <3>2, <3>3, <3>4, <3>5
  <2>2. NoPacketAdded
    BY <1>0, <2>1, OtherFields
  <2>3. QED
    BY <1>0, <2>1, <2>2, StampKept
<1>6. CASE DisconnectEnds
  <2>1. /\ UNCHANGED <<connections, recv>> /\ main'.pc = "close"
        /\ \A s \in Slot : address'[s] = NoPeer
    BY <1>0, <1>6 DEF DisconnectEnds, MainType, ClearSlots
  <2>2. QED
    BY <1>0, <2>1, StampKept
<1>7. CASE PacketSend
  <2>1. /\ UNCHANGED <<address, recv>> /\ main'.pc \notin {"start"} \cup Making
        /\ queues[main.slot] \in Connection
        /\ \E x : connections' = [connections EXCEPT ![queues[main.slot]].send = x]
    BY <1>0, <1>7 DEF PacketSend, table, MainType
  <2>2. NoPacketAdded
    BY <1>0, <2>1, OtherFields
  <2>3. QED
    BY <1>0, <2>1, <2>2, StampKept
<1>8. CASE PacketRecv
  <2> DEFINE k == queues[main.slot]
  <2>1. /\ UNCHANGED <<address, recv>> /\ main'.pc \notin {"start"} \cup Making
        /\ k \in Connection
        /\ \/ UNCHANGED connections
           \/ /\ connections[k].recv # <<>>
              /\ connections' = [connections EXCEPT ![k].recv = Tail(@)]
    BY <1>0, <1>8 DEF PacketRecv, table, MainType
  <2>2. NoPacketAdded
    BY <1>0, <2>1, PacketTaken
  <2>3. QED
    BY <1>0, <2>1, <2>2, StampKept
<1>9. QED
  BY <1>1, <1>2, <1>3, <1>4, <1>5, <1>6, <1>7, <1>8 DEF InCall

LEMMA PacketsOfOthers ==
  ASSUME PacketInv, ~crashed, Tick \/ \E k \in Connection : Sender(k)
  PROVE  StampInv' /\ PacketsOfPeer'
<1>0. IInv /\ StampInv /\ PacketsOfPeer
  BY DEF PacketInv
<1>1. UNCHANGED <<address, recv, main>>
  BY DEF Tick, Sender, SenderPops, SenderSends, table
<1>2. NoPacketAdded
  <2>1. CASE Tick
    BY <2>1, SameConnections DEF Tick
  <2>2. ASSUME NEW k \in Connection, Sender(k) PROVE NoPacketAdded
    <3>1. CASE SenderPops(k)
      <4> DEFINE to == IF Head(connections[k].send) = "NULL" THEN "exited" ELSE "send"
      <4>1. connections' = [connections EXCEPT ![k].send = Tail(connections[k].send),
                                              ![k].sender = to]
        BY <3>1 DEF SenderPops
      <4> HIDE DEF to
      <4>2. QED
        BY <1>0, <4>1, OtherFields
    <3>2. CASE SenderSends(k)
      <4>1. PICK to : connections' = [connections EXCEPT ![k].sender = to]
        BY <3>2 DEF SenderSends
      <4>2. QED
        BY <1>0, <4>1, OtherFields
    <3>3. QED
      BY <2>2, <3>1, <3>2 DEF Sender
  <2>3. QED
    BY <2>1, <2>2
<1>3. QED
  BY <1>0, <1>1, <1>2, StampKept, PacketsKept

(* The receive thread itself: what it has found or made is its packet's,   *)
(* and that is where it pushes the packet.                                 *)
LEMMA PacketsReceived ==
  ASSUME PacketInv, ~crashed,
         RecvThread \/ RecvFails \/ \E peer \in Peer : RecvFrom(peer)
  PROVE  StampInv' /\ PacketsOfPeer'
<1> USE DEF Making, TimingOut, Disconnecting, Using
<1>0. /\ IInv /\ StampInv /\ PacketsOfPeer /\ RecvType /\ MainType /\ MutexInv
      /\ \A s \in Slot : queues[s] # Null => queues[s] \in Connection
      /\ (UNCHANGED connections => NoPacketAdded)
      /\ (NoPacketAdded => PacketsOfPeer')
      /\ recv.pc \in Making \cup {"stamp"} => recv.slot \in Slot
      /\ recv.pc \notin {"recvfrom", "exited"} => recv.address \in Peer
  BY QueuesExist, SameConnections, PacketsKept DEF PacketInv, IInv, TypeInv, RecvType
<1>1. CASE \/ RecvTooMany \/ RecvFindsNone \/ RecvClaims \/ RecvPushesFreed \/ RecvFails
           \/ RecvClosed \/ \E peer \in Peer : RecvFrom(peer)
  <2>1. UNCHANGED connections
    BY <1>1 DEF RecvTooMany, RecvFindsNone, RecvClaims, ClaimSlot, RecvPushesFreed, RecvFails,
           RecvClosed, RecvFrom
  <2>2. recv'.pc \notin {"stamp", "push"}
    <3>1. CASE RecvTooMany \/ RecvPushesFreed \/ RecvFails \/ RecvClosed
      BY <3>1 DEF RecvTooMany, RecvPushesFreed, RecvFails, RecvClosed, RecvReady
    <3>2. CASE RecvFindsNone
      BY <1>0, <3>2 DEF RecvFindsNone, Recv, RecvType
    <3>3. CASE RecvClaims
      BY <1>0, <3>3 DEF RecvClaims, RecvType
    <3>4. CASE \E peer \in Peer : RecvFrom(peer)
      BY <3>4 DEF RecvFrom, RecvReady
    <3>5. QED
      BY <1>1, <3>1, <3>2, <3>3, <3>4
  <2>3. QED
    BY <1>0, <2>1, <2>2 DEF StampInv
<1>2. CASE RecvFinds
  <2>1. PICK s \in Slot : address[s] = recv.address /\ recv' = Recv("stamp", s)
    BY <1>2 DEF RecvFinds, IsFirst, Found
  <2>2. /\ UNCHANGED <<address, connections>> /\ recv'.pc = "stamp" /\ recv'.slot = s
        /\ recv'.address = recv.address
    BY <1>0, <1>2, <2>1 DEF RecvFinds, Recv, RecvType, table
  <2>3. QED
    BY <1>0, <2>1, <2>2 DEF StampInv
<1>3. CASE RecvCreates
  <2>1. /\ recv.pc = "create" /\ recv.slot \in Slot /\ address[recv.slot] = recv.address
        /\ address[recv.slot] \in Peer
    BY <1>0, <1>3 DEF RecvCreates, IInv, MakingInv
  <2>2. /\ MakeQueues(recv.slot) /\ recv'.pc = "stamp" /\ recv'.slot = recv.slot
        /\ recv'.address = recv.address /\ UNCHANGED address
    BY <1>0, <1>3 DEF RecvCreates, MakeQueues, RecvType
  <2>3. NoPacketAdded
    BY <1>0, <2>1, <2>2, NewConnection
  <2>4. QED
    BY <1>0, <2>1, <2>2, <2>3 DEF StampInv
<1>4. CASE RecvStamps
  <2>1. /\ recv.pc = "stamp" /\ recv.slot \in Slot /\ recv'.pc = "push"
        /\ recv'.address = recv.address /\ recv'.queues = queues[recv.slot]
        /\ crashed' = (queues[recv.slot] = Null) /\ UNCHANGED connections
    BY <1>0, <1>4 DEF RecvStamps, RecvType
  <2>2. queues[recv.slot] # Null => /\ address[recv.slot] # NoPeer
                                    /\ connections[queues[recv.slot]].address = address[recv.slot]
    BY <1>0, <2>1 DEF IInv, TableInv
  <2>3. address[recv.slot] \in {recv.address, NoPeer}
    BY <1>0, <2>1 DEF StampInv
  <2>4. QED
    BY <1>0, <2>1, <2>2, <2>3 DEF StampInv
<1>5. CASE RecvPushes
  <2> DEFINE k == recv.queues
  <2>1. /\ recv.pc = "push" /\ k # Null /\ connections[k].address = recv.address
        /\ k \in Connection
    BY <1>0, <1>5, ConnectionFacts DEF RecvPushes, StampInv, RecvType, IInv, TypeInv, TableType, Null
  <2>2. recv'.pc = "recvfrom"
    BY <1>5 DEF RecvPushes, RecvReady
  <2>3. CASE UNCHANGED connections
    BY <1>0, <2>2, <2>3 DEF StampInv
  <2>4. CASE connections' = [connections EXCEPT ![k].recv = Append(@, recv.address)]
    <3>1. PacketsOfPeer'
      BY <1>0, <2>1, <2>4, PacketPushed
    <3>2. QED
      BY <2>2, <3>1 DEF StampInv
  <2>5. QED
    BY <1>5, <2>3, <2>4 DEF RecvPushes
<1>6. QED
  BY <1>1, <1>2, <1>3, <1>4, <1>5 DEF RecvThread

(* Whatever the receive thread is overtaken by between finding a slot and  *)
(* using it, no packet ends up in the queue of a connection to another     *)
(* peer (recv_thread_func, outside connections_mutex).                     *)
THEOREM PacketsStayWithTheirPeer == Spec => []PacketsOfPeer
<1>1. PacketInv /\ [Next]_vars => PacketInv'
  <2> SUFFICES ASSUME PacketInv, [Next]_vars PROVE PacketInv'
    OBVIOUS
  <2>1. IInv'
    BY InvStep DEF PacketInv
  <2>2. CASE UNCHANGED vars
    BY <2>1, <2>2 DEF PacketInv, StampInv, PacketsOfPeer, Connection, vars, table
  <2>3. CASE ~crashed /\ \/ Serve \/ Update \/ Destroy \/ InCall \/ RecvThread \/ RecvFails
                         \/ Connect \/ Tick
                         \/ \E peer \in Peer : RecvFrom(peer)
                         \/ \E k \in Connection : Sender(k)
    BY <2>1, <2>3, PacketsElsewhere, PacketsOfOthers, PacketsReceived DEF PacketInv
  <2>4. QED
    BY <2>2, <2>3 DEF Next, Over
<1>2. PacketInv => PacketsOfPeer
  BY DEF PacketInv
<1>3. QED
  BY <1>1, <1>2, InitInv, PTL DEF Spec
=============================================================================
