------------------------- MODULE NetReplicationProofs -------------------------
(***************************************************************************)
(* Proofs about NetReplication.tla, for every number of snapshots, of      *)
(* entities and of updates, and whatever the network loses, repeats or     *)
(* lets overtake.                                                          *)
(***************************************************************************)
EXTENDS NetReplication, FiniteSetTheorems, SequenceTheorems, WellFoundedInduction, TLAPS

(***************************************************************************)
(* What the theorems assume of the game and of the hosts.  Connections are *)
(* mutual; the values of a component never come back; what a game removes  *)
(* is the entity in its last slot; a host that drops its connection is not *)
(* one that is sent entities; and the ghosts of all of them have room.     *)
(***************************************************************************)
Mutual == \A h \in Host : Peer[Peer[h]] = h
ValuesGrow == \A v \in Value : \A w \in NextValues[v] : w > v
LastRemoved == AnyOrder = FALSE
KeepsAuthors == \A h \in Forgetful : Peer[h] \notin Author
RoomForAll == MaxSpawns <= MaxEntities

Orderly == Mutual /\ ValuesGrow /\ LastRemoved /\ KeepsAuthors /\ RoomForAll

State == {"gone", "live", "removed"}
Number == Nat \cup {-1}
AnyValue == Value \cup {Unset}
Item == [sequence : Nat, value : Value]
Entity == [sequence : Nat, state : State, value : AnyValue]
Ghost == [remote_sequence : Nat, state : State, value : AnyValue, last_recved_sequence : Nat]
Part == [sequence : Nat, diff : BOOLEAN, value : AnyValue]
Packet == [to : Host, sequence : Nat, ack_sequence : Number, body : Seq(Part)]
Slot == 0 .. SnapshotCount - 1

TypeInv ==
  /\ phase \in [Host -> {"game", "recv"}]
  /\ sequence \in [Host -> Nat]
  /\ entities \in [Host -> [Position -> Entity]]
  /\ spawned \in [Host -> 0 .. MaxSpawns]
  /\ snapshots \in [Host -> [Slot -> [sequence : Nat, data : Seq(Item)]]]
  /\ incoming_sequence \in [Host -> Number]
  /\ ack_sequence \in [Host -> Number]
  /\ ghosts \in [Host -> [Position -> Ghost]]
  /\ orphans = [h \in Host |-> {}]
  /\ packets \subseteq Packet
  /\ taken \in [Host -> Seq(Seq(Item))]

(* Snapshot number s is the one taken[s + 1]. *)
TakenInv == \A h \in Host :
  Len(taken[h]) = sequence[h] + (IF phase[h] = "recv" THEN 1 ELSE 0)

IdleInv == \A h \in Host : h \notin Author => Valid(entities[h]) = {}

Ids(data) == {data[n].sequence : n \in 1 .. Len(data)}

(* No version in d is later than that of the same entity in e. *)
NotAfter(d, e) ==
  \A m \in 1 .. Len(d), n \in 1 .. Len(e) :
    d[m].sequence = e[n].sequence => d[m].value <= e[n].value

(* An entity is in consecutive snapshots, and its versions go forward. *)
History(T, top) ==
  /\ \A s \in 1 .. Len(T) :
       /\ Ids(T[s]) \subseteq 1 .. top
       /\ \A m, n \in 1 .. Len(T[s]) : T[s][m].sequence = T[s][n].sequence => m = n
  /\ \A s, t, u \in 1 .. Len(T) : s <= t /\ t <= u => Ids(T[s]) \cap Ids(T[u]) \subseteq Ids(T[t])
  /\ \A s, t \in 1 .. Len(T) : s <= t => NotAfter(T[s], T[t])

HistoryInv == \A h \in Host :
  /\ History(taken[h], spawned[h])
  /\ h \notin Author => \A s \in 1 .. Len(taken[h]) : taken[h][s] = <<>>

(* Slots in use hold entities that differ; one that has been in a snapshot *)
(* has been in every one since, and will be in the next unless it is       *)
(* removed: no slot before it is free or will be.                          *)
Lasts(table, T, i, s) ==
  /\ \A j \in 0 .. i - 1 : table[j].state = "live"
  /\ \A t \in s .. Len(T) : table[i].sequence \in Ids(T[t])
  /\ \A n \in 1 .. Len(T[s]) : T[s][n].sequence = table[i].sequence => T[s][n].value <= table[i].value

Table(table, T, top) ==
  /\ \A i \in Valid(table) : table[i].sequence \in 1 .. top /\ table[i].value \in Value
  /\ \A i, j \in Valid(table) : table[i].sequence = table[j].sequence => i = j
  /\ \A i \in Valid(table), s \in 1 .. Len(T) :
       table[i].sequence \in Ids(T[s]) => Lasts(table, T, i, s)

TableInv == \A h \in Host : Table(entities[h], taken[h], spawned[h])

RingInv == \A h \in Host : \A x \in Slot :
  LET slot == snapshots[h][x] IN
    slot.sequence % SnapshotCount = x /\ slot.sequence < Len(taken[h])
      => slot.data = taken[h][slot.sequence + 1]

(* What is acknowledged has been received, unless it was forgotten. *)
AckInv ==
  /\ \A h \in Host : incoming_sequence[h] < Len(taken[Peer[h]])
  /\ \A h \in Host \ Forgetful : ack_sequence[Peer[h]] <= incoming_sequence[h]
  /\ \A p \in packets : /\ p.sequence < Len(taken[Peer[p.to]])
                        /\ Peer[p.to] \notin Forgetful =>
                             p.ack_sequence <= incoming_sequence[Peer[p.to]]

(* A body tells each entity of its snapshot, with its value unless that is *)
(* the one it had in a snapshot up to the last the receiver has had.       *)
Had(T, last, item) ==
  \E s \in 1 .. Len(T) : s <= last + 1 /\ \E m \in 1 .. Len(T[s]) : T[s][m] = item

Tells(body, data, T, last) ==
  /\ Len(body) = Len(data)
  /\ \A n \in 1 .. Len(data) : /\ body[n].sequence = data[n].sequence
                               /\ body[n].diff => body[n].value = data[n].value
                               /\ ~body[n].diff => Had(T, last, data[n])

BodyInv == \A p \in packets :
  LET T == taken[Peer[p.to]]
  IN  p.to \notin Forgetful => Tells(p.body, T[p.sequence + 1], T, incoming_sequence[p.to])
EmptyInv == \A p \in packets : Peer[p.to] \notin Author => p.body = <<>>

Shows(g, item) == /\ g.state = "live"
                  /\ g.remote_sequence = item.sequence
                  /\ g.value = item.value

Told(table) == {i \in Position : table[i].state # "gone"}
Apart(table) ==
  \A i, j \in Told(table) : table[i].remote_sequence = table[j].remote_sequence => i = j

(* The entities in snapshots up to the last that was received. *)
Heard(T, last) == {e \in Nat : \E s \in 1 .. Len(T) : s <= last + 1 /\ e \in Ids(T[s])}

Sound(table, K) ==
  /\ table \in [Position -> Ghost]
  /\ Apart(table)
  /\ \A i \in Told(table) : table[i].remote_sequence > 0
  /\ \A i \in Position : table[i].remote_sequence > 0 => table[i].remote_sequence \in K

(* Ghosts are of entities the host has been told of; those of the last     *)
(* snapshot are there and show it.                                         *)
ShowsAll(table, data) ==
  \A n \in 1 .. Len(data) :
    /\ \E i \in Position : Shows(table[i], data[n])
    /\ \A i \in Position : table[i].remote_sequence = data[n].sequence => table[i].state = "live"

Replica(table, T, last) ==
  /\ Sound(table, Heard(T, last))
  /\ last >= 0 => ShowsAll(table, T[last + 1])

GhostInv == \A h \in Host : Replica(ghosts[h], taken[Peer[h]], incoming_sequence[h])

IInv == TypeInv /\ TakenInv /\ IdleInv /\ HistoryInv /\ TableInv /\ RingInv /\ AckInv
          /\ BodyInv /\ EmptyInv /\ GhostInv


-----------------------------------------------------------------------------
(* Induction over numbers, as an operator that takes no operator. *)
LEMMA Least ==
  ASSUME NEW T, T \subseteq Nat, T # {}
  PROVE  \E x \in T : \A y \in T : x <= y
<1> DEFINE R == OpToRel(<, Nat)
<1>1. IsWellFoundedOn(R, Nat)
  BY NatLessThanWellFounded
<1> HIDE DEF R
<1>2. \E x \in T : \A y \in T : ~(<<y, x>> \in R)
  BY <1>1, WFMin
<1>3. \A x, y \in Nat : y < x => <<y, x>> \in R
  BY DEF R, OpToRel
<1>4. PICK x \in T : \A y \in T : ~(<<y, x>> \in R)
  BY <1>2
<1>5. ASSUME NEW y \in T PROVE x <= y
  <2>1. x \in Nat /\ y \in Nat /\ ~(<<y, x>> \in R)
    BY <1>4
  <2>2. ~(y < x)
    BY <2>1, <1>3
  <2>3. QED
    BY <2>1, <2>2
<1>6. QED
  BY <1>4, <1>5

(* What holds at 0 and of a number if of the one before holds throughout. *)
LEMMA UpFromZero ==
  ASSUME NEW N \in Nat, NEW A, 0 \in A, \A k \in 1 .. N : k - 1 \in A => k \in A
  PROVE  0 .. N \subseteq A
<1> DEFINE T == (0 .. N) \ A
<1>1. ASSUME T # {} PROVE FALSE
  <2>1. T \subseteq Nat
    OBVIOUS
  <2> HIDE DEF T
  <2>2. PICK k \in T : \A m \in T : k <= m
    BY <1>1, <2>1, Least, Zenon
  <2>3. k \in 0 .. N /\ k \notin A
    BY DEF T
  <2>4. k \in 1 .. N /\ k - 1 \in 0 .. N /\ ~(k <= k - 1)
    BY <2>3
  <2>5. k - 1 \notin T
    BY <2>2, <2>4
  <2>6. k - 1 \in A
    BY <2>4, <2>5 DEF T
  <2>7. QED
    BY <2>3, <2>4, <2>6
<1>2. QED
  BY <1>1

(* The values of a recursion from x0 on, as far as to k. *)
Runs(f, x0, step, k) == f[0] = x0 /\ \A i \in 1 .. k : f[i] = step[<<i, f[i - 1]>>]

LEMMA RecursionExists ==
  ASSUME NEW S, NEW x0 \in S, NEW N \in Nat, NEW step \in [(1 .. N) \X S -> S]
  PROVE  \E f \in [0 .. N -> S] : Runs(f, x0, step, N)
<1> DEFINE A == {k \in 0 .. N : \E f \in [0 .. N -> S] : Runs(f, x0, step, k)}
<1>1. 0 \in A
  <2>1. Runs([i \in 0 .. N |-> x0], x0, step, 0)
    BY DEF Runs
  <2>2. [i \in 0 .. N |-> x0] \in [0 .. N -> S]
    OBVIOUS
  <2>3. QED
    BY <2>1, <2>2
<1>2. ASSUME NEW k \in 1 .. N, k - 1 \in A PROVE k \in A
  <2>1. PICK f \in [0 .. N -> S] : Runs(f, x0, step, k - 1)
    BY <1>2
  <2> DEFINE g == [i \in 0 .. N |-> IF i = k THEN step[<<k, f[k - 1]>>] ELSE f[i]]
  <2>2. f[k - 1] \in S /\ step[<<k, f[k - 1]>>] \in S
    BY <1>2
  <2>3. g \in [0 .. N -> S]
    BY <2>2
  <2>4. /\ g[k] = step[<<k, f[k - 1]>>]
        /\ \A i \in 0 .. N : i # k => g[i] = f[i]
    OBVIOUS
  <2> HIDE DEF g
  <2>5. ASSUME NEW i \in 1 .. k PROVE g[i] = step[<<i, g[i - 1]>>]
    <3>1. i - 1 \in 0 .. N /\ i - 1 # k /\ g[i - 1] = f[i - 1]
      BY <2>4
    <3>2. CASE i = k
      BY <2>4, <3>1, <3>2
    <3>3. CASE i # k
      <4>1. i \in 1 .. k - 1 /\ i \in 0 .. N /\ g[i] = f[i]
        BY <2>4, <3>3
      <4>2. QED
        BY <2>1, <3>1, <4>1 DEF Runs
    <3>4. QED
      BY <3>2, <3>3
  <2>6. g[0] = x0
    BY <2>1, <2>4 DEF Runs
  <2>7. Runs(g, x0, step, k)
    BY <2>5, <2>6 DEF Runs
  <2>8. QED
    BY <2>3, <2>7
<1> HIDE DEF A
<1>3. 0 .. N \subseteq A
  BY <1>1, <1>2, UpFromZero
<1>4. N \in A
  BY <1>3
<1>5. QED
  BY <1>4 DEF A

-----------------------------------------------------------------------------
(* packet_add_entities *)

(* The walk of both snapshots: the equation that defines it in Delta. *)
Walks(f, cur, ack) ==
  f = [i \in 0 .. Len(cur) |->
         IF i = 0 THEN 0
         ELSE IF f[i - 1] < Len(ack) /\ ack[f[i - 1] + 1].sequence = cur[i].sequence
                THEN f[i - 1] + 1
                ELSE f[i - 1]]
Same(f, cur, ack, i) == f[i] > f[i - 1] /\ ack[f[i]].value = cur[i].value
DeltaBy(f, cur, ack) ==
  [i \in 1 .. Len(cur) |-> [sequence |-> cur[i].sequence, diff |-> ~Same(f, cur, ack, i),
                            value |-> IF Same(f, cur, ack, i) THEN Unset ELSE cur[i].value]]

LEMMA DeltaWalks ==
  ASSUME NEW cur \in Seq(Item), NEW ack \in Seq(Item)
  PROVE  \E f : /\ f \in [0 .. Len(cur) -> 0 .. Len(ack)]
                /\ f[0] = 0
                /\ \A i \in 1 .. Len(cur) :
                     f[i] = IF f[i - 1] < Len(ack) /\ ack[f[i - 1] + 1].sequence = cur[i].sequence
                              THEN f[i - 1] + 1 ELSE f[i - 1]
                /\ Delta(cur, ack) = DeltaBy(f, cur, ack)
<1> DEFINE N == Len(cur)
           M == Len(ack)
           next(i, x) == IF x < M /\ ack[x + 1].sequence = cur[i].sequence THEN x + 1 ELSE x
           step == [a \in (1 .. N) \X (0 .. M) |-> next(a[1], a[2])]
<1>1. N \in Nat /\ M \in Nat
  OBVIOUS
<1>2. \A i \in 1 .. N, x \in 0 .. M : step[<<i, x>>] = next(i, x)
  OBVIOUS
<1>3. step \in [(1 .. N) \X (0 .. M) -> 0 .. M]
  BY <1>1
<1>4. \E g \in [0 .. N -> 0 .. M] : Runs(g, 0, step, N)
  <2> HIDE DEF step, N, M
  <2>1. 0 \in 0 .. M
    BY <1>1
  <2>2. QED
    BY <1>1, <1>3, <2>1, RecursionExists
<1> HIDE DEF step
<1>41. PICK g \in [0 .. N -> 0 .. M] : Runs(g, 0, step, N)
  BY <1>4
<1>5. g[0] = 0 /\ \A i \in 1 .. N : g[i] = next(i, g[i - 1])
  <2>1. g[0] = 0
    BY <1>41 DEF Runs
  <2>2. ASSUME NEW i \in 1 .. N PROVE g[i] = next(i, g[i - 1])
    <3>1. g[i - 1] \in 0 .. M
      <4> HIDE DEF N, M
      <4>1. i - 1 \in 0 .. N
        BY <1>1
      <4>2. QED
        BY <1>41, <4>1
    <3>2. g[i] = step[<<i, g[i - 1]>>]
      BY <1>41 DEF Runs
    <3> HIDE DEF next, N, M
    <3>3. QED
      BY <1>2, <3>1, <3>2
  <2> HIDE DEF next
  <2>3. QED
    BY <2>1, <2>2
<1>6. g = [i \in 0 .. N |-> IF i = 0 THEN 0 ELSE next(i, g[i - 1])]
  BY <1>1, <1>41, <1>5
<1>7. Walks(g, cur, ack)
  BY <1>6, Zenon DEF Walks
<1>8. \E f : Walks(f, cur, ack) /\ Delta(cur, ack) = DeltaBy(f, cur, ack)
  BY <1>7, Zenon DEF Walks, Delta, DeltaBy, Same
<1>9. PICK f : Walks(f, cur, ack) /\ Delta(cur, ack) = DeltaBy(f, cur, ack)
  BY <1>8
<1>10. \A i \in 0 .. N : f[i] = IF i = 0 THEN 0 ELSE next(i, f[i - 1])
  BY <1>9, Zenon DEF Walks
<1>11. f[0] = 0 /\ \A i \in 1 .. N : f[i] = next(i, f[i - 1])
  BY <1>1, <1>10
<1>12. f \in [0 .. N -> 0 .. M]
  <2> DEFINE A == {i \in 0 .. N : f[i] \in 0 .. M}
  <2>1. 0 \in A
    BY <1>1, <1>11
  <2>2. ASSUME NEW k \in 1 .. N, k - 1 \in A PROVE k \in A
    <3>1. f[k - 1] \in 0 .. M
      BY <2>2
    <3>2. f[k] = next(k, f[k - 1])
      BY <1>11
    <3>3. next(k, f[k - 1]) \in 0 .. M
      BY <1>1, <3>1
    <3> HIDE DEF next, N, M
    <3>4. k \in 0 .. N
      BY <1>1
    <3>5. QED
      BY <3>2, <3>3, <3>4
  <2> HIDE DEF A
  <2>3. 0 .. N \subseteq A
    BY <1>1, <2>1, <2>2, UpFromZero
  <2>4. \A i \in 0 .. N : f[i] \in 0 .. M
    BY <2>3 DEF A
  <2>5. f = [i \in 0 .. N |-> f[i]]
    BY <1>9, Zenon DEF Walks
  <2> HIDE DEF M, N
  <2>6. QED
    BY <2>4, <2>5
<1>13. QED
  BY <1>9, <1>11, <1>12

(* What a delta leaves out is in the baseline, as it is in the snapshot. *)
LEMMA DeltaTells ==
  ASSUME NEW cur \in Seq(Item), NEW ack \in Seq(Item)
  PROVE  LET body == Delta(cur, ack)
         IN  /\ body \in Seq(Part) /\ Len(body) = Len(cur)
             /\ \A n \in 1 .. Len(cur) :
                  /\ body[n].sequence = cur[n].sequence
                  /\ body[n].diff => body[n].value = cur[n].value
                  /\ ~body[n].diff => \E m \in 1 .. Len(ack) : ack[m] = cur[n]
<1> DEFINE N == Len(cur)
           M == Len(ack)
           body == Delta(cur, ack)
<1>1. N \in Nat /\ M \in Nat
  OBVIOUS
<1>2. PICK f : /\ f \in [0 .. N -> 0 .. M]
               /\ f[0] = 0
               /\ \A i \in 1 .. N :
                    f[i] = IF f[i - 1] < M /\ ack[f[i - 1] + 1].sequence = cur[i].sequence
                              THEN f[i - 1] + 1 ELSE f[i - 1]
               /\ body = DeltaBy(f, cur, ack)
  BY DeltaWalks
<1> HIDE DEF body
<1>3. \A n \in 1 .. N : cur[n] \in Item
  OBVIOUS
<1>4. \A m \in 1 .. M : ack[m] \in Item
  OBVIOUS
<1>5. ASSUME NEW n \in 1 .. N
      PROVE  /\ body[n].sequence = cur[n].sequence
             /\ Same(f, cur, ack, n) => ~body[n].diff
             /\ ~Same(f, cur, ack, n) => body[n].diff /\ body[n].value = cur[n].value
             /\ body[n] \in Part
  <2>1. body[n] = [sequence |-> cur[n].sequence, diff |-> ~Same(f, cur, ack, n),
                            value |-> IF Same(f, cur, ack, n) THEN Unset ELSE cur[n].value]
    BY <1>2 DEF DeltaBy
  <2>2. cur[n].sequence \in Nat /\ cur[n].value \in Value
    BY <1>3 DEF Item
  <2>3. Same(f, cur, ack, n) \in BOOLEAN
    BY DEF Same
  <2>4. CASE Same(f, cur, ack, n)
    <3>1. body[n] = [sequence |-> cur[n].sequence, diff |-> FALSE, value |-> Unset]
      BY <2>1, <2>4, Zenon
    <3>2. QED
      BY <2>2, <2>4, <3>1 DEF Part, AnyValue
  <2>5. CASE ~Same(f, cur, ack, n)
    <3>1. body[n] = [sequence |-> cur[n].sequence, diff |-> TRUE, value |-> cur[n].value]
      BY <2>1, <2>5, Zenon
    <3>2. QED
      BY <2>2, <2>5, <3>1 DEF Part, AnyValue
  <2>6. QED
    BY <2>4, <2>5
<1>6. body \in Seq(Part) /\ Len(body) = N
  <2>1. body = [n \in 1 .. N |-> body[n]]
    BY <1>2, Zenon DEF DeltaBy
  <2> HIDE DEF N
  <2>2. QED
    BY <1>1, <1>5, <2>1
<1>7. ASSUME NEW n \in 1 .. N, ~body[n].diff
      PROVE  \E m \in 1 .. M : ack[m] = cur[n]
  <2>1. Same(f, cur, ack, n)
    BY <1>5, <1>7
  <2>2. n \in 0 .. N /\ n - 1 \in 0 .. N /\ f[n] \in 0 .. M /\ f[n - 1] \in 0 .. M
    <3> HIDE DEF N, M
    <3>1. n \in 0 .. N /\ n - 1 \in 0 .. N
      BY <1>1
    <3>2. QED
      BY <1>2, <3>1
  <2>3. f[n] > f[n - 1] /\ ack[f[n]].value = cur[n].value
    BY <2>1 DEF Same
  <2>4. f[n] = f[n - 1] + 1 /\ ack[f[n - 1] + 1].sequence = cur[n].sequence
    <3>1. f[n] # f[n - 1]
      BY <2>2, <2>3
    <3>2. QED
      BY <1>2, <3>1
  <2>5. f[n] \in 1 .. M
    BY <1>1, <2>2, <2>4
  <2>6. ack[f[n]] \in Item /\ cur[n] \in Item
    BY <1>3, <1>4, <2>5
  <2>7. ack[f[n]] = cur[n]
    <3>1. ack[f[n]].sequence = cur[n].sequence /\ ack[f[n]].value = cur[n].value
      BY <2>3, <2>4
    <3> DEFINE x == ack[f[n]]
               y == cur[n]
    <3>2. x \in Item /\ y \in Item /\ x.sequence = y.sequence /\ x.value = y.value
      BY <2>6, <3>1
    <3> HIDE DEF x, y
    <3>3. x = y
      BY <3>2 DEF Item
    <3>4. QED
      BY <3>3 DEF x, y
  <2>8. QED
    BY <2>5, <2>7
<1>8. ASSUME NEW n \in 1 .. N
      PROVE  body[n].sequence = cur[n].sequence /\ (body[n].diff => body[n].value = cur[n].value)
  BY <1>5
<1>9. QED
  BY <1>6, <1>7, <1>8 DEF body

-----------------------------------------------------------------------------
(* packet_read_entities.  K: the entities the host has been told of, with  *)
(* those of the packet that is read.                                       *)

At(table, entity) == {i \in Position : table[i].remote_sequence = entity}
Alone(table, entity, i) == At(table, entity) = {i}

(* What the table shows of an entity before it is read, and after. *)
Waiting(table, part, item) ==
  \/ \E i \in Position : /\ At(table, item.sequence) = {i}
                         /\ table[i].state = "live"
                         /\ table[i].value <= item.value
                         /\ ~part.diff => table[i].value = item.value
  \/ part.diff /\ At(table, item.sequence) = {}

ShowsNow(table, item, now) ==
  \E i \in Position : /\ At(table, item.sequence) = {i}
                      /\ Shows(table[i], item)
                      /\ table[i].last_recved_sequence = now

(* One entity is read into slot i: its own, or a free one. *)
PutsAt(table, after, item, now, i) ==
  /\ \A j \in Position \ {i} : after[j] = table[j] /\ table[j].remote_sequence # item.sequence
  /\ Shows(after[i], item) /\ after[i].last_recved_sequence = now
  /\ \/ table[i].state = "gone"
     \/ /\ table[i].remote_sequence = item.sequence
        /\ table[i].state = "live" /\ table[i].value <= item.value

Known(K) == RoomForAll /\ K \subseteq 1 .. MaxSpawns

LEMMA Values ==
  Value \subseteq Nat /\ Value \subseteq Int /\ FirstValue \in Value /\ AnyValue \subseteq Int
<1>1. Value \subseteq Nat /\ FirstValue \in Value
  BY ValueAssumption
<1>2. QED
  BY <1>1 DEF AnyValue, Unset

LEMMA Positions ==
  /\ MaxEntities \in Nat /\ Position \subseteq Nat
  /\ IsFiniteSet(Position) /\ Cardinality(Position) = MaxEntities
<1>1. MaxEntities \in Nat
  BY SizeAssumption
<1>2. IsFiniteSet(0 .. MaxEntities - 1) /\ Cardinality(0 .. MaxEntities - 1) = MaxEntities
  BY <1>1, FS_Interval
<1>3. QED
  BY <1>1, <1>2 DEF Position

LEMMA FirstIs ==
  ASSUME NEW positions, positions \subseteq Position, positions # {}
  PROVE  /\ FirstOf(positions) \in positions
         /\ \A j \in positions : FirstOf(positions) <= j
<1>1. positions \subseteq Nat
  BY Positions
<1>2. \E i \in positions : \A j \in positions : i <= j
  BY <1>1, Least, Zenon
<1>3. QED
  BY <1>2, Zenon DEF FirstOf

(* An entity that no slot has had finds a free one. *)
LEMMA Vacancy ==
  ASSUME NEW K, Known(K), NEW table, Sound(table, K), NEW entity \in K, At(table, entity) = {}
  PROVE  Position \ Told(table) # {}
<1>1. SUFFICES ASSUME Position \subseteq Told(table) PROVE FALSE
  OBVIOUS
<1> DEFINE rest == (1 .. MaxSpawns) \ {entity}
           f == [i \in Position |-> table[i].remote_sequence]
<1>2. MaxSpawns \in Nat /\ MaxSpawns <= MaxEntities /\ entity \in 1 .. MaxSpawns
  BY BoundAssumption DEF Known, RoomForAll
<1>3. f \in [Position -> rest]
  <2>1. ASSUME NEW i \in Position PROVE table[i].remote_sequence \in rest
    <3>1. table[i].remote_sequence \in K
      BY <1>1 DEF Sound
    <3>2. table[i].remote_sequence # entity
      BY DEF At
    <3>3. QED
      BY <3>1, <3>2 DEF Known
  <2>2. QED
    BY <2>1
<1>4. \A i, j \in Position : f[i] = f[j] => i = j
  BY <1>1 DEF Sound, Apart
<1>5. IsFiniteSet(rest) /\ Cardinality(rest) = MaxSpawns - 1
  <2>1. IsFiniteSet(1 .. MaxSpawns) /\ Cardinality(1 .. MaxSpawns) = MaxSpawns
    BY <1>2, FS_Interval
  <2>2. QED
    BY <1>2, <2>1, FS_RemoveElement
<1> HIDE DEF rest, f
<1>6. Cardinality(rest) < Cardinality(Position)
  BY <1>2, <1>5, Positions
<1>7. \E i, j \in Position : i # j /\ f[i] = f[j]
  <2>1. IsFiniteSet(Position) /\ IsFiniteSet(rest)
    BY <1>5, Positions
  <2>2. QED
    BY <1>3, <1>6, <2>1, FS_PigeonHole
<1>8. QED
  BY <1>4, <1>7

LEMMA ValidIsTold == \A table : Valid(table) = Told(table)
BY DEF Valid, Told

ReadsAs(table, part, now, after) ==
  ReadEntity([ghosts |-> table, orphans |-> {}], part, now) = [ghosts |-> after, orphans |-> {}]

LEMMA EntityIsRead ==
  ASSUME NEW K, Known(K), NEW table, Sound(table, K),
         NEW part \in Part, NEW item \in Item, NEW now \in Nat,
         part.sequence = item.sequence, part.diff => part.value = item.value,
         item.sequence \in K, Waiting(table, part, item)
  PROVE  \E i \in Position : \E after :
           /\ ReadsAs(table, part, now, after)
           /\ after \in [Position -> Ghost]
           /\ PutsAt(table, after, item, now, i)
<1> DEFINE e == item.sequence
           state == [ghosts |-> table, orphans |-> {}]
           known == {i \in Position : table[i].remote_sequence = part.sequence}
           vacant == Position \ Valid(table)
<1>1. known = At(table, e)
  BY DEF At
<1>2. /\ table \in [Position -> Ghost] /\ e \in Nat /\ item.value \in Value
      /\ part.diff \in BOOLEAN /\ item.value \in AnyValue
  BY DEF Sound, Part, Item, AnyValue
<1>3. CASE \E i \in Position : /\ At(table, item.sequence) = {i}
                               /\ table[i].state = "live"
                               /\ table[i].value <= item.value
                               /\ ~part.diff => table[i].value = item.value
  <2>1. PICK i \in Position : /\ known = {i}
                              /\ table[i].state = "live"
                              /\ table[i].value <= item.value
                              /\ ~part.diff => table[i].value = item.value
    BY <1>1, <1>3
  <2>2. FirstOf(known) = i /\ known # {} /\ table[i].state # "gone" /\ table[i].remote_sequence = e
    <3>1. FirstOf(known) \in known
      BY <2>1, FirstIs
    <3>2. QED
      BY <2>1, <3>1
  <2> DEFINE marked == [table EXCEPT ![i].last_recved_sequence = now]
             after == IF part.diff THEN [marked EXCEPT ![i].value = part.value] ELSE marked
  <2>3. ReadEntity(state, part, now) = [ghosts |-> after, orphans |-> {}]
    <3> HIDE DEF known
    <3>1. ReadEntity(state, part, now) = [state EXCEPT !.ghosts = after]
      BY <2>2, Zenon DEF ReadEntity, known
    <3> HIDE DEF after
    <3>2. QED
      BY <3>1
  <2>4. /\ marked[i] = [table[i] EXCEPT !.last_recved_sequence = now]
        /\ marked \in [Position -> Ghost]
        /\ \A j \in Position \ {i} : marked[j] = table[j]
    <3>1. table[i] \in Ghost
      BY <1>2
    <3>2. [table[i] EXCEPT !.last_recved_sequence = now] \in Ghost
      BY <3>1 DEF Ghost
    <3>3. QED
      BY <1>2, <3>2
  <2>5. /\ marked[i].state = "live" /\ marked[i].remote_sequence = e
        /\ marked[i].value = table[i].value /\ marked[i].last_recved_sequence = now
    <3>1. table[i] \in Ghost
      BY <1>2
    <3>2. QED
      BY <2>1, <2>2, <2>4, <3>1 DEF Ghost
  <2> HIDE DEF marked
  <2>6. /\ after \in [Position -> Ghost]
        /\ \A j \in Position \ {i} : after[j] = table[j]
        /\ Shows(after[i], item) /\ after[i].last_recved_sequence = now
    <3>1. CASE ~part.diff
      <4>1. after = marked
        BY <3>1
      <4>2. QED
        BY <2>1, <2>4, <2>5, <3>1, <4>1 DEF Shows
    <3>2. CASE part.diff
      <4>1. after = [marked EXCEPT ![i].value = item.value]
        BY <3>2
      <4>2. marked[i] \in Ghost
        BY <2>4
      <4>3. /\ after[i] = [marked[i] EXCEPT !.value = item.value]
            /\ \A j \in Position \ {i} : after[j] = table[j]
        BY <2>4, <4>1
      <4>4. [marked[i] EXCEPT !.value = item.value] \in Ghost
        BY <1>2, <4>2 DEF Ghost
      <4>5. after \in [Position -> Ghost]
        BY <2>4, <4>1, <4>4
      <4>6. Shows(after[i], item) /\ after[i].last_recved_sequence = now
        BY <2>5, <4>2, <4>3 DEF Shows, Ghost
      <4>7. QED
        BY <4>3, <4>5, <4>6
    <3>3. QED
      BY <1>2, <3>1, <3>2
  <2>7. \A j \in Position \ {i} : table[j].remote_sequence # e
    BY <1>1, <2>1 DEF At
  <2>8. PutsAt(table, after, item, now, i)
    BY <2>1, <2>2, <2>6, <2>7 DEF PutsAt
  <2> HIDE DEF after
  <2>9. QED
    BY <2>3, <2>6, <2>8 DEF ReadsAs
<1>4. CASE part.diff /\ At(table, item.sequence) = {}
  <2>1. known = {} /\ vacant # {}
    <3>1. Position \ Told(table) # {}
      BY <1>4, Vacancy
    <3>2. QED
      BY <1>1, <1>4, <3>1, ValidIsTold
  <2> DEFINE i == FirstOf(vacant)
             ghost == [remote_sequence |-> part.sequence, state |-> "live",
                       value |-> part.value, last_recved_sequence |-> now]
             after == [table EXCEPT ![i] = ghost]
  <2>2. i \in Position /\ table[i].state = "gone"
    <3>1. vacant \subseteq Position
      OBVIOUS
    <3> HIDE DEF vacant
    <3>2. i \in vacant
      BY <2>1, <3>1, FirstIs
    <3>3. QED
      BY <3>2 DEF vacant, Valid
  <2>3. ReadEntity(state, part, now) = [ghosts |-> after, orphans |-> {}]
    <3>1. ReadEntity(state, part, now) = [state EXCEPT !.ghosts = after]
      BY <2>1, Zenon DEF ReadEntity
    <3> HIDE DEF after
    <3>2. QED
      BY <3>1
  <2> HIDE DEF i
  <2>4. ghost \in Ghost /\ Shows(ghost, item) /\ ghost.last_recved_sequence = now
    BY <1>2, <1>4 DEF Ghost, Shows, State
  <2> HIDE DEF ghost
  <2>5. /\ after \in [Position -> Ghost] /\ after[i] = ghost
        /\ \A j \in Position \ {i} : after[j] = table[j]
    BY <1>2, <2>2, <2>4
  <2>6. \A j \in Position : table[j].remote_sequence # e
    BY <1>4 DEF At
  <2> HIDE DEF after
  <2>7. PutsAt(table, after, item, now, i)
    BY <2>2, <2>4, <2>5, <2>6 DEF PutsAt
  <2>8. QED
    BY <2>2, <2>3, <2>5, <2>7 DEF ReadsAs
<1>5. QED
  BY <1>3, <1>4 DEF Waiting

LEMMA PutIsSound ==
  ASSUME NEW K, Known(K), NEW table, Sound(table, K), NEW after \in [Position -> Ghost],
         NEW item \in Item, item.sequence \in K, NEW now, NEW i \in Position,
         PutsAt(table, after, item, now, i)
  PROVE  Sound(after, K) /\ Told(table) \subseteq Told(after) /\ Alone(after, item.sequence, i)
<1> DEFINE e == item.sequence
<1>1. /\ after[i].remote_sequence = e /\ after[i].state = "live"
      /\ \A j \in Position \ {i} : after[j] = table[j] /\ after[j].remote_sequence # e
  BY DEF PutsAt, Shows
<1>2. e \in Nat /\ e > 0
  <2>1. item.sequence \in 1 .. MaxSpawns
    BY DEF Known
  <2>2. QED
    BY <2>1, BoundAssumption
<1>3. Apart(after)
  <2>1. SUFFICES ASSUME NEW a \in Told(after), NEW b \in Told(after),
                        after[a].remote_sequence = after[b].remote_sequence, a # b
                 PROVE  FALSE
    BY DEF Apart
  <2>2. a \in Position /\ b \in Position
    BY DEF Told
  <2>3. a # i /\ b # i
    BY <1>1, <2>1, <2>2
  <2>4. after[a] = table[a] /\ after[b] = table[b]
    BY <1>1, <2>2, <2>3
  <2>5. a \in Told(table) /\ b \in Told(table)
    BY <2>1, <2>4 DEF Told
  <2>6. QED
    BY <2>1, <2>4, <2>5 DEF Sound, Apart
<1>4. ASSUME NEW j \in Position
      PROVE  /\ j \in Told(after) => after[j].remote_sequence > 0
             /\ after[j].remote_sequence > 0 => after[j].remote_sequence \in K
  <2>1. CASE j = i
    BY <1>1, <1>2, <2>1
  <2>2. CASE j # i
    <3>1. after[j] = table[j] /\ (j \in Told(after) => j \in Told(table))
      BY <1>1, <2>2 DEF Told
    <3>2. QED
      BY <3>1 DEF Sound
  <2>3. QED
    BY <2>1, <2>2
<1>5. Sound(after, K)
  <2>1. \A j \in Told(after) : j \in Position
    BY DEF Told
  <2>2. QED
    BY <1>3, <1>4, <2>1 DEF Sound
<1>6. Told(table) \subseteq Told(after)
  BY <1>1 DEF Told
<1>7. At(after, e) = {i}
  BY <1>1 DEF At
<1>8. QED
  BY <1>5, <1>6, <1>7 DEF Alone

LEMMA PutKeepsOthers ==
  ASSUME NEW table, NEW after, NEW item, NEW other, NEW part, NEW now, NEW i \in Position,
         PutsAt(table, after, item, now, i), other.sequence # item.sequence
  PROVE  /\ Waiting(table, part, other) => Waiting(after, part, other)
         /\ ShowsNow(table, other, now) => ShowsNow(after, other, now)
<1> DEFINE e == other.sequence
<1>1. /\ after[i].remote_sequence # e
      /\ \A j \in Position \ {i} : after[j] = table[j]
  BY DEF PutsAt, Shows
<1>2. ASSUME NEW j \in Position, At(table, e) = {j}, table[j].state = "live"
      PROVE  At(after, e) = {j} /\ after[j] = table[j]
  <2>1. i # j
    <3>1. ASSUME i = j PROVE FALSE
      <4>1. table[i].remote_sequence = e
        BY <1>2, <3>1 DEF At
      <4>2. QED
        BY <1>2, <3>1, <4>1 DEF PutsAt
    <3>2. QED
      BY <3>1
  <2>2. table[i].remote_sequence # e
    BY <1>2, <2>1 DEF At
  <2>3. QED
    BY <1>1, <1>2, <2>1, <2>2 DEF At
<1>3. At(table, e) = {} => At(after, e) = {}
  BY <1>1 DEF At
<1>4. ASSUME Waiting(table, part, other) PROVE Waiting(after, part, other)
  <2>1. CASE part.diff /\ At(table, e) = {}
    BY <1>3, <2>1 DEF Waiting
  <2>2. CASE ~(part.diff /\ At(table, e) = {})
    <3>1. PICK j \in Position : /\ At(table, e) = {j}
                                /\ table[j].state = "live"
                                /\ table[j].value <= other.value
                                /\ ~part.diff => table[j].value = other.value
      BY <1>4, <2>2 DEF Waiting
    <3>2. At(after, e) = {j} /\ after[j] = table[j]
      BY <1>2, <3>1
    <3>3. QED
      BY <3>1, <3>2 DEF Waiting
  <2>3. QED
    BY <2>1, <2>2
<1>5. ASSUME ShowsNow(table, other, now) PROVE ShowsNow(after, other, now)
  <2>1. PICK j \in Position : /\ At(table, e) = {j} /\ Shows(table[j], other)
                              /\ table[j].last_recved_sequence = now
    BY <1>5 DEF ShowsNow
  <2>2. At(after, e) = {j} /\ after[j] = table[j]
    BY <1>2, <2>1 DEF Shows
  <2>3. QED
    BY <2>1, <2>2 DEF ShowsNow
<1>6. QED
  BY <1>4, <1>5

(* A body that tells the entities of a snapshot, all of them in K. *)
Legible(body, data, K) ==
  /\ body \in Seq(Part) /\ data \in Seq(Item) /\ Len(body) = Len(data)
  /\ \A n \in 1 .. Len(data) : /\ body[n].sequence = data[n].sequence
                               /\ body[n].diff => body[n].value = data[n].value
                               /\ data[n].sequence \in K
  /\ \A m, n \in 1 .. Len(data) : data[m].sequence = data[n].sequence => m = n

ReadState == [ghosts : [Position -> Ghost], orphans : SUBSET Nat]

(* Ghosts that are kept go forward. *)
Forward(start, table) ==
  /\ Told(start) \subseteq Told(table)
  /\ \A i \in Told(start) :
       table[i].remote_sequence = start[i].remote_sequence => table[i].value >= start[i].value

(* Nothing but what is read is marked as seen now, if nothing was before. *)
OnlyRead(start, table, data, now) ==
  (\A i \in Live(start) : start[i].last_recved_sequence # now) =>
    \A i \in Live(table) : table[i].last_recved_sequence = now =>
                             table[i].remote_sequence \in Ids(data)

(* The first k entities have been read, and the others can be. *)
ReadTo(start, body, data, K, now, state, k) ==
  /\ state.ghosts \in [Position -> Ghost] /\ state = [ghosts |-> state.ghosts, orphans |-> {}]
  /\ Sound(state.ghosts, K)
  /\ \A n \in 1 .. k : ShowsNow(state.ghosts, data[n], now)
  /\ \A n \in k + 1 .. Len(data) : Waiting(state.ghosts, body[n], data[n])
  /\ Forward(start, state.ghosts)
  /\ OnlyRead(start, state.ghosts, data, now)

LEMMA ReadsOne ==
  ASSUME NEW K, Known(K), NEW start \in [Position -> Ghost], NEW body, NEW data,
         Legible(body, data, K), NEW now \in Nat, NEW state, NEW k \in 1 .. Len(data),
         ReadTo(start, body, data, K, now, state, k - 1)
  PROVE  ReadTo(start, body, data, K, now, ReadEntity(state, body[k], now), k)
<1> DEFINE table == state.ghosts
           item == data[k]
           part == body[k]
           N == Len(data)
<1>1. N \in Nat /\ k \in 1 .. N /\ k - 1 + 1 = k
  BY DEF Legible
<1>2. item \in Item /\ part \in Part
  BY DEF Legible
<1>3. /\ part.sequence = item.sequence /\ (part.diff => part.value = item.value)
      /\ item.sequence \in K
  BY DEF Legible
<1>4. /\ table \in [Position -> Ghost] /\ state = [ghosts |-> table, orphans |-> {}]
      /\ Sound(table, K) /\ Forward(start, table) /\ OnlyRead(start, table, data, now)
      /\ \A n \in 1 .. k - 1 : ShowsNow(table, data[n], now)
      /\ \A n \in k .. N : Waiting(table, body[n], data[n])
  BY <1>1 DEF ReadTo
<1>5. \A n \in 1 .. N : n # k => data[n].sequence # item.sequence
  BY DEF Legible
<1>6. Waiting(table, part, item)
  BY <1>1, <1>4
<1> HIDE DEF table, item, part
<1>7. PICK i \in Position : \E after :
        /\ ReadsAs(table, part, now, after)
        /\ after \in [Position -> Ghost]
        /\ PutsAt(table, after, item, now, i)
  <2>1. Sound(table, K) /\ item.sequence \in K /\ part.sequence = item.sequence
    BY <1>3, <1>4
  <2>2. part.diff => part.value = item.value
    BY <1>3
  <2>3. QED
    BY <1>2, <1>6, <2>1, <2>2, EntityIsRead
<1>71. PICK after :
         /\ ReadsAs(table, part, now, after)
         /\ after \in [Position -> Ghost]
         /\ PutsAt(table, after, item, now, i)
  BY <1>7
<1>8. ReadEntity(state, part, now) = [ghosts |-> after, orphans |-> {}]
  BY <1>4, <1>71 DEF ReadsAs
<1>9. Sound(after, K) /\ Told(table) \subseteq Told(after) /\ Alone(after, item.sequence, i)
  <2>1. Sound(table, K) /\ item.sequence \in K
    BY <1>3, <1>4
  <2>2. after \in [Position -> Ghost] /\ PutsAt(table, after, item, now, i)
    BY <1>71
  <2>3. QED
    BY <1>2, <2>1, <2>2, PutIsSound
<1>10. ShowsNow(after, item, now)
  BY <1>71, <1>9 DEF ShowsNow, PutsAt, Alone
<1>11. ASSUME NEW n \in 1 .. k PROVE ShowsNow(after, data[n], now)
  <2>1. CASE n = k
    BY <1>10, <2>1 DEF item
  <2>2. CASE n # k
    <3>1. n \in 1 .. k - 1 /\ data[n].sequence # item.sequence
      BY <1>1, <1>5, <2>2
    <3>2. ShowsNow(table, data[n], now)
      BY <1>4, <3>1
    <3>3. QED
      BY <1>71, <3>1, <3>2, PutKeepsOthers
  <2>3. QED
    BY <2>1, <2>2
<1>12. ASSUME NEW n \in k + 1 .. N PROVE Waiting(after, body[n], data[n])
  <2>1. n \in k .. N /\ data[n].sequence # item.sequence
    BY <1>1, <1>5
  <2>2. Waiting(table, body[n], data[n])
    BY <1>4, <2>1
  <2>3. QED
    BY <1>71, <2>1, <2>2, PutKeepsOthers
<1>13. Forward(start, after)
  <2>1. Told(start) \subseteq Told(after)
    BY <1>4, <1>9 DEF Forward
  <2>2. ASSUME NEW j \in Told(start), after[j].remote_sequence = start[j].remote_sequence
        PROVE  after[j].value >= start[j].value
    <3>1. j \in Position /\ j \in Told(table) /\ table[j].state # "gone"
      BY <1>4 DEF Told, Forward
    <3>2. CASE j # i
      <4>1. after[j] = table[j]
        BY <1>71, <3>1, <3>2 DEF PutsAt
      <4>2. QED
        BY <1>4, <2>2, <4>1 DEF Forward
    <3>3. CASE j = i
      <4>1. /\ table[j].remote_sequence = item.sequence /\ table[j].value <= item.value
            /\ after[j].remote_sequence = item.sequence /\ after[j].value = item.value
        BY <1>71, <3>1, <3>3 DEF PutsAt, Shows
      <4>2. table[j].value >= start[j].value
        BY <1>4, <2>2, <4>1 DEF Forward
      <4>3. table[j].value \in Int /\ start[j].value \in Int /\ item.value \in Int
        <5>1. table[j] \in Ghost /\ start[j] \in Ghost
          BY <1>4, <3>1
        <5>2. table[j].value \in AnyValue /\ start[j].value \in AnyValue /\ item.value \in Value
          BY <1>2, <5>1 DEF Ghost, Item
        <5>3. AnyValue \subseteq Int /\ Value \subseteq Int
          BY Values
        <5>4. table[j].value \in Int
          BY <5>2, <5>3
        <5>5. start[j].value \in Int
          BY <5>2, <5>3
        <5>6. item.value \in Int
          BY <5>2, <5>3
        <5>7. QED
          BY <5>4, <5>5, <5>6
      <4>4. QED
        BY <4>1, <4>2, <4>3
    <3>4. QED
      BY <3>2, <3>3
  <2>3. QED
    BY <2>1, <2>2 DEF Forward
<1>14. OnlyRead(start, after, data, now)
  <2>1. SUFFICES ASSUME \A j \in Live(start) : start[j].last_recved_sequence # now,
                        NEW j \in Live(after), after[j].last_recved_sequence = now
                 PROVE  after[j].remote_sequence \in Ids(data)
    BY DEF OnlyRead
  <2>2. CASE j = i
    <3>1. after[j].remote_sequence = data[k].sequence
      BY <1>71, <2>2 DEF PutsAt, Shows, item
    <3>2. QED
      BY <1>1, <3>1 DEF Ids
  <2>3. CASE j # i
    <3>1. after[j] = table[j] /\ j \in Live(table)
      BY <1>71, <2>3 DEF PutsAt, Live
    <3>2. QED
      BY <1>4, <2>1, <3>1 DEF OnlyRead
  <2>4. QED
    BY <2>2, <2>3
<1>15. QED
  <2> DEFINE s == ReadEntity(state, part, now)
  <2>1. s.ghosts = after /\ s = [ghosts |-> s.ghosts, orphans |-> {}]
    BY <1>8
  <2> HIDE DEF s
  <2>2. ReadTo(start, body, data, K, now, s, k)
    BY <1>71, <1>9, <1>11, <1>12, <1>13, <1>14, <2>1 DEF ReadTo
  <2>3. QED
    BY <2>2 DEF s, part

LEMMA ReadEntityIsState ==
  ASSUME NEW state \in ReadState, NEW part \in Part, NEW now \in Nat
  PROVE  ReadEntity(state, part, now) \in ReadState
<1> DEFINE table == state.ghosts
           known == {i \in Position : table[i].remote_sequence = part.sequence}
           i == FirstOf(known)
           marked == IF known = {} THEN table ELSE [table EXCEPT ![i].last_recved_sequence = now]
           vacant == Position \ Valid(table)
           v == FirstOf(vacant)
           ghost == [remote_sequence |-> part.sequence, state |-> "live",
                     value |-> part.value, last_recved_sequence |-> now]
           held == known # {} /\ table[i].state # "gone"
<1>1. /\ table \in [Position -> Ghost] /\ state.orphans \subseteq Nat
      /\ part.sequence \in Nat /\ part.value \in AnyValue
  BY DEF ReadState, Part
<1>2. known # {} => i \in Position
  <2>1. known \subseteq Position
    OBVIOUS
  <2>2. QED
    BY <2>1, FirstIs
<1>3. vacant # {} => v \in Position
  <2>1. vacant \subseteq Position
    OBVIOUS
  <2>2. QED
    BY <2>1, FirstIs
<1>4. ghost \in Ghost
  BY <1>1 DEF Ghost, State
<1>5. ReadEntity(state, part, now) =
        IF held
          THEN [state EXCEPT !.ghosts = IF part.diff THEN [marked EXCEPT ![i].value = part.value]
                                        ELSE marked]
          ELSE IF vacant # {} THEN [state EXCEPT !.ghosts = [marked EXCEPT ![v] = ghost]]
          ELSE [ghosts |-> marked, orphans |-> state.orphans \cup {part.sequence}]
  BY Zenon DEF ReadEntity
<1> HIDE DEF known, i, vacant, v, ghost, table
<1>6. marked \in [Position -> Ghost]
  <2>1. CASE known = {}
    BY <1>1, <2>1
  <2>2. CASE known # {}
    <3>1. i \in Position /\ table[i] \in Ghost
      BY <1>1, <1>2, <2>2
    <3>2. [table[i] EXCEPT !.last_recved_sequence = now] \in Ghost
      BY <3>1 DEF Ghost
    <3>3. QED
      BY <1>1, <2>2, <3>1, <3>2
  <2>3. QED
    BY <2>1, <2>2
<1> HIDE DEF marked
<1>7. known # {} => [marked EXCEPT ![i].value = part.value] \in [Position -> Ghost]
  <2>1. SUFFICES ASSUME known # {} PROVE [marked EXCEPT ![i].value = part.value] \in [Position -> Ghost]
    OBVIOUS
  <2>2. i \in Position /\ marked[i] \in Ghost
    BY <1>2, <1>6, <2>1
  <2>3. [marked[i] EXCEPT !.value = part.value] \in Ghost
    BY <1>1, <2>2 DEF Ghost
  <2>4. QED
    BY <1>6, <2>2, <2>3
<1>8. vacant # {} => [marked EXCEPT ![v] = ghost] \in [Position -> Ghost]
  BY <1>3, <1>4, <1>6
<1>9. \A ghosts_ \in [Position -> Ghost] : [state EXCEPT !.ghosts = ghosts_] \in ReadState
  BY DEF ReadState
<1>10. [ghosts |-> marked, orphans |-> state.orphans \cup {part.sequence}] \in ReadState
  BY <1>1, <1>6 DEF ReadState
<1>11. CASE held
  <2>1. CASE part.diff
    <3>1. ReadEntity(state, part, now)
            = [state EXCEPT !.ghosts = [marked EXCEPT ![i].value = part.value]]
      BY <1>5, <1>11, <2>1
    <3>2. QED
      BY <1>7, <1>9, <1>11, <3>1
  <2>2. CASE ~part.diff
    <3>1. ReadEntity(state, part, now) = [state EXCEPT !.ghosts = marked]
      BY <1>5, <1>11, <2>2
    <3>2. QED
      BY <1>6, <1>9, <3>1
  <2>3. QED
    BY <2>1, <2>2
<1>12. CASE ~held
  BY <1>5, <1>8, <1>9, <1>10, <1>12
<1>13. QED
  BY <1>11, <1>12

(* The equation that defines the loop of Read. *)
ReadRuns(f, state, body, now) ==
  f = [i \in 0 .. Len(body) |-> IF i = 0 THEN state ELSE ReadEntity(f[i - 1], body[i], now)]
Sweeping(state, now) == [state EXCEPT !.ghosts = Swept(@, now)]

LEMMA ReadIs ==
  ASSUME NEW state \in ReadState, NEW body \in Seq(Part), NEW now \in Nat
  PROVE  \E f : /\ f[0] = state
                /\ \A i \in 1 .. Len(body) : f[i] = ReadEntity(f[i - 1], body[i], now)
                /\ Read(state, body, now) = Sweeping(f[Len(body)], now)
<1> DEFINE N == Len(body)
           next(i, x) == ReadEntity(x, body[i], now)
           step == [a \in (1 .. N) \X ReadState |-> next(a[1], a[2])]
<1>1. N \in Nat /\ \A i \in 1 .. N : body[i] \in Part
  OBVIOUS
<1>2. \A i \in 1 .. N, x \in ReadState : next(i, x) \in ReadState
  BY <1>1, ReadEntityIsState
<1> HIDE DEF next
<1>3. \A i \in 1 .. N, x \in ReadState : step[<<i, x>>] = next(i, x)
  OBVIOUS
<1>4. step \in [(1 .. N) \X ReadState -> ReadState]
  BY <1>2
<1> HIDE DEF step
<1>5. \E g \in [0 .. N -> ReadState] : Runs(g, state, step, N)
  <2> HIDE DEF N
  <2>1. QED
    BY <1>1, <1>4, RecursionExists
<1>6. PICK g \in [0 .. N -> ReadState] : Runs(g, state, step, N)
  BY <1>5
<1>7. g[0] = state /\ \A i \in 1 .. N : g[i] = next(i, g[i - 1])
  <2>1. g[0] = state
    BY <1>6 DEF Runs
  <2>2. ASSUME NEW i \in 1 .. N PROVE g[i] = next(i, g[i - 1])
    <3> HIDE DEF N
    <3>1. i - 1 \in 0 .. N
      BY <1>1
    <3>2. g[i - 1] \in ReadState
      BY <1>6, <3>1
    <3>3. g[i] = step[<<i, g[i - 1]>>]
      BY <1>6 DEF Runs
    <3>4. QED
      BY <1>3, <3>2, <3>3
  <2>3. QED
    BY <2>1, <2>2
<1>8. g = [i \in 0 .. N |-> IF i = 0 THEN state ELSE next(i, g[i - 1])]
  <2> HIDE DEF N
  <2>1. \A i \in 0 .. N : g[i] = IF i = 0 THEN state ELSE next(i, g[i - 1])
    BY <1>1, <1>7
  <2>2. QED
    BY <1>6, <2>1
<1>9. ReadRuns(g, state, body, now)
  BY <1>8, Zenon DEF ReadRuns, next
<1>10. \E f : ReadRuns(f, state, body, now) /\ Read(state, body, now) = Sweeping(f[N], now)
  BY <1>9, Zenon DEF ReadRuns, Read, Sweeping
<1>11. PICK f : ReadRuns(f, state, body, now) /\ Read(state, body, now) = Sweeping(f[N], now)
  BY <1>10
<1>12. \A i \in 0 .. N : f[i] = IF i = 0 THEN state ELSE next(i, f[i - 1])
  BY <1>11, Zenon DEF ReadRuns, next
<1>13. f[0] = state /\ \A i \in 1 .. N : f[i] = next(i, f[i - 1])
  <2> HIDE DEF N
  <2>1. QED
    BY <1>1, <1>12
<1>14. QED
  BY <1>11, <1>13 DEF next

LEMMA GhostsReplaced ==
  ASSUME NEW table \in [Position -> Ghost], NEW other \in [Position -> Ghost]
  PROVE  [[ghosts |-> table, orphans |-> {}] EXCEPT !.ghosts = other]
           = [ghosts |-> other, orphans |-> {}]
OBVIOUS

LEMMA SweptIs ==
  ASSUME NEW table \in [Position -> Ghost], NEW now
  PROVE  /\ Swept(table, now) \in [Position -> Ghost]
         /\ \A i \in Position :
              /\ Swept(table, now)[i].remote_sequence = table[i].remote_sequence
              /\ Swept(table, now)[i].value = table[i].value
              /\ Swept(table, now)[i].last_recved_sequence = table[i].last_recved_sequence
              /\ Swept(table, now)[i].state =
                   IF table[i].state # "gone" /\ table[i].last_recved_sequence # now
                     THEN "removed" ELSE table[i].state
<1> DEFINE swept == Swept(table, now)
<1>1. swept = [i \in Position |->
                 IF table[i].state # "gone" /\ table[i].last_recved_sequence # now
                   THEN [table[i] EXCEPT !.state = "removed"] ELSE table[i]]
  BY Zenon DEF Swept
<1> HIDE DEF swept
<1>2. ASSUME NEW i \in Position
      PROVE  /\ swept[i] \in Ghost
             /\ swept[i].remote_sequence = table[i].remote_sequence
             /\ swept[i].value = table[i].value
             /\ swept[i].last_recved_sequence = table[i].last_recved_sequence
             /\ swept[i].state =
                  IF table[i].state # "gone" /\ table[i].last_recved_sequence # now
                    THEN "removed" ELSE table[i].state
  <2>1. table[i] \in Ghost
    OBVIOUS
  <2>2. CASE table[i].state # "gone" /\ table[i].last_recved_sequence # now
    <3>1. swept[i] = [table[i] EXCEPT !.state = "removed"]
      BY <1>1, <2>2
    <3>2. QED
      BY <2>1, <2>2, <3>1 DEF Ghost, State
  <2>3. CASE ~(table[i].state # "gone" /\ table[i].last_recved_sequence # now)
    <3>1. swept[i] = table[i]
      BY <1>1, <2>3
    <3>2. QED
      BY <2>1, <2>3, <3>1
  <2>4. QED
    BY <2>2, <2>3
<1>3. swept \in [Position -> Ghost]
  BY <1>1, <1>2
<1>4. QED
  BY <1>2, <1>3 DEF swept

ReadsTo(table, body, now, after) ==
  Read([ghosts |-> table, orphans |-> {}], body, now) = [ghosts |-> after, orphans |-> {}]

LEMMA ReadsAll ==
  ASSUME NEW K, Known(K), NEW start \in [Position -> Ghost], NEW body, NEW data,
         Legible(body, data, K), NEW now \in Nat, Sound(start, K),
         \A n \in 1 .. Len(data) : Waiting(start, body[n], data[n])
  PROVE  \E state : /\ ReadTo(start, body, data, K, now, state, Len(data))
                    /\ ReadsTo(start, body, now, Swept(state.ghosts, now))
<1> DEFINE first == [ghosts |-> start, orphans |-> {}]
           N == Len(data)
<1>1. N \in Nat /\ Len(body) = N /\ body \in Seq(Part)
  BY DEF Legible
<1>2. first \in ReadState
  BY DEF ReadState
<1>3. PICK f : /\ f[0] = first
               /\ \A i \in 1 .. N : f[i] = ReadEntity(f[i - 1], body[i], now)
               /\ Read(first, body, now) = Sweeping(f[N], now)
  <2> HIDE DEF first
  <2>1. PICK f : /\ f[0] = first
                 /\ \A i \in 1 .. Len(body) : f[i] = ReadEntity(f[i - 1], body[i], now)
                 /\ Read(first, body, now) = Sweeping(f[Len(body)], now)
    BY <1>1, <1>2, ReadIs
  <2>2. QED
    BY <1>1, <2>1
<1>4. ReadTo(start, body, data, K, now, first, 0)
  <2>1. \A i \in Told(start) : start[i].value \in Int
    <3>1. \A i \in Told(start) : start[i] \in Ghost
      BY DEF Told
    <3>2. \A i \in Told(start) : start[i].value \in AnyValue
      BY <3>1 DEF Ghost
    <3>3. QED
      BY <3>2, Values
  <2>2. Forward(start, start)
    BY <2>1 DEF Forward
  <2>3. OnlyRead(start, start, data, now)
    BY DEF OnlyRead
  <2>4. first.ghosts = start
    OBVIOUS
  <2> HIDE DEF first
  <2>5. first = [ghosts |-> first.ghosts, orphans |-> {}]
    BY <2>4 DEF first
  <2>6. QED
    BY <1>1, <2>2, <2>3, <2>4, <2>5 DEF ReadTo
<1> HIDE DEF first
<1> DEFINE A == {k \in 0 .. N : ReadTo(start, body, data, K, now, f[k], k)}
<1>5. 0 \in A
  BY <1>1, <1>3, <1>4
<1>6. ASSUME NEW k \in 1 .. N, k - 1 \in A PROVE k \in A
  <2>1. ReadTo(start, body, data, K, now, f[k - 1], k - 1)
    BY <1>6
  <2>2. ReadTo(start, body, data, K, now, ReadEntity(f[k - 1], body[k], now), k)
    BY <2>1, ReadsOne
  <2>3. QED
    BY <1>1, <1>3, <2>2
<1>7. N \in A
  <2> HIDE DEF A, N
  <2>1. 0 .. N \subseteq A
    BY <1>1, <1>5, <1>6, UpFromZero
  <2>2. QED
    BY <1>1, <2>1
<1>8. ReadTo(start, body, data, K, now, f[N], N)
  BY <1>7
<1> DEFINE state == f[N]
<1>9. state = [ghosts |-> state.ghosts, orphans |-> {}]
  BY <1>8 DEF ReadTo
<1> HIDE DEF state
<1>10. Sweeping(state, now) = [ghosts |-> Swept(state.ghosts, now), orphans |-> {}]
  <2>1. PICK table \in [Position -> Ghost] : table = state.ghosts
    BY <1>8 DEF ReadTo, state
  <2>2. state = [ghosts |-> table, orphans |-> {}]
    BY <1>9, <2>1
  <2>3. PICK swept \in [Position -> Ghost] : swept = Swept(table, now)
    BY SweptIs
  <2>4. Sweeping(state, now) = [state EXCEPT !.ghosts = swept]
    BY <2>1, <2>3, Zenon DEF Sweeping
  <2>5. [[ghosts |-> table, orphans |-> {}] EXCEPT !.ghosts = swept]
          = [ghosts |-> swept, orphans |-> {}]
    BY GhostsReplaced
  <2>6. QED
    BY <2>1, <2>2, <2>3, <2>4, <2>5, Zenon
<1>11. QED
  BY <1>3, <1>8, <1>10 DEF state, first, ReadsTo

-----------------------------------------------------------------------------
(* A packet that is read makes the ghosts a replica of its snapshot.       *)

LEMMA TellsIsLegible ==
  ASSUME RoomForAll, NEW T \in Seq(Seq(Item)), NEW top \in 0 .. MaxSpawns, History(T, top),
         NEW last \in Number, NEW new \in Nat, new < Len(T),
         NEW body \in Seq(Part), Tells(body, T[new + 1], T, last)
  PROVE  Known(Heard(T, new)) /\ Legible(body, T[new + 1], Heard(T, new))
<1> DEFINE data == T[new + 1]
           K == Heard(T, new)
<1>1. new + 1 \in 1 .. Len(T) /\ data \in Seq(Item)
  <2>1. new + 1 \in 1 .. Len(T)
    OBVIOUS
  <2>2. \A s \in 1 .. Len(T) : T[s] \in Seq(Item)
    OBVIOUS
  <2>3. QED
    BY <2>1, <2>2
<1>2. K \subseteq 1 .. MaxSpawns
  <2>1. \A s \in 1 .. Len(T) : Ids(T[s]) \subseteq 1 .. top
    BY DEF History
  <2>2. 1 .. top \subseteq 1 .. MaxSpawns
    BY BoundAssumption
  <2>3. QED
    BY <2>1, <2>2 DEF Heard
<1>3. ASSUME NEW n \in 1 .. Len(data) PROVE data[n].sequence \in K
  <2>1. data[n].sequence \in Ids(data)
    BY DEF Ids
  <2>2. data[n].sequence \in Nat
    <3>1. data[n] \in Item
      BY <1>1
    <3>2. QED
      BY <3>1 DEF Item
  <2>3. QED
    BY <1>1, <2>1, <2>2 DEF Heard
<1>4. \A m, n \in 1 .. Len(data) : data[m].sequence = data[n].sequence => m = n
  BY <1>1 DEF History
<1>5. Len(body) = Len(data)
      /\ \A n \in 1 .. Len(data) : /\ body[n].sequence = data[n].sequence
                                   /\ body[n].diff => body[n].value = data[n].value
  BY DEF Tells
<1> HIDE DEF data, K
<1>6. Legible(body, data, K)
  BY <1>1, <1>3, <1>4, <1>5 DEF Legible
<1>7. Known(K)
  BY <1>2 DEF Known
<1>8. QED
  BY <1>6, <1>7 DEF data, K

LEMMA TellsIsAwaited ==
  ASSUME NEW T \in Seq(Seq(Item)), NEW top \in 0 .. MaxSpawns, History(T, top),
         NEW last \in Number, NEW new \in Nat, last < new, new < Len(T),
         NEW body \in Seq(Part), Tells(body, T[new + 1], T, last),
         NEW table, Replica(table, T, last), NEW n \in 1 .. Len(T[new + 1])
  PROVE  Waiting(table, body[n], T[new + 1][n])
<1> DEFINE data == T[new + 1]
           item == data[n]
           seen == T[last + 1]
           e == item.sequence
<1>1. \A s \in 1 .. Len(T) : T[s] \in Seq(Item)
  OBVIOUS
<1>2. /\ new + 1 \in 1 .. Len(T) /\ data \in Seq(Item) /\ item \in Item /\ last \in Int
      /\ Len(T) \in Nat
  <2>1. new + 1 \in 1 .. Len(T) /\ last \in Int /\ Len(T) \in Nat
    BY DEF Number
  <2>2. data \in Seq(Item)
    BY <1>1, <2>1
  <2>3. QED
    BY <2>1, <2>2
<1>3. e \in Ids(data) /\ e \in Nat /\ e > 0 /\ item.value \in Int
  <2>1. e \in Ids(data)
    BY DEF Ids
  <2>2. Ids(data) \subseteq 1 .. top
    BY <1>2 DEF History
  <2>3. item.value \in Value
    BY <1>2 DEF Item
  <2>4. e \in 1 .. top
    BY <2>1, <2>2
  <2>5. item.value \in Int
    BY <2>3, Values
  <2>6. QED
    BY <2>1, <2>4, <2>5
<1>4. ~body[n].diff => Had(T, last, item)
  BY DEF Tells
<1> HIDE DEF data, item
<1>5. CASE last >= 0 /\ e \in Ids(seen)
  <2>1. last + 1 \in 1 .. Len(T) /\ seen \in Seq(Item)
    <3>1. last + 1 \in 1 .. Len(T)
      BY <1>2, <1>5
    <3>2. QED
      BY <1>1, <3>1
  <2>2. PICK m \in 1 .. Len(seen) : seen[m].sequence = e
    BY <1>5 DEF Ids
  <2>3. seen[m] \in Item /\ seen[m].value \in Int
    <3>1. seen[m] \in Item
      BY <2>1
    <3>2. seen[m].value \in Value
      BY <3>1 DEF Item
    <3>3. seen[m].value \in Int
      BY <3>2, Values
    <3>4. QED
      BY <3>1, <3>3
  <2>4. seen[m].value <= item.value
    <3>1. NotAfter(seen, data)
      <4>1. \A s, t \in 1 .. Len(T) : s <= t => NotAfter(T[s], T[t])
        BY DEF History
      <4>2. last + 1 <= new + 1
        BY <1>2
      <4>3. QED
        BY <1>2, <2>1, <4>1, <4>2 DEF data
    <3>2. QED
      BY <2>2, <3>1 DEF NotAfter, item, data
  <2>5. ASSUME ~body[n].diff PROVE seen[m].value = item.value
    <3>1. PICK s \in 1 .. Len(T) : s <= last + 1 /\ \E x \in 1 .. Len(T[s]) : T[s][x] = item
      BY <1>4, <2>5 DEF Had
    <3>2. PICK x \in 1 .. Len(T[s]) : T[s][x] = item
      BY <3>1
    <3>3. NotAfter(T[s], seen)
      BY <2>1, <3>1 DEF History
    <3>4. T[s][x].value <= seen[m].value
      BY <2>2, <3>2, <3>3 DEF NotAfter
    <3>5. item.value <= seen[m].value
      BY <3>2, <3>4
    <3>6. item.value \in Int /\ seen[m].value \in Int
      BY <1>3, <2>3
    <3> HIDE DEF seen
    <3>7. QED
      BY <2>4, <3>5, <3>6
  <2>6. ShowsAll(table, seen)
    BY <1>5 DEF Replica
  <2>7. PICK i \in Position : Shows(table[i], seen[m])
    BY <2>6 DEF ShowsAll
  <2>8. /\ table[i].state = "live" /\ table[i].remote_sequence = e
        /\ table[i].value = seen[m].value
    BY <2>2, <2>7 DEF Shows
  <2>9. \A j \in Position : table[j].remote_sequence = e => table[j].state = "live"
    BY <2>2, <2>6 DEF ShowsAll
  <2>10. \A j \in Position : table[j].remote_sequence = e => j = i
    <3>1. ASSUME NEW j \in Position, table[j].remote_sequence = e PROVE j = i
      <4>1. i \in Told(table) /\ j \in Told(table)
        BY <2>8, <2>9, <3>1 DEF Told
      <4>2. Apart(table)
        BY DEF Replica, Sound
      <4>3. QED
        BY <2>8, <3>1, <4>1, <4>2 DEF Apart
    <3>2. QED
      BY <3>1
  <2>11. At(table, e) = {i}
    BY <2>8, <2>10 DEF At
  <2>12. table[i].value <= item.value /\ (~body[n].diff => table[i].value = item.value)
    BY <2>4, <2>5, <2>8
  <2>13. Waiting(table, body[n], item)
    BY <2>8, <2>11, <2>12 DEF Waiting
  <2>14. QED
    BY <2>13 DEF item, data
<1>6. CASE ~(last >= 0 /\ e \in Ids(seen))
  <2>1. ASSUME NEW s \in 1 .. Len(T), s <= last + 1 PROVE e \notin Ids(T[s])
    <3>1. last >= 0 /\ last + 1 \in 1 .. Len(T)
      BY <1>2, <2>1
    <3>2. s <= last + 1 /\ last + 1 <= new + 1
      BY <1>2, <2>1
    <3>3. Ids(T[s]) \cap Ids(data) \subseteq Ids(seen)
      BY <1>2, <3>1, <3>2 DEF History, data
    <3>4. QED
      BY <1>3, <1>6, <3>1, <3>3
  <2>2. body[n].diff
    <3>1. ASSUME ~body[n].diff PROVE FALSE
      <4>1. PICK s \in 1 .. Len(T) : s <= last + 1 /\ \E x \in 1 .. Len(T[s]) : T[s][x] = item
        BY <1>4, <3>1 DEF Had
      <4>2. e \in Ids(T[s])
        BY <4>1 DEF Ids
      <4>3. QED
        BY <2>1, <4>1, <4>2
    <3>2. QED
      BY <3>1
  <2>3. At(table, e) = {}
    <3>1. ASSUME NEW i \in Position, table[i].remote_sequence = e PROVE FALSE
      <4>1. table[i].remote_sequence \in Heard(T, last)
        BY <1>3, <3>1 DEF Replica, Sound
      <4>2. PICK s \in 1 .. Len(T) : s <= last + 1 /\ e \in Ids(T[s])
        BY <3>1, <4>1 DEF Heard
      <4>3. QED
        BY <2>1, <4>2
    <3>2. QED
      BY <3>1 DEF At
  <2>4. Waiting(table, body[n], item)
    BY <2>2, <2>3 DEF Waiting
  <2>5. QED
    BY <2>4 DEF item, data
<1>7. QED
  BY <1>5, <1>6

LEMMA ReadReplicates ==
  ASSUME RoomForAll, NEW T \in Seq(Seq(Item)), NEW top \in 0 .. MaxSpawns, History(T, top),
         NEW last \in Number, NEW new \in Nat, last < new, new < Len(T),
         NEW body \in Seq(Part), Tells(body, T[new + 1], T, last),
         NEW table, Replica(table, T, last), NEW now \in Nat
  PROVE  \E after : /\ ReadsTo(table, body, now, after)
                    /\ after \in [Position -> Ghost]
                    /\ Replica(after, T, new)
                    /\ Forward(table, after)
                    /\ (\A i \in Live(table) : table[i].last_recved_sequence # now) =>
                         \A i \in Live(after) : after[i].remote_sequence \in Ids(T[new + 1])
<1> DEFINE data == T[new + 1]
           K == Heard(T, new)
<1>1. Known(K) /\ Legible(body, data, K)
  BY TellsIsLegible
<1>2. \A n \in 1 .. Len(data) : Waiting(table, body[n], data[n])
  BY TellsIsAwaited
<1>3. Sound(table, K) /\ table \in [Position -> Ghost]
  <2>1. Heard(T, last) \subseteq K
    <3>1. last \in Int /\ Len(T) \in Nat
      BY DEF Number
    <3>2. \A s \in 1 .. Len(T) : s <= last + 1 => s <= new + 1
      BY <3>1
    <3>3. QED
      BY <3>2 DEF Heard
  <2> HIDE DEF K
  <2>2. QED
    BY <2>1 DEF Replica, Sound
<1> HIDE DEF data, K
<1>4. PICK state : /\ ReadTo(table, body, data, K, now, state, Len(data))
                   /\ ReadsTo(table, body, now, Swept(state.ghosts, now))
  BY <1>1, <1>2, <1>3, ReadsAll
<1> DEFINE read == state.ghosts
           after == Swept(read, now)
<1>5. /\ read \in [Position -> Ghost] /\ Sound(read, K) /\ Forward(table, read)
      /\ OnlyRead(table, read, data, now)
      /\ \A n \in 1 .. Len(data) : ShowsNow(read, data[n], now)
  BY <1>4 DEF ReadTo
<1> HIDE DEF read
<1>6. /\ after \in [Position -> Ghost]
      /\ \A i \in Position :
           /\ after[i].remote_sequence = read[i].remote_sequence
           /\ after[i].value = read[i].value
           /\ after[i].last_recved_sequence = read[i].last_recved_sequence
           /\ after[i].state = IF read[i].state # "gone" /\ read[i].last_recved_sequence # now
                                 THEN "removed" ELSE read[i].state
  BY <1>5, SweptIs
<1> HIDE DEF after
<1>7. Told(after) = Told(read)
  BY <1>6 DEF Told
<1>8. Sound(after, K)
  <2>1. Apart(after)
    <3>1. \A i \in Told(read) : i \in Position
      BY DEF Told
    <3>2. Apart(read)
      BY <1>5 DEF Sound
    <3>3. QED
      BY <1>6, <1>7, <3>1, <3>2 DEF Apart
  <2>2. \A i \in Told(after) : after[i].remote_sequence > 0
    <3>1. \A i \in Told(read) : i \in Position /\ read[i].remote_sequence > 0
      BY <1>5 DEF Told, Sound
    <3>2. QED
      BY <1>6, <1>7, <3>1
  <2>3. \A i \in Position : after[i].remote_sequence > 0 => after[i].remote_sequence \in K
    BY <1>5, <1>6 DEF Sound
  <2>4. QED
    BY <1>6, <2>1, <2>2, <2>3 DEF Sound
<1>9. ASSUME NEW n \in 1 .. Len(data)
      PROVE  /\ \E i \in Position : Shows(after[i], data[n])
             /\ \A i \in Position : after[i].remote_sequence = data[n].sequence
                                      => after[i].state = "live"
  <2>1. PICK i \in Position : /\ At(read, data[n].sequence) = {i}
                              /\ Shows(read[i], data[n])
                              /\ read[i].last_recved_sequence = now
    BY <1>5 DEF ShowsNow
  <2>2. Shows(after[i], data[n])
    BY <1>6, <2>1 DEF Shows
  <2>3. \A j \in Position : read[j].remote_sequence = data[n].sequence => j = i
    BY <2>1 DEF At
  <2>4. QED
    BY <1>6, <2>2, <2>3 DEF Shows
<1>10. Replica(after, T, new)
  <2>1. ShowsAll(after, data)
    BY <1>9 DEF ShowsAll
  <2>2. QED
    BY <1>8, <2>1 DEF Replica, K, data
<1>11. Forward(table, after)
  <2>1. \A i \in Told(table) : i \in Position
    BY DEF Told
  <2>2. QED
    BY <1>5, <1>6, <1>7, <2>1 DEF Forward
<1>12. ASSUME \A i \in Live(table) : table[i].last_recved_sequence # now, NEW i \in Live(after)
       PROVE  after[i].remote_sequence \in Ids(data)
  <2>1. i \in Position /\ read[i].state = "live" /\ read[i].last_recved_sequence = now
    BY <1>6 DEF Live
  <2>2. i \in Live(read)
    BY <2>1 DEF Live
  <2>3. read[i].remote_sequence \in Ids(data)
    BY <1>5, <1>12, <2>1, <2>2 DEF OnlyRead
  <2>4. QED
    BY <1>6, <2>1, <2>3
<1>13. ReadsTo(table, body, now, after)
  BY <1>4 DEF after, read
<1>14. QED
  BY <1>6, <1>10, <1>11, <1>12, <1>13 DEF data

-----------------------------------------------------------------------------
(* snapshot_entities                                                       *)

LEMMA SettledEntities ==
  ASSUME NEW table \in [Position -> Entity]
  PROVE  /\ Settled(table) \in [Position -> Entity]
         /\ \A i \in Position : /\ Settled(table)[i].sequence = table[i].sequence
                                /\ Settled(table)[i].value = table[i].value
                                /\ Settled(table)[i].state \in {"gone", "live"}
                                /\ Settled(table)[i].state = "live" <=> table[i].state = "live"
<1> DEFINE settled == Settled(table)
<1>1. settled = [i \in Position |-> IF table[i].state = "removed"
                                      THEN [table[i] EXCEPT !.state = "gone"] ELSE table[i]]
  BY Zenon DEF Settled
<1> HIDE DEF settled
<1>2. ASSUME NEW i \in Position
      PROVE  /\ settled[i] \in Entity
             /\ settled[i].sequence = table[i].sequence /\ settled[i].value = table[i].value
             /\ settled[i].state \in {"gone", "live"}
             /\ settled[i].state = "live" <=> table[i].state = "live"
  <2>1. table[i] \in Entity
    OBVIOUS
  <2>2. CASE table[i].state = "removed"
    <3>1. settled[i] = [table[i] EXCEPT !.state = "gone"]
      BY <1>1, <2>2
    <3>2. QED
      BY <2>1, <2>2, <3>1 DEF Entity, State
  <2>3. CASE table[i].state # "removed"
    <3>1. settled[i] = table[i] /\ table[i].state \in State
      BY <1>1, <2>1, <2>3 DEF Entity
    <3>2. QED
      BY <2>1, <2>3, <3>1 DEF State
  <2>4. QED
    BY <2>2, <2>3
<1>3. settled \in [Position -> Entity]
  BY <1>1, <1>2
<1>4. QED
  BY <1>2, <1>3 DEF settled

LEMMA SettledGhosts ==
  ASSUME NEW table \in [Position -> Ghost]
  PROVE  /\ Settled(table) \in [Position -> Ghost]
         /\ \A i \in Position : /\ Settled(table)[i].remote_sequence = table[i].remote_sequence
                                /\ Settled(table)[i].value = table[i].value
                                /\ Settled(table)[i].state # "gone" => table[i].state # "gone"
                                /\ Settled(table)[i].state = "live" <=> table[i].state = "live"
<1> DEFINE settled == Settled(table)
<1>1. settled = [i \in Position |-> IF table[i].state = "removed"
                                      THEN [table[i] EXCEPT !.state = "gone"] ELSE table[i]]
  BY Zenon DEF Settled
<1> HIDE DEF settled
<1>2. ASSUME NEW i \in Position
      PROVE  /\ settled[i] \in Ghost
             /\ settled[i].remote_sequence = table[i].remote_sequence
             /\ settled[i].value = table[i].value
             /\ settled[i].state # "gone" => table[i].state # "gone"
             /\ settled[i].state = "live" <=> table[i].state = "live"
  <2>1. table[i] \in Ghost
    OBVIOUS
  <2>2. CASE table[i].state = "removed"
    <3>1. settled[i] = [table[i] EXCEPT !.state = "gone"]
      BY <1>1, <2>2
    <3>2. QED
      BY <2>1, <2>2, <3>1 DEF Ghost, State
  <2>3. CASE table[i].state # "removed"
    <3>1. settled[i] = table[i]
      BY <1>1, <2>3
    <3>2. QED
      BY <2>1, <3>1
  <2>4. QED
    BY <2>2, <2>3
<1>3. settled \in [Position -> Ghost]
  BY <1>1, <1>2
<1>4. QED
  BY <1>2, <1>3 DEF settled

(* A snapshot has the entities up to the first slot that is free.          *)
DataOf(table, data) ==
  /\ data \in Seq(Item)
  /\ Len(data) <= MaxEntities
  /\ \A n \in 1 .. Len(data) : /\ n - 1 \in Position /\ 0 .. n - 1 \subseteq Valid(table)
                               /\ data[n].sequence = table[n - 1].sequence
                               /\ data[n].value = table[n - 1].value
  /\ \A i \in Position : 0 .. i \subseteq Valid(table) => i + 1 \in 1 .. Len(data)

LEMMA DataIs ==
  ASSUME NEW table \in [Position -> Entity], \A i \in Valid(table) : table[i].value \in Value
  PROVE  DataOf(table, Data(table))
<1> DEFINE seen == {i \in Position : 0 .. i \subseteq Valid(table)}
           rest == 0 .. MaxEntities \ seen
<1>1. MaxEntities \in Nat /\ Position = 0 .. MaxEntities - 1
  BY SizeAssumption DEF Position
<1>2. rest # {} /\ rest \subseteq Nat
  <2>1. MaxEntities \notin Position /\ MaxEntities \in 0 .. MaxEntities
    BY <1>1
  <2>2. QED
    BY <2>1
<1>3. PICK k \in rest : \A j \in rest : k <= j
  <2> HIDE DEF rest
  <2>1. QED
    BY <1>2, Least
<1>4. k \in Nat /\ k <= MaxEntities /\ k \notin seen
  BY <1>1, <1>3
<1>5. seen = 0 .. k - 1
  <2>1. ASSUME NEW i \in 0 .. k - 1 PROVE i \in seen
    <3>1. i \in 0 .. MaxEntities /\ ~(k <= i)
      BY <1>1, <1>4
    <3>2. i \notin rest
      BY <1>3, <3>1
    <3>3. QED
      BY <3>1, <3>2
  <2>2. ASSUME NEW i \in seen PROVE i \in 0 .. k - 1
    <3>1. i \in Nat /\ i <= MaxEntities - 1
      BY <1>1
    <3>2. ASSUME k <= i PROVE FALSE
      <4>1. k \in Position /\ 0 .. k \subseteq 0 .. i
        BY <1>1, <1>4, <3>1, <3>2
      <4>2. 0 .. i \subseteq Valid(table)
        OBVIOUS
      <4>3. k \in seen
        BY <4>1, <4>2
      <4>4. QED
        BY <1>4, <4>3
    <3>3. QED
      BY <1>4, <3>1, <3>2
  <2> HIDE DEF seen
  <2>3. QED
    BY <2>1, <2>2
<1>6. Cardinality(seen) = k
  <2>1. Cardinality(0 .. k - 1) = k
    BY <1>4, FS_Interval
  <2>2. QED
    BY <1>5, <2>1
<1>7. Data(table) = [n \in 1 .. k |-> [sequence |-> table[n - 1].sequence,
                                       value |-> table[n - 1].value]]
  <2>1. Data(table) = [n \in 1 .. Cardinality(seen) |->
                         [sequence |-> table[n - 1].sequence, value |-> table[n - 1].value]]
    BY Zenon DEF Data
  <2> HIDE DEF seen
  <2>2. QED
    BY <1>6, <2>1, Zenon
<1> DEFINE data == Data(table)
<1>8. ASSUME NEW n \in 1 .. k
      PROVE  /\ n - 1 \in Position /\ 0 .. n - 1 \subseteq Valid(table)
             /\ table[n - 1].sequence \in Nat /\ table[n - 1].value \in Value
  <2>1. n - 1 \in 0 .. k - 1 /\ n - 1 \in 0 .. n - 1
    BY <1>4
  <2>2. n - 1 \in seen
    BY <1>5, <2>1
  <2>3. n - 1 \in Position /\ 0 .. n - 1 \subseteq Valid(table)
    BY <2>2
  <2>4. n - 1 \in Valid(table)
    BY <2>1, <2>3
  <2>5. table[n - 1] \in Entity
    BY <2>3
  <2>6. table[n - 1].sequence \in Nat
    BY <2>5 DEF Entity
  <2>7. QED
    BY <2>3, <2>4, <2>6
<1> HIDE DEF data
<1>9. ASSUME NEW n \in 1 .. k
      PROVE  /\ data[n] \in Item
             /\ data[n].sequence = table[n - 1].sequence /\ data[n].value = table[n - 1].value
  <2>1. data[n] = [sequence |-> table[n - 1].sequence, value |-> table[n - 1].value]
    BY <1>7 DEF data
  <2>2. QED
    BY <1>8, <2>1 DEF Item
<1>10. data \in Seq(Item) /\ Len(data) = k
  <2>1. data = [n \in 1 .. k |-> data[n]]
    BY <1>7 DEF data
  <2>2. QED
    BY <1>4, <1>9, <2>1
<1>11. ASSUME NEW i \in Position, 0 .. i \subseteq Valid(table) PROVE i + 1 \in 1 .. k
  <2>1. i \in seen
    BY <1>11
  <2>2. i \in 0 .. k - 1
    BY <1>5, <2>1
  <2>3. QED
    BY <1>4, <2>2
<1> HIDE DEF seen, rest
<1>12. QED
  BY <1>4, <1>8, <1>9, <1>10, <1>11 DEF DataOf, data

LEMMA Appended ==
  ASSUME NEW T \in Seq(Seq(Item)), NEW data \in Seq(Item)
  PROVE  /\ Append(T, data) \in Seq(Seq(Item)) /\ Len(Append(T, data)) = Len(T) + 1
         /\ Append(T, data)[Len(T) + 1] = data
         /\ \A s \in 1 .. Len(T) : Append(T, data)[s] = T[s]
         /\ Len(T) \in Nat
         /\ \A s \in 1 .. Len(T) + 1 : s \in 1 .. Len(T) \/ s = Len(T) + 1
<1>1. Len(T) \in Nat
  OBVIOUS
<1>2. \A s \in 1 .. Len(T) + 1 : s \in 1 .. Len(T) \/ s = Len(T) + 1
  BY <1>1
<1>3. QED
  BY <1>1, <1>2

(* A snapshot of what the table holds continues the history.               *)
LEMMA HistoryGrows ==
  ASSUME NEW T \in Seq(Seq(Item)), NEW top, History(T, top),
         NEW old \in [Position -> Entity], Table(old, T, top),
         NEW data, DataOf(Settled(old), data)
  PROVE  /\ History(Append(T, data), top)
         /\ Table(Settled(old), Append(T, data), top)
<1> DEFINE table == Settled(old)
           L == Len(T)
           N == Len(data)
           T2 == Append(T, data)
<1>1. /\ table \in [Position -> Entity]
      /\ \A i \in Position : /\ table[i].sequence = old[i].sequence
                             /\ table[i].value = old[i].value
                             /\ table[i].state \in {"gone", "live"}
                             /\ table[i].state = "live" <=> old[i].state = "live"
  BY SettledEntities
<1>2. /\ data \in Seq(Item)
      /\ \A n \in 1 .. N : /\ n - 1 \in Position /\ 0 .. n - 1 \subseteq Valid(table)
                           /\ data[n].sequence = table[n - 1].sequence
                           /\ data[n].value = table[n - 1].value
      /\ \A i \in Position : 0 .. i \subseteq Valid(table) => i + 1 \in 1 .. N
  BY DEF DataOf
<1> HIDE DEF table
<1>3. /\ Len(T2) = L + 1 /\ T2[L + 1] = data /\ L \in Nat /\ N \in Nat
      /\ \A s \in 1 .. L : T2[s] = T[s]
      /\ \A s \in 1 .. L + 1 : s \in 1 .. L \/ s = L + 1
  BY <1>2, Appended
<1> HIDE DEF T2, L, N
<1>4. ASSUME NEW i \in Valid(table)
      PROVE  i \in Valid(old) /\ i \in Position /\ table[i].state = "live" /\ old[i].state = "live"
             /\ table[i].sequence = old[i].sequence /\ table[i].value = old[i].value
  BY <1>1 DEF Valid
<1>5. ASSUME NEW i \in Valid(table)
      PROVE  table[i].sequence \in 1 .. top /\ table[i].value \in Value
  BY <1>4 DEF Table
<1>6. ASSUME NEW i \in Valid(table), NEW j \in Valid(table), table[i].sequence = table[j].sequence
      PROVE  i = j
  BY <1>4, <1>6 DEF Table
<1>7. ASSUME NEW n \in 1 .. N PROVE n - 1 \in Valid(table) /\ n \in Nat
  <2>1. n - 1 \in 0 .. n - 1
    BY <1>3
  <2>2. QED
    BY <1>2, <2>1
<1>8. \A m, n \in 1 .. N : data[m].sequence = data[n].sequence => m = n
  <2>1. SUFFICES ASSUME NEW m \in 1 .. N, NEW n \in 1 .. N,
                        data[m].sequence = data[n].sequence
                 PROVE  m = n
    OBVIOUS
  <2>2. m - 1 = n - 1
    BY <1>2, <1>6, <1>7, <2>1
  <2>3. QED
    BY <1>7, <2>2
<1>9. ASSUME NEW e \in Ids(data) PROVE \E i \in Valid(table) : i + 1 \in 1 .. N /\ e = table[i].sequence
  <2>1. PICK n \in 1 .. N : e = data[n].sequence
    BY DEF Ids, N
  <2>2. n - 1 \in Valid(table) /\ n - 1 + 1 = n /\ e = table[n - 1].sequence
    BY <1>2, <1>7, <2>1
  <2>3. QED
    BY <2>2
<1>10. ASSUME NEW i \in Valid(table), NEW s \in 1 .. L, table[i].sequence \in Ids(T[s])
       PROVE  Lasts(old, T, i, s)
  BY <1>4, <1>10 DEF Table, L
<1>11. ASSUME NEW s \in 1 .. L + 1
       PROVE  /\ Ids(T2[s]) \subseteq 1 .. top
              /\ \A m, n \in 1 .. Len(T2[s]) : T2[s][m].sequence = T2[s][n].sequence => m = n
  <2>1. CASE s \in 1 .. L
    BY <1>3, <2>1 DEF History, L
  <2>2. CASE s = L + 1
    <3>1. Ids(data) \subseteq 1 .. top
      BY <1>5, <1>9
    <3>2. QED
      BY <1>3, <1>8, <2>2, <3>1 DEF N
  <2>3. QED
    BY <1>3, <2>1, <2>2
<1>12. ASSUME NEW s \in 1 .. L + 1, NEW t \in 1 .. L + 1, NEW u \in 1 .. L + 1,
              s <= t, t <= u, NEW e \in Ids(T2[s]), e \in Ids(T2[u])
       PROVE  e \in Ids(T2[t])
  <2>1. CASE t = u
    BY <1>12, <2>1
  <2>2. CASE t # u /\ u \in 1 .. L
    <3>1. s \in 1 .. L /\ t \in 1 .. L
      BY <1>3, <1>12, <2>2
    <3>2. e \in Ids(T[s]) \cap Ids(T[u])
      BY <1>3, <1>12, <2>2, <3>1
    <3>3. Ids(T[s]) \cap Ids(T[u]) \subseteq Ids(T[t])
      BY <1>12, <2>2, <3>1 DEF History, L
    <3>4. QED
      BY <1>3, <3>1, <3>2, <3>3
  <2>3. CASE t # u /\ u = L + 1
    <3>1. s \in 1 .. L /\ t \in 1 .. L /\ t \in s .. L
      BY <1>3, <1>12, <2>3
    <3>2. e \in Ids(T[s]) /\ e \in Ids(data)
      BY <1>3, <1>12, <2>3, <3>1
    <3>3. PICK i \in Valid(table) : e = table[i].sequence
      BY <1>9, <3>2
    <3>4. Lasts(old, T, i, s)
      BY <1>10, <3>1, <3>2, <3>3
    <3>5. e = old[i].sequence
      BY <1>4, <3>3
    <3>6. e \in Ids(T[t])
      BY <3>1, <3>4, <3>5 DEF Lasts, L
    <3>7. QED
      BY <1>3, <3>1, <3>6
  <2>4. QED
    BY <1>3, <2>1, <2>2, <2>3
<1>13. ASSUME NEW s \in 1 .. L, NEW i \in Valid(table), NEW m \in 1 .. Len(T[s]),
              T[s][m].sequence = table[i].sequence
       PROVE  T[s][m].value <= table[i].value
  <2>1. table[i].sequence \in Ids(T[s])
    BY <1>13 DEF Ids
  <2>2. Lasts(old, T, i, s) /\ table[i].sequence = old[i].sequence /\ table[i].value = old[i].value
    BY <1>4, <1>10, <2>1
  <2>3. QED
    BY <1>13, <2>2 DEF Lasts
<1>14. ASSUME NEW s \in 1 .. L + 1, NEW t \in 1 .. L + 1, s <= t PROVE NotAfter(T2[s], T2[t])
  <2>1. CASE t \in 1 .. L
    <3>1. s \in 1 .. L
      BY <1>3, <1>14, <2>1
    <3>2. NotAfter(T[s], T[t])
      BY <1>14, <2>1, <3>1 DEF History, L
    <3>3. QED
      BY <1>3, <2>1, <3>1, <3>2
  <2>2. CASE t = L + 1 /\ s \in 1 .. L
    <3>1. ASSUME NEW m \in 1 .. Len(T[s]), NEW n \in 1 .. N, T[s][m].sequence = data[n].sequence
          PROVE  T[s][m].value <= data[n].value
      <4>1. /\ n - 1 \in Valid(table) /\ data[n].sequence = table[n - 1].sequence
            /\ data[n].value = table[n - 1].value
        BY <1>2, <1>7
      <4>2. QED
        BY <1>13, <2>2, <3>1, <4>1
    <3>2. NotAfter(T[s], data)
      BY <3>1 DEF NotAfter, N
    <3>3. QED
      BY <1>3, <2>2, <3>2
  <2>3. CASE t = L + 1 /\ s = L + 1
    <3>1. \A n \in 1 .. N : data[n].value <= data[n].value
      <4>1. ASSUME NEW n \in 1 .. N PROVE data[n].value \in Int
        <5>1. data[n].value \in Value
          BY <1>2, <1>5, <1>7
        <5>2. QED
          BY <5>1, Values
      <4>2. QED
        BY <4>1
    <3>2. NotAfter(data, data)
      BY <1>8, <3>1 DEF NotAfter, N
    <3>3. QED
      BY <1>3, <2>3, <3>2
  <2>4. QED
    BY <1>3, <2>1, <2>2, <2>3
<1>15. History(T2, top)
  <2>1. \A s, t, u \in 1 .. L + 1 : s <= t /\ t <= u => Ids(T2[s]) \cap Ids(T2[u]) \subseteq Ids(T2[t])
    BY <1>12
  <2>2. QED
    BY <1>3, <1>11, <1>14, <2>1 DEF History
<1>16. ASSUME NEW i \in Valid(table), NEW s \in 1 .. L + 1, table[i].sequence \in Ids(T2[s])
       PROVE  Lasts(table, T2, i, s)
  <2>1. i \in Position /\ i \in Nat
    BY <1>4, Positions
  <2>2. CASE s \in 1 .. L
    <3>1. Lasts(old, T, i, s)
      BY <1>3, <1>10, <1>16, <2>2
    <3>2. ASSUME NEW j \in 0 .. i - 1 PROVE table[j].state = "live"
      <4>1. old[j].state = "live" /\ j \in Position
        BY <2>1, <3>1, SizeAssumption DEF Lasts, Position
      <4>2. QED
        BY <1>1, <4>1
    <3>3. i + 1 \in 1 .. N
      <4>1. ASSUME NEW j \in 0 .. i PROVE j \in Valid(table)
        <5>1. CASE j = i
          BY <5>1
        <5>2. CASE j # i
          <6>1. j \in 0 .. i - 1 /\ j \in Position
            BY <2>1, <5>2, SizeAssumption DEF Position
          <6>2. QED
            BY <3>2, <6>1 DEF Valid
        <5>3. QED
          BY <5>1, <5>2
      <4>2. QED
        BY <1>2, <2>1, <4>1
    <3>4. data[i + 1].sequence = table[i].sequence
      <4>1. PICK n \in 1 .. N : n = i + 1
        BY <3>3
      <4>2. n - 1 = i /\ data[n].sequence = table[n - 1].sequence
        BY <1>2, <2>1, <4>1
      <4>3. QED
        BY <4>1, <4>2
    <3>5. ASSUME NEW t \in s .. L + 1 PROVE table[i].sequence \in Ids(T2[t])
      <4>1. CASE t = L + 1
        <5>1. table[i].sequence \in Ids(data)
          BY <3>3, <3>4 DEF Ids, N
        <5>2. QED
          BY <1>3, <4>1, <5>1
      <4>2. CASE t # L + 1
        <5>1. t \in s .. L /\ t \in 1 .. L
          BY <1>3, <2>2, <4>2
        <5>2. old[i].sequence \in Ids(T[t])
          BY <3>1, <5>1 DEF Lasts, L
        <5>3. QED
          BY <1>3, <1>4, <5>1, <5>2
      <4>3. QED
        BY <4>1, <4>2
    <3>6. QED
      BY <1>3, <1>13, <2>2, <3>2, <3>5 DEF Lasts
  <2>3. CASE s = L + 1
    <3>1. PICK k \in Valid(table) : k + 1 \in 1 .. N /\ table[i].sequence = table[k].sequence
      BY <1>3, <1>9, <1>16, <2>3
    <3>2. k = i /\ i + 1 \in 1 .. N /\ i + 1 - 1 = i
      BY <1>6, <2>1, <3>1
    <3>3. 0 .. i \subseteq Valid(table)
      <4>1. PICK n \in 1 .. N : n = i + 1
        BY <3>2
      <4>2. n - 1 = i /\ 0 .. n - 1 \subseteq Valid(table)
        BY <1>2, <2>1, <4>1
      <4>3. QED
        BY <4>2, Zenon
    <3>4. ASSUME NEW j \in 0 .. i - 1 PROVE table[j].state = "live"
      <4>1. j \in 0 .. i
        BY <2>1
      <4>2. QED
        BY <1>4, <3>3, <4>1
    <3>5. ASSUME NEW t \in s .. L + 1 PROVE table[i].sequence \in Ids(T2[t])
      <4>1. t = s
        BY <1>3, <2>3
      <4>2. QED
        BY <1>16, <4>1
    <3>6. ASSUME NEW n \in 1 .. N, data[n].sequence = table[i].sequence
          PROVE  data[n].value <= table[i].value
      <4>1. n - 1 = i /\ data[n].value = table[n - 1].value
        BY <1>2, <1>6, <1>7, <3>6
      <4>2. table[i].value \in Int
        BY <1>5, Values
      <4>3. QED
        BY <4>1, <4>2
    <3>7. QED
      BY <1>3, <2>3, <3>4, <3>5, <3>6 DEF Lasts, N
  <2>4. QED
    BY <1>3, <2>2, <2>3
<1>17. Table(table, T2, top)
  BY <1>3, <1>5, <1>6, <1>16 DEF Table
<1>18. QED
  BY <1>15, <1>17 DEF table, T2

-----------------------------------------------------------------------------
(* What the game does to its table.                                        *)

LEMMA SpawnsEntity ==
  ASSUME NEW T \in Seq(Seq(Item)), NEW top \in Nat, History(T, top),
         NEW old \in [Position -> Entity], Table(old, T, top),
         NEW v \in Position \ Valid(old), NEW table,
         table = [old EXCEPT ![v] = [sequence |-> top + 1, state |-> "live", value |-> FirstValue]]
  PROVE  table \in [Position -> Entity] /\ History(T, top + 1) /\ Table(table, T, top + 1)
<1> DEFINE new == [sequence |-> top + 1, state |-> "live", value |-> FirstValue]
<1>1. new \in Entity /\ new.sequence = top + 1 /\ new.value \in Value /\ new.state = "live"
  BY Values DEF Entity, State, AnyValue
<1> HIDE DEF new
<1>2. /\ table \in [Position -> Entity] /\ table[v] = new
      /\ \A j \in Position \ {v} : table[j] = old[j]
  BY <1>1 DEF new
<1>3. \A s \in 1 .. Len(T) : Ids(T[s]) \subseteq 1 .. top
  BY DEF History
<1>4. History(T, top + 1)
  <2>1. 1 .. top \subseteq 1 .. top + 1
    OBVIOUS
  <2>2. \A s \in 1 .. Len(T) : Ids(T[s]) \subseteq 1 .. top + 1
    BY <1>3, <2>1
  <2>3. QED
    BY <2>2 DEF History
<1>5. ASSUME NEW i \in Valid(table) PROVE i = v \/ (i \in Valid(old) /\ i # v /\ table[i] = old[i])
  BY <1>2 DEF Valid
<1>6. ASSUME NEW i \in Valid(table)
      PROVE  table[i].sequence \in 1 .. top + 1 /\ table[i].value \in Value
  <2>1. CASE i = v
    BY <1>1, <1>2, <2>1
  <2>2. CASE i # v
    <3>1. i \in Valid(old) /\ table[i] = old[i]
      BY <1>5, <2>2
    <3>2. QED
      BY <3>1 DEF Table
  <2>3. QED
    BY <2>1, <2>2
<1>7. ASSUME NEW i \in Valid(old) PROVE old[i].sequence # top + 1
  <2>1. old[i].sequence \in 1 .. top
    BY DEF Table
  <2>2. QED
    BY <2>1
<1>8. ASSUME NEW i \in Valid(table), NEW j \in Valid(table), table[i].sequence = table[j].sequence
      PROVE  i = j
  <2>1. CASE i = v \/ j = v
    BY <1>1, <1>2, <1>5, <1>7, <1>8, <2>1
  <2>2. CASE i # v /\ j # v
    <3>1. i \in Valid(old) /\ j \in Valid(old) /\ old[i].sequence = old[j].sequence
      BY <1>5, <1>8, <2>2
    <3>2. QED
      BY <3>1 DEF Table
  <2>3. QED
    BY <2>1, <2>2
<1>9. ASSUME NEW i \in Valid(table), NEW s \in 1 .. Len(T), table[i].sequence \in Ids(T[s])
      PROVE  Lasts(table, T, i, s)
  <2>1. table[i].sequence \in 1 .. top
    BY <1>3, <1>9
  <2>2. i # v
    BY <1>1, <1>2, <2>1
  <2>3. i \in Valid(old) /\ table[i] = old[i]
    BY <1>5, <2>2
  <2>4. Lasts(old, T, i, s)
    BY <1>9, <2>3 DEF Table
  <2>5. ASSUME NEW j \in 0 .. i - 1 PROVE table[j].state = "live"
    <3>1. j \in Position /\ old[j].state = "live"
      <4>1. i \in Position
        BY <2>3 DEF Valid
      <4>2. j \in Position
        BY <4>1, SizeAssumption DEF Position
      <4>3. QED
        BY <2>4, <4>2 DEF Lasts
    <3>2. j # v
      BY <3>1 DEF Valid
    <3>3. QED
      BY <1>2, <3>1, <3>2
  <2>6. QED
    BY <2>3, <2>4, <2>5 DEF Lasts
<1>10. Table(table, T, top + 1)
  BY <1>6, <1>8, <1>9 DEF Table
<1>11. QED
  BY <1>2, <1>4, <1>10

LEMMA ChangesEntity ==
  ASSUME NEW T \in Seq(Seq(Item)), NEW top,
         NEW old \in [Position -> Entity], Table(old, T, top),
         NEW i \in Position, old[i].state = "live",
         NEW value \in Value, value > old[i].value,
         NEW table, table = [old EXCEPT ![i].value = value]
  PROVE  table \in [Position -> Entity] /\ Valid(table) = Valid(old) /\ Table(table, T, top)
<1>1. old[i] \in Entity /\ value \in AnyValue
  BY DEF AnyValue
<1> DEFINE new == [old[i] EXCEPT !.value = value]
<1>2. /\ new \in Entity /\ new.sequence = old[i].sequence /\ new.state = "live" /\ new.value = value
  BY <1>1 DEF Entity
<1>3. table = [old EXCEPT ![i] = new]
  OBVIOUS
<1> HIDE DEF new
<1>4. table \in [Position -> Entity] /\ table[i] = new /\ \A j \in Position \ {i} : table[j] = old[j]
  BY <1>2, <1>3
<1>5. \A j \in Position : table[j].sequence = old[j].sequence /\ table[j].state = old[j].state
  BY <1>2, <1>4
<1>6. Valid(table) = Valid(old) /\ Valid(old) \subseteq Position
  BY <1>5 DEF Valid
<1>7. \A j \in Valid(table) : table[j].sequence \in 1 .. top /\ table[j].value \in Value
  <2>1. \A j \in Valid(old) : old[j].sequence \in 1 .. top /\ old[j].value \in Value
    BY DEF Table
  <2>2. QED
    BY <1>2, <1>4, <1>5, <1>6, <2>1
<1>8. \A j, k \in Valid(table) : table[j].sequence = table[k].sequence => j = k
  <2>1. \A j, k \in Valid(old) : old[j].sequence = old[k].sequence => j = k
    BY DEF Table
  <2>2. QED
    BY <1>5, <1>6, <2>1
<1>9. ASSUME NEW j \in Valid(table), NEW s \in 1 .. Len(T), table[j].sequence \in Ids(T[s])
      PROVE  Lasts(table, T, j, s)
  <2>1. j \in Valid(old) /\ j \in Position /\ table[j].sequence = old[j].sequence
    BY <1>5, <1>6
  <2>2. Lasts(old, T, j, s)
    BY <1>9, <2>1 DEF Table
  <2>3. ASSUME NEW k \in 0 .. j - 1 PROVE table[k].state = "live"
    <3>1. k \in Position
      BY <2>1, SizeAssumption DEF Position
    <3>2. QED
      BY <1>5, <2>2, <3>1 DEF Lasts
  <2>4. ASSUME NEW n \in 1 .. Len(T[s]), T[s][n].sequence = table[j].sequence
        PROVE  T[s][n].value <= table[j].value
    <3>1. T[s][n].value <= old[j].value
      BY <2>1, <2>2, <2>4 DEF Lasts
    <3>2. CASE j # i
      BY <1>4, <2>1, <3>1, <3>2
    <3>3. CASE j = i
      <4>1. T[s][n] \in Item
        <5>1. T[s] \in Seq(Item)
          OBVIOUS
        <5>2. QED
          BY <5>1
      <4>2. T[s][n].value \in Value /\ old[i].value \in AnyValue
        BY <1>1, <4>1 DEF Item, Entity
      <4>3. T[s][n].value \in Int
        BY <4>2, Values
      <4>4. old[i].value \in Int
        BY <4>2, Values
      <4>5. value \in Int
        BY Values
      <4>6. table[j].value = value
        BY <1>2, <1>4, <3>3
      <4>7. QED
        BY <3>1, <3>3, <4>3, <4>4, <4>5, <4>6
    <3>4. QED
      BY <3>2, <3>3
  <2>5. QED
    BY <2>1, <2>2, <2>3, <2>4 DEF Lasts
<1>10. Table(table, T, top)
  BY <1>7, <1>8, <1>9 DEF Table
<1>11. QED
  BY <1>4, <1>6, <1>10

LEMMA RemovesEntity ==
  ASSUME NEW T \in Seq(Seq(Item)), NEW top,
         NEW old \in [Position -> Entity], Table(old, T, top),
         NEW i \in Position, old[i].state = "live", \A j \in Valid(old) : j <= i,
         NEW table, table = [old EXCEPT ![i].state = "removed"]
  PROVE  table \in [Position -> Entity] /\ Valid(table) = Valid(old) /\ Table(table, T, top)
<1>1. old[i] \in Entity
  OBVIOUS
<1> DEFINE new == [old[i] EXCEPT !.state = "removed"]
<1>2. /\ new \in Entity /\ new.sequence = old[i].sequence /\ new.state = "removed"
      /\ new.value = old[i].value
  BY <1>1 DEF Entity, State
<1>3. table = [old EXCEPT ![i] = new]
  OBVIOUS
<1> HIDE DEF new
<1>4. table \in [Position -> Entity] /\ table[i] = new /\ \A j \in Position \ {i} : table[j] = old[j]
  BY <1>2, <1>3
<1>5. \A j \in Position : table[j].sequence = old[j].sequence /\ table[j].value = old[j].value
  BY <1>2, <1>4
<1>6. Valid(table) = Valid(old) /\ Valid(old) \subseteq Position
  BY <1>2, <1>4 DEF Valid
<1>7. \A j \in Valid(table) : table[j].sequence \in 1 .. top /\ table[j].value \in Value
  <2>1. \A j \in Valid(old) : old[j].sequence \in 1 .. top /\ old[j].value \in Value
    BY DEF Table
  <2>2. QED
    BY <1>5, <1>6, <2>1
<1>8. \A j, k \in Valid(table) : table[j].sequence = table[k].sequence => j = k
  <2>1. \A j, k \in Valid(old) : old[j].sequence = old[k].sequence => j = k
    BY DEF Table
  <2>2. QED
    BY <1>5, <1>6, <2>1
<1>9. ASSUME NEW j \in Valid(table), NEW s \in 1 .. Len(T), table[j].sequence \in Ids(T[s])
      PROVE  Lasts(table, T, j, s)
  <2>1. /\ j \in Valid(old) /\ j \in Position /\ table[j].sequence = old[j].sequence
        /\ table[j].value = old[j].value /\ j <= i
    BY <1>5, <1>6
  <2>2. Lasts(old, T, j, s)
    BY <1>9, <2>1 DEF Table
  <2>3. ASSUME NEW k \in 0 .. j - 1 PROVE table[k].state = "live"
    <3>1. k \in Position /\ k # i
      BY <2>1, SizeAssumption DEF Position
    <3>2. QED
      BY <1>4, <2>2, <3>1 DEF Lasts
  <2>4. QED
    BY <2>1, <2>2, <2>3 DEF Lasts
<1>10. Table(table, T, top)
  BY <1>7, <1>8, <1>9 DEF Table
<1>11. QED
  BY <1>4, <1>6, <1>10

-----------------------------------------------------------------------------
(* The invariant is inductive.                                             *)

LEMMA Peers == \A h \in Host : Peer[h] \in Host
BY HostAssumption

LEMMA NoGhostIs == NoGhost \in Ghost /\ NoGhost.state = "gone" /\ NoGhost.remote_sequence = 0
<1>1. Unset \in AnyValue
  BY DEF AnyValue
<1>2. QED
  BY <1>1 DEF NoGhost, Ghost, State

LEMMA NothingShown ==
  LET none == [i \in Position |-> NoGhost]
  IN  \A K : Sound(none, K)
<1> DEFINE none == [i \in Position |-> NoGhost]
<1>1. none \in [Position -> Ghost] /\ \A i \in Position : none[i] = NoGhost
  BY NoGhostIs
<1> HIDE DEF none
<1>2. Told(none) = {}
  BY <1>1, NoGhostIs DEF Told
<1>3. \A i \in Position : ~(none[i].remote_sequence > 0)
  <2>1. ~(0 > 0)
    OBVIOUS
  <2>2. QED
    BY <1>1, <2>1, NoGhostIs
<1>4. \A K : Sound(none, K)
  BY <1>1, <1>2, <1>3 DEF Sound, Apart
<1>5. QED
  BY <1>4 DEF none

LEMMA InitInv == Init => IInv
<1> SUFFICES ASSUME Init PROVE IInv
  OBVIOUS
<1>1. /\ phase = [h \in Host |-> "game"] /\ sequence = [h \in Host |-> 0]
      /\ entities = [h \in Host |-> [i \in Position |-> NoEntity]]
      /\ spawned = [h \in Host |-> 0]
      /\ snapshots = [h \in Host |-> [i \in Slot |-> [sequence |-> 0, data |-> <<>>]]]
      /\ incoming_sequence = [h \in Host |-> -1] /\ ack_sequence = [h \in Host |-> -1]
      /\ ghosts = [h \in Host |-> [i \in Position |-> NoGhost]]
      /\ orphans = [h \in Host |-> {}] /\ packets = {} /\ taken = [h \in Host |-> <<>>]
  BY DEF Init, Slot
<1>2. NoEntity \in Entity /\ NoEntity.state = "gone"
  <2>1. Unset \in AnyValue
    BY DEF AnyValue
  <2>2. QED
    BY <2>1 DEF NoEntity, Entity, State
<1>3. TypeInv
  <2>1. /\ phase \in [Host -> {"game", "recv"}] /\ sequence \in [Host -> Nat]
        /\ incoming_sequence \in [Host -> Number] /\ ack_sequence \in [Host -> Number]
        /\ orphans = [h \in Host |-> {}] /\ packets \subseteq Packet
    BY <1>1 DEF Number
  <2>2. entities \in [Host -> [Position -> Entity]]
    BY <1>1, <1>2
  <2>3. spawned \in [Host -> 0 .. MaxSpawns]
    BY <1>1, BoundAssumption
  <2>4. snapshots \in [Host -> [Slot -> [sequence : Nat, data : Seq(Item)]]]
    BY <1>1
  <2>5. ghosts \in [Host -> [Position -> Ghost]]
    BY <1>1, NoGhostIs
  <2>6. taken \in [Host -> Seq(Seq(Item))]
    BY <1>1
  <2>7. QED
    BY <2>1, <2>2, <2>3, <2>4, <2>5, <2>6 DEF TypeInv
<1>4. \A h \in Host : Len(taken[h]) = 0 /\ 1 .. Len(taken[h]) = {}
  BY <1>1
<1>5. \A h \in Host : Valid(entities[h]) = {}
  BY <1>1, <1>2 DEF Valid
<1>6. TakenInv
  BY <1>1, <1>4 DEF TakenInv
<1>7. IdleInv
  BY <1>5 DEF IdleInv
<1>8. HistoryInv
  BY <1>4 DEF HistoryInv, History
<1>9. TableInv
  BY <1>5 DEF TableInv, Table
<1>10. RingInv
  BY <1>1, <1>4 DEF RingInv
<1>11. AckInv
  BY <1>1, <1>4, Peers DEF AckInv
<1>12. BodyInv /\ EmptyInv
  BY <1>1 DEF BodyInv, EmptyInv
<1>13. GhostInv
  <2>1. ASSUME NEW h \in Host PROVE Replica(ghosts[h], taken[Peer[h]], incoming_sequence[h])
    <3>1. ghosts[h] = [i \in Position |-> NoGhost] /\ ~(incoming_sequence[h] >= 0)
      BY <1>1
    <3>2. QED
      BY <3>1, NothingShown DEF Replica
  <2>2. QED
    BY <1>1, <2>1 DEF GhostInv
<1>14. QED
  BY <1>3, <1>6, <1>7, <1>8, <1>9, <1>10, <1>11, <1>12, <1>13 DEF IInv

(* What the game does changes neither what was sent nor what was received. *)
LEMMA GameKeeps ==
  ASSUME IInv, UNCHANGED <<phase, sequence, snapshots, connection, packets, taken>>
  PROVE  TakenInv' /\ RingInv' /\ AckInv' /\ BodyInv' /\ EmptyInv' /\ GhostInv'
<1>1. /\ phase' = phase /\ sequence' = sequence /\ snapshots' = snapshots /\ packets' = packets
      /\ taken' = taken /\ incoming_sequence' = incoming_sequence /\ ack_sequence' = ack_sequence
      /\ ghosts' = ghosts
  BY DEF connection
<1>2. TakenInv'
  BY <1>1 DEF IInv, TakenInv
<1>3. RingInv'
  BY <1>1 DEF IInv, RingInv
<1>4. AckInv'
  BY <1>1 DEF IInv, AckInv
<1>5. BodyInv' /\ EmptyInv'
  BY <1>1 DEF IInv, BodyInv, EmptyInv
<1>6. GhostInv'
  BY <1>1 DEF IInv, GhostInv
<1>7. QED
  BY <1>2, <1>3, <1>4, <1>5, <1>6

(* One host's table changes. *)
LEMMA TableChanges ==
  ASSUME IInv, NEW h \in Host, NEW table \in [Position -> Entity], NEW top \in 0 .. MaxSpawns,
         UNCHANGED <<phase, sequence, snapshots, connection, packets, taken>>,
         entities' = [entities EXCEPT ![h] = table], spawned' = [spawned EXCEPT ![h] = top],
         History(taken[h], top), Table(table, taken[h], top),
         h \notin Author => Valid(table) = {}
  PROVE  IInv'
<1>1. /\ phase' = phase /\ sequence' = sequence /\ snapshots' = snapshots /\ packets' = packets
      /\ taken' = taken /\ incoming_sequence' = incoming_sequence /\ ack_sequence' = ack_sequence
      /\ ghosts' = ghosts /\ orphans' = orphans
  BY DEF connection
<1>2. TypeInv
  BY DEF IInv
<1>3. /\ entities' \in [Host -> [Position -> Entity]] /\ spawned' \in [Host -> 0 .. MaxSpawns]
      /\ entities'[h] = table /\ spawned'[h] = top
      /\ \A k \in Host \ {h} : entities'[k] = entities[k] /\ spawned'[k] = spawned[k]
  BY <1>2 DEF TypeInv
<1>4. TypeInv'
  BY <1>1, <1>2, <1>3 DEF TypeInv
<1>5. IdleInv'
  BY <1>3 DEF IInv, IdleInv
<1>6. HistoryInv'
  <2>1. ASSUME NEW k \in Host PROVE History(taken'[k], spawned'[k])
    <3>1. CASE k = h
      BY <1>1, <1>3, <3>1
    <3>2. CASE k # h
      BY <1>1, <1>3, <3>2 DEF IInv, HistoryInv
    <3>3. QED
      BY <3>1, <3>2
  <2>2. \A k \in Host : k \notin Author => \A s \in 1 .. Len(taken'[k]) : taken'[k][s] = <<>>
    BY <1>1 DEF IInv, HistoryInv
  <2>3. QED
    BY <2>1, <2>2 DEF HistoryInv
<1>7. TableInv'
  <2>1. ASSUME NEW k \in Host PROVE Table(entities'[k], taken'[k], spawned'[k])
    <3>1. CASE k = h
      BY <1>1, <1>3, <3>1
    <3>2. CASE k # h
      BY <1>1, <1>3, <3>2 DEF IInv, TableInv
    <3>3. QED
      BY <3>1, <3>2
  <2>2. QED
    BY <2>1 DEF TableInv
<1>8. TakenInv' /\ RingInv' /\ AckInv' /\ BodyInv' /\ EmptyInv' /\ GhostInv'
  BY GameKeeps
<1>9. QED
  BY <1>4, <1>5, <1>6, <1>7, <1>8 DEF IInv

LEMMA HostTypes ==
  ASSUME TypeInv, NEW h \in Host
  PROVE  /\ phase[h] \in {"game", "recv"} /\ sequence[h] \in Nat
         /\ entities[h] \in [Position -> Entity] /\ spawned[h] \in 0 .. MaxSpawns
         /\ snapshots[h] \in [Slot -> [sequence : Nat, data : Seq(Item)]]
         /\ incoming_sequence[h] \in Number /\ ack_sequence[h] \in Number
         /\ ghosts[h] \in [Position -> Ghost] /\ orphans[h] = {}
         /\ taken[h] \in Seq(Seq(Item))
BY DEF TypeInv

LEMMA SpawnKeeps == ASSUME IInv, NEW h \in Host, Spawn(h) PROVE IInv'
<1> DEFINE vacant == Position \ Valid(entities[h])
           v == FirstOf(vacant)
           top == spawned[h] + 1
           table == [entities[h] EXCEPT ![v] = [sequence |-> top, state |-> "live",
                                                value |-> FirstValue]]
<1>1. /\ h \in Author /\ spawned[h] < MaxSpawns /\ vacant # {}
      /\ spawned' = [spawned EXCEPT ![h] = top]
      /\ UNCHANGED <<phase, sequence, snapshots, connection, packets, taken>>
  BY DEF Spawn
<1>2. TypeInv /\ taken[h] \in Seq(Seq(Item)) /\ entities[h] \in [Position -> Entity]
      /\ spawned[h] \in 0 .. MaxSpawns
  BY HostTypes DEF IInv
<1>3. spawned'[h] = top /\ top \in 0 .. MaxSpawns /\ spawned[h] \in Nat
  <2>1. spawned'[h] = top
    BY <1>1, <1>2 DEF TypeInv
  <2>2. QED
    BY <1>1, <1>2, <2>1, BoundAssumption
<1>4. entities' = [entities EXCEPT ![h] = table]
  <2>1. entities' = [entities EXCEPT ![h][v] =
                       [sequence |-> spawned'[h], state |-> "live", value |-> FirstValue]]
    BY Zenon DEF Spawn
  <2>2. entities' = [entities EXCEPT ![h][v] =
                       [sequence |-> top, state |-> "live", value |-> FirstValue]]
    BY <1>3, <2>1, Zenon
  <2> HIDE DEF v, top
  <2>3. QED
    BY <2>2
<1>5. v \in Position \ Valid(entities[h])
  <2>1. vacant \subseteq Position
    OBVIOUS
  <2> HIDE DEF vacant
  <2>2. v \in vacant
    BY <1>1, <2>1, FirstIs
  <2>3. QED
    BY <2>2 DEF vacant
<1>6. History(taken[h], spawned[h]) /\ Table(entities[h], taken[h], spawned[h])
  BY DEF IInv, HistoryInv, TableInv
<1> HIDE DEF v
<1>7. /\ table \in [Position -> Entity] /\ History(taken[h], top) /\ Table(table, taken[h], top)
  BY <1>2, <1>3, <1>5, <1>6, SpawnsEntity
<1> HIDE DEF table, top
<1>8. QED
  BY <1>1, <1>3, <1>4, <1>7, TableChanges

LEMMA ChangeKeeps ==
  ASSUME IInv, ValuesGrow, NEW h \in Host, NEW i \in Position, NEW value \in Value,
         Change(h, i, value)
  PROVE  IInv'
<1> DEFINE table == [entities[h] EXCEPT ![i].value = value]
<1>1. /\ entities[h][i].state = "live" /\ value \in NextValues[entities[h][i].value]
      /\ entities' = [entities EXCEPT ![h][i].value = value] /\ spawned' = spawned
      /\ UNCHANGED <<phase, sequence, snapshots, connection, packets, taken>>
  BY DEF Change
<1>2. TypeInv /\ taken[h] \in Seq(Seq(Item)) /\ entities[h] \in [Position -> Entity]
      /\ spawned[h] \in 0 .. MaxSpawns
  BY HostTypes DEF IInv
<1>3. History(taken[h], spawned[h]) /\ Table(entities[h], taken[h], spawned[h])
  BY DEF IInv, HistoryInv, TableInv
<1>4. i \in Valid(entities[h]) /\ entities[h][i].value \in Value
  <2>1. i \in Valid(entities[h])
    BY <1>1 DEF Valid
  <2>2. QED
    BY <1>3, <2>1 DEF Table
<1>5. value > entities[h][i].value
  BY <1>1, <1>4 DEF ValuesGrow
<1>6. table \in [Position -> Entity] /\ Valid(table) = Valid(entities[h])
      /\ Table(table, taken[h], spawned[h])
  BY <1>1, <1>2, <1>3, <1>5, ChangesEntity
<1>7. entities' = [entities EXCEPT ![h] = table] /\ spawned' = [spawned EXCEPT ![h] = spawned[h]]
  BY <1>1, <1>2 DEF TypeInv
<1>8. h \notin Author => Valid(table) = {}
  BY <1>6 DEF IInv, IdleInv
<1> HIDE DEF table
<1>9. QED
  BY <1>1, <1>2, <1>3, <1>6, <1>7, <1>8, TableChanges

LEMMA RemoveKeeps ==
  ASSUME IInv, LastRemoved, NEW h \in Host, NEW i \in Position, Remove(h, i)
  PROVE  IInv'
<1> DEFINE table == [entities[h] EXCEPT ![i].state = "removed"]
<1>1. /\ entities[h][i].state = "live" /\ \A j \in Valid(entities[h]) : j <= i
      /\ entities' = [entities EXCEPT ![h][i].state = "removed"] /\ spawned' = spawned
      /\ UNCHANGED <<phase, sequence, snapshots, connection, packets, taken>>
  BY DEF Remove, LastRemoved
<1>2. TypeInv /\ taken[h] \in Seq(Seq(Item)) /\ entities[h] \in [Position -> Entity]
      /\ spawned[h] \in 0 .. MaxSpawns
  BY HostTypes DEF IInv
<1>3. History(taken[h], spawned[h]) /\ Table(entities[h], taken[h], spawned[h])
  BY DEF IInv, HistoryInv, TableInv
<1>4. table \in [Position -> Entity] /\ Valid(table) = Valid(entities[h])
      /\ Table(table, taken[h], spawned[h])
  BY <1>1, <1>2, <1>3, RemovesEntity
<1>5. entities' = [entities EXCEPT ![h] = table] /\ spawned' = [spawned EXCEPT ![h] = spawned[h]]
  BY <1>1, <1>2 DEF TypeInv
<1>6. h \notin Author => Valid(table) = {}
  BY <1>4 DEF IInv, IdleInv
<1> HIDE DEF table
<1>7. QED
  BY <1>1, <1>2, <1>3, <1>4, <1>5, <1>6, TableChanges

LEMMA ReturnKeeps == ASSUME IInv, NEW h \in Host, Return(h) PROVE IInv'
<1>1. /\ phase[h] = "recv" /\ sequence' = [sequence EXCEPT ![h] = @ + 1]
      /\ phase' = [phase EXCEPT ![h] = "game"]
      /\ entities' = entities /\ spawned' = spawned /\ snapshots' = snapshots
      /\ incoming_sequence' = incoming_sequence /\ ack_sequence' = ack_sequence
      /\ ghosts' = ghosts /\ orphans' = orphans /\ packets' = packets /\ taken' = taken
  BY DEF Return, authored, connection
<1>2. TypeInv /\ TakenInv
  BY DEF IInv
<1>3. TypeInv'
  <2>1. phase' \in [Host -> {"game", "recv"}] /\ sequence' \in [Host -> Nat]
    BY <1>1, <1>2 DEF TypeInv
  <2>2. QED
    BY <1>1, <1>2, <2>1 DEF TypeInv
<1>4. TakenInv'
  <2>1. ASSUME NEW k \in Host
        PROVE  Len(taken[k]) = sequence'[k] + (IF phase'[k] = "recv" THEN 1 ELSE 0)
    <3>1. Len(taken[k]) = sequence[k] + (IF phase[k] = "recv" THEN 1 ELSE 0) /\ sequence[k] \in Nat
      BY <1>2, HostTypes DEF TakenInv
    <3>2. CASE k = h
      <4>1. sequence'[k] = sequence[k] + 1 /\ phase'[k] = "game" /\ phase[k] = "recv"
        BY <1>1, <1>2, <3>2 DEF TypeInv
      <4>2. QED
        BY <3>1, <4>1
    <3>3. CASE k # h
      <4>1. sequence'[k] = sequence[k] /\ phase'[k] = phase[k]
        BY <1>1, <1>2, <3>3 DEF TypeInv
      <4>2. QED
        BY <3>1, <4>1
    <3>4. QED
      BY <3>2, <3>3
  <2>2. QED
    BY <1>1, <2>1 DEF TakenInv
<1>5. IdleInv' /\ HistoryInv' /\ TableInv' /\ RingInv'
  BY <1>1 DEF IInv, IdleInv, HistoryInv, TableInv, RingInv
<1>6. AckInv' /\ BodyInv' /\ EmptyInv' /\ GhostInv'
  BY <1>1 DEF IInv, AckInv, BodyInv, EmptyInv, GhostInv
<1>7. QED
  BY <1>3, <1>4, <1>5, <1>6 DEF IInv

(* A host whose peer registers no entities has no ghosts.                  *)
LEMMA NothingTold ==
  ASSUME IInv, NEW h \in Host, Peer[h] \notin Author
  PROVE  Told(ghosts[h]) = {}
<1>1. \A s \in 1 .. Len(taken[Peer[h]]) : taken[Peer[h]][s] = <<>>
  BY Peers DEF IInv, HistoryInv
<1>2. Ids(<<>>) = {}
  <2>1. 1 .. Len(<<>>) = {}
    OBVIOUS
  <2>2. QED
    BY <2>1 DEF Ids
<1>3. Heard(taken[Peer[h]], incoming_sequence[h]) = {}
  BY <1>1, <1>2 DEF Heard
<1>4. Sound(ghosts[h], {})
  BY <1>3 DEF IInv, GhostInv, Replica
<1>5. \A i \in Told(ghosts[h]) : i \in Position
  BY DEF Told
<1>6. QED
  BY <1>4, <1>5 DEF Sound

LEMMA ForgetKeeps ==
  ASSUME IInv, KeepsAuthors, NEW h \in Host, Forget(h)
  PROVE  IInv' /\ orphans' = orphans
<1>1. /\ h \in Forgetful
      /\ incoming_sequence' = [incoming_sequence EXCEPT ![h] = -1]
      /\ ack_sequence' = [ack_sequence EXCEPT ![h] = -1]
      /\ ghosts' = [ghosts EXCEPT ![h] = [i \in Position |-> NoGhost]]
      /\ orphans' = [orphans EXCEPT ![h] =
                       @ \cup {ghosts[h][i].remote_sequence : i \in Live(ghosts[h])}]
      /\ phase' = phase /\ sequence' = sequence /\ entities' = entities /\ spawned' = spawned
      /\ snapshots' = snapshots /\ packets' = packets /\ taken' = taken
  BY DEF Forget, authored
<1>2. TypeInv /\ AckInv /\ BodyInv /\ GhostInv
  BY DEF IInv
<1>3. Live(ghosts[h]) = {}
  <2>1. Told(ghosts[h]) = {}
    BY <1>1, NothingTold DEF KeepsAuthors
  <2>2. QED
    BY <2>1 DEF Told, Live
<1>4. orphans' = orphans
  <2>1. orphans[h] \cup {ghosts[h][i].remote_sequence : i \in Live(ghosts[h])} = orphans[h]
    BY <1>3
  <2>2. orphans' = [orphans EXCEPT ![h] = orphans[h]]
    BY <1>1, <2>1
  <2>3. QED
    BY <1>2, <2>2 DEF TypeInv
<1>5. /\ incoming_sequence'[h] = -1 /\ ack_sequence'[h] = -1
      /\ ghosts'[h] = [i \in Position |-> NoGhost]
      /\ \A k \in Host \ {h} : /\ incoming_sequence'[k] = incoming_sequence[k]
                               /\ ack_sequence'[k] = ack_sequence[k] /\ ghosts'[k] = ghosts[k]
  BY <1>1, <1>2 DEF TypeInv
<1>6. TypeInv'
  <2>1. incoming_sequence' \in [Host -> Number] /\ ack_sequence' \in [Host -> Number]
    BY <1>1, <1>2 DEF TypeInv, Number
  <2>2. ghosts' \in [Host -> [Position -> Ghost]]
    BY <1>1, <1>2, NoGhostIs DEF TypeInv
  <2>3. QED
    BY <1>1, <1>2, <1>4, <2>1, <2>2 DEF TypeInv
<1>7. TakenInv' /\ IdleInv' /\ HistoryInv' /\ TableInv' /\ RingInv' /\ EmptyInv'
  BY <1>1 DEF IInv, TakenInv, IdleInv, HistoryInv, TableInv, RingInv, EmptyInv
<1>8. AckInv'
  <2>1. ASSUME NEW k \in Host PROVE incoming_sequence'[k] < Len(taken[Peer[k]])
    <3>1. Len(taken[Peer[k]]) \in Nat
      BY <1>2, Peers, HostTypes
    <3>2. QED
      BY <1>2, <1>5, <3>1 DEF AckInv
  <2>2. ASSUME NEW k \in Host \ Forgetful PROVE ack_sequence'[Peer[k]] <= incoming_sequence'[k]
    <3>1. k # h /\ incoming_sequence'[k] = incoming_sequence[k] /\ incoming_sequence[k] >= -1
      BY <1>1, <1>2, <1>5, HostTypes DEF Number
    <3>2. CASE Peer[k] = h
      BY <1>5, <3>1, <3>2
    <3>3. CASE Peer[k] # h
      BY <1>2, <1>5, <3>1, <3>3, Peers DEF AckInv
    <3>4. QED
      BY <3>2, <3>3
  <2>3. ASSUME NEW p \in packets
        PROVE  /\ p.sequence < Len(taken[Peer[p.to]])
               /\ Peer[p.to] \notin Forgetful => p.ack_sequence <= incoming_sequence'[Peer[p.to]]
    <3>1. p.to \in Host /\ Peer[p.to] \in Host
      BY <1>2, Peers DEF TypeInv, Packet
    <3>2. QED
      BY <1>1, <1>2, <1>5, <3>1 DEF AckInv
  <2>4. QED
    BY <1>1, <2>1, <2>2, <2>3 DEF AckInv
<1>9. BodyInv'
  <2>1. \A p \in packets : p.to \in Host
    BY <1>2 DEF TypeInv, Packet
  <2>2. \A p \in packets : p.to \notin Forgetful => incoming_sequence'[p.to] = incoming_sequence[p.to]
    BY <1>1, <1>5, <2>1
  <2>3. QED
    BY <1>1, <1>2, <2>2 DEF BodyInv
<1>10. GhostInv'
  <2>1. ASSUME NEW k \in Host PROVE Replica(ghosts'[k], taken[Peer[k]], incoming_sequence'[k])
    <3>1. CASE k = h
      <4>1. ~(incoming_sequence'[k] >= 0)
        BY <1>5, <3>1
      <4>2. QED
        BY <1>5, <3>1, <4>1, NothingShown DEF Replica
    <3>2. CASE k # h
      BY <1>2, <1>5, <3>2 DEF GhostInv
    <3>3. QED
      BY <3>1, <3>2
  <2>2. QED
    BY <1>1, <2>1 DEF GhostInv
<1>11. QED
  BY <1>4, <1>6, <1>7, <1>8, <1>9, <1>10 DEF IInv

LEMMA TellsLater ==
  ASSUME NEW body, NEW data, NEW T, NEW last \in Int, NEW next \in Int, last <= next,
         Tells(body, data, T, last)
  PROVE  Tells(body, data, T, next)
<1>1. \A s \in 1 .. Len(T) : s <= last + 1 => s <= next + 1
  OBVIOUS
<1>2. \A item : Had(T, last, item) => Had(T, next, item)
  BY <1>1 DEF Had
<1>3. QED
  BY <1>2 DEF Tells

LEMMA ReceiveKeeps ==
  ASSUME IInv, Orderly, NEW h \in Host, NEW p \in packets, Receive(h, p)
  PROVE  /\ IInv' /\ orphans' = orphans
         /\ Forward(ghosts[h], ghosts'[h])
         /\ (\A i \in Live(ghosts[h]) : ghosts[h][i].last_recved_sequence # sequence[h]) =>
              \A i \in Live(ghosts'[h]) :
                ghosts'[h][i].remote_sequence \in Ids(taken[Peer[h]][p.sequence + 1])
<1> DEFINE T == taken[Peer[h]]
           read == Read([ghosts |-> ghosts[h], orphans |-> orphans[h]], p.body, sequence[h])
<1>1. /\ p.to = h /\ p.sequence > incoming_sequence[h]
      /\ incoming_sequence' = [incoming_sequence EXCEPT ![h] = p.sequence]
      /\ ack_sequence' = [ack_sequence EXCEPT ![h] = p.ack_sequence]
      /\ ghosts' = [ghosts EXCEPT ![h] = read.ghosts]
      /\ orphans' = [orphans EXCEPT ![h] = read.orphans]
      /\ phase' = phase /\ sequence' = sequence /\ entities' = entities /\ spawned' = spawned
      /\ snapshots' = snapshots /\ packets' = packets /\ taken' = taken
  <2>1. /\ ghosts' = [ghosts EXCEPT ![h] = read.ghosts]
        /\ orphans' = [orphans EXCEPT ![h] = read.orphans]
    BY Zenon DEF Receive
  <2>2. QED
    BY <2>1 DEF Receive, IsNew, authored
<1> HIDE DEF read
<1>2. TypeInv /\ AckInv /\ BodyInv /\ EmptyInv /\ GhostInv /\ HistoryInv
  BY DEF IInv
<1>3. /\ Peer[h] \in Host /\ T \in Seq(Seq(Item)) /\ spawned[Peer[h]] \in 0 .. MaxSpawns
      /\ incoming_sequence[h] \in Number /\ sequence[h] \in Nat /\ orphans[h] = {}
      /\ ghosts[h] \in [Position -> Ghost]
  BY <1>2, Peers, HostTypes
<1>4. p.sequence \in Nat /\ p.body \in Seq(Part) /\ p.ack_sequence \in Number
  BY <1>2 DEF TypeInv, Packet
<1>5. p.sequence < Len(T)
  BY <1>1, <1>2 DEF AckInv
<1>6. Tells(p.body, T[p.sequence + 1], T, incoming_sequence[h])
  <2>1. CASE h \notin Forgetful
    BY <1>1, <1>2, <2>1 DEF BodyInv
  <2>2. CASE h \in Forgetful
    <3>1. Peer[h] \notin Author
      BY <2>2 DEF Orderly, KeepsAuthors
    <3>2. p.body = <<>>
      BY <1>1, <1>2, <3>1 DEF EmptyInv
    <3>3. p.sequence + 1 \in 1 .. Len(T)
      BY <1>3, <1>4, <1>5
    <3>4. T[p.sequence + 1] = <<>>
      BY <1>2, <1>3, <3>1, <3>3 DEF HistoryInv
    <3>5. 1 .. Len(<<>>) = {}
      OBVIOUS
    <3>6. QED
      BY <3>2, <3>4, <3>5 DEF Tells
  <2>3. QED
    BY <2>1, <2>2
<1>7. History(T, spawned[Peer[h]]) /\ Replica(ghosts[h], T, incoming_sequence[h])
  BY <1>2, <1>3 DEF HistoryInv, GhostInv
<1>8. RoomForAll
  BY DEF Orderly
<1>9. PICK after : /\ ReadsTo(ghosts[h], p.body, sequence[h], after)
                   /\ after \in [Position -> Ghost]
                   /\ Replica(after, T, p.sequence)
                   /\ Forward(ghosts[h], after)
                   /\ (\A i \in Live(ghosts[h]) : ghosts[h][i].last_recved_sequence # sequence[h]) =>
                        \A i \in Live(after) : after[i].remote_sequence \in Ids(T[p.sequence + 1])
  <2>1. incoming_sequence[h] < p.sequence
    BY <1>1, <1>3, <1>4 DEF Number
  <2> HIDE DEF T
  <2>2. QED
    BY <1>3, <1>4, <1>5, <1>6, <1>7, <1>8, <2>1, ReadReplicates
<1>10. read = [ghosts |-> after, orphans |-> {}]
  BY <1>3, <1>9 DEF ReadsTo, read
<1>11. read.ghosts = after /\ read.orphans = {}
  BY <1>10
<1>12. ghosts' = [ghosts EXCEPT ![h] = after] /\ orphans' = [orphans EXCEPT ![h] = orphans[h]]
  BY <1>1, <1>3, <1>11
<1>13. /\ orphans' = orphans /\ ghosts'[h] = after /\ incoming_sequence'[h] = p.sequence
       /\ ack_sequence'[h] = p.ack_sequence
       /\ \A k \in Host \ {h} : /\ incoming_sequence'[k] = incoming_sequence[k]
                                /\ ack_sequence'[k] = ack_sequence[k] /\ ghosts'[k] = ghosts[k]
  BY <1>1, <1>2, <1>12 DEF TypeInv
<1>14. \A k \in Host : /\ incoming_sequence[k] <= incoming_sequence'[k]
                       /\ incoming_sequence[k] \in Int /\ incoming_sequence'[k] \in Int
  <2>1. ASSUME NEW k \in Host
        PROVE  /\ incoming_sequence[k] <= incoming_sequence'[k]
               /\ incoming_sequence[k] \in Int /\ incoming_sequence'[k] \in Int
    <3>1. incoming_sequence[k] \in Int
      BY <1>2, HostTypes DEF Number
    <3>2. QED
      BY <1>1, <1>4, <1>13, <3>1
  <2>2. QED
    BY <2>1
<1>15. TypeInv'
  <2>1. incoming_sequence' \in [Host -> Number] /\ ack_sequence' \in [Host -> Number]
    BY <1>1, <1>2, <1>4 DEF TypeInv, Number
  <2>2. ghosts' \in [Host -> [Position -> Ghost]]
    BY <1>2, <1>9, <1>12 DEF TypeInv
  <2>3. QED
    BY <1>1, <1>2, <1>13, <2>1, <2>2 DEF TypeInv
<1>16. TakenInv' /\ IdleInv' /\ HistoryInv' /\ TableInv' /\ RingInv' /\ EmptyInv'
  BY <1>1 DEF IInv, TakenInv, IdleInv, HistoryInv, TableInv, RingInv, EmptyInv
<1>17. AckInv'
  <2>1. ASSUME NEW k \in Host PROVE incoming_sequence'[k] < Len(taken[Peer[k]])
    BY <1>2, <1>5, <1>13 DEF AckInv
  <2>2. ASSUME NEW k \in Host \ Forgetful PROVE ack_sequence'[Peer[k]] <= incoming_sequence'[k]
    <3>1. CASE Peer[k] = h
      <4>1. Peer[p.to] = k
        BY <1>1, <3>1 DEF Orderly, Mutual
      <4>2. p.ack_sequence <= incoming_sequence[k]
        BY <1>2, <4>1 DEF AckInv
      <4>3. p.ack_sequence \in Int
        BY <1>4 DEF Number
      <4>4. QED
        BY <1>13, <1>14, <3>1, <4>2, <4>3
    <3>2. CASE Peer[k] # h
      <4>1. Peer[k] \in Host /\ ack_sequence'[Peer[k]] = ack_sequence[Peer[k]]
        BY <1>13, <3>2, Peers
      <4>2. ack_sequence[Peer[k]] \in Int
        BY <1>2, <4>1, HostTypes DEF Number
      <4>3. ack_sequence[Peer[k]] <= incoming_sequence[k]
        BY <1>2 DEF AckInv
      <4>4. QED
        BY <1>14, <4>1, <4>2, <4>3
    <3>3. QED
      BY <3>1, <3>2
  <2>3. ASSUME NEW q \in packets
        PROVE  /\ q.sequence < Len(taken[Peer[q.to]])
               /\ Peer[q.to] \notin Forgetful => q.ack_sequence <= incoming_sequence'[Peer[q.to]]
    <3>1. q.to \in Host /\ Peer[q.to] \in Host /\ q.ack_sequence \in Int
      BY <1>2, Peers DEF TypeInv, Packet, Number
    <3>2. /\ q.sequence < Len(taken[Peer[q.to]])
          /\ Peer[q.to] \notin Forgetful => q.ack_sequence <= incoming_sequence[Peer[q.to]]
      BY <1>2 DEF AckInv
    <3>3. QED
      BY <1>14, <3>1, <3>2
  <2>4. QED
    BY <1>1, <2>1, <2>2, <2>3 DEF AckInv
<1>18. BodyInv'
  <2>1. ASSUME NEW q \in packets, q.to \notin Forgetful
        PROVE  Tells(q.body, taken[Peer[q.to]][q.sequence + 1], taken[Peer[q.to]],
                     incoming_sequence'[q.to])
    <3>1. q.to \in Host
      BY <1>2 DEF TypeInv, Packet
    <3>2. Tells(q.body, taken[Peer[q.to]][q.sequence + 1], taken[Peer[q.to]],
                incoming_sequence[q.to])
      BY <1>2, <2>1 DEF BodyInv
    <3>3. QED
      BY <1>14, <3>1, <3>2, TellsLater
  <2>2. QED
    BY <1>1, <2>1 DEF BodyInv
<1>19. GhostInv'
  <2>1. ASSUME NEW k \in Host PROVE Replica(ghosts'[k], taken[Peer[k]], incoming_sequence'[k])
    <3>1. CASE k = h
      BY <1>9, <1>13, <3>1
    <3>2. CASE k # h
      BY <1>2, <1>13, <3>2 DEF GhostInv
    <3>3. QED
      BY <3>1, <3>2
  <2>2. QED
    BY <1>1, <2>1 DEF GhostInv
<1>20. QED
  BY <1>9, <1>13, <1>15, <1>16, <1>17, <1>18, <1>19 DEF IInv

(* T2 continues T.                                                         *)
Continues(T, T2) ==
  /\ Len(T) \in Nat /\ Len(T2) \in Nat /\ Len(T) <= Len(T2)
  /\ \A s \in 1 .. Len(T) : T2[s] = T[s]

LEMMA TellsOn ==
  ASSUME NEW body, NEW data, NEW T, NEW T2, NEW last, Continues(T, T2), Tells(body, data, T, last)
  PROVE  Tells(body, data, T2, last)
<1>1. \A s \in 1 .. Len(T) : s \in 1 .. Len(T2) /\ T2[s] = T[s]
  BY DEF Continues
<1>2. \A item : Had(T, last, item) => Had(T2, last, item)
  BY <1>1 DEF Had
<1>3. QED
  BY <1>2 DEF Tells

(* A replica stays one while its entities settle and the peer goes on.     *)
LEMMA ReplicaStays ==
  ASSUME NEW table, NEW T, NEW T2, NEW last \in Number, last < Len(T), Continues(T, T2),
         Replica(table, T, last)
  PROVE  Replica(table, T2, last) /\ Replica(Settled(table), T2, last)
<1> DEFINE settled == Settled(table)
<1>1. table \in [Position -> Ghost]
  BY DEF Replica, Sound
<1>2. /\ settled \in [Position -> Ghost]
      /\ \A i \in Position : /\ settled[i].remote_sequence = table[i].remote_sequence
                             /\ settled[i].value = table[i].value
                             /\ settled[i].state # "gone" => table[i].state # "gone"
                             /\ settled[i].state = "live" <=> table[i].state = "live"
  BY <1>1, SettledGhosts
<1> HIDE DEF settled
<1>3. Heard(T, last) \subseteq Heard(T2, last)
  <2>1. \A s \in 1 .. Len(T) : s \in 1 .. Len(T2) /\ T2[s] = T[s]
    BY DEF Continues
  <2>2. QED
    BY <2>1 DEF Heard
<1>4. last >= 0 => T2[last + 1] = T[last + 1]
  <2>1. last \in Int /\ Len(T) \in Nat
    BY DEF Number, Continues
  <2>2. last >= 0 => last + 1 \in 1 .. Len(T)
    BY <2>1
  <2>3. QED
    BY <2>2 DEF Continues
<1>5. Sound(table, Heard(T2, last))
  BY <1>3 DEF Replica, Sound
<1>6. Replica(table, T2, last)
  BY <1>4, <1>5 DEF Replica
<1>7. Told(settled) \subseteq Told(table) /\ \A i \in Told(settled) : i \in Position
  BY <1>2 DEF Told
<1>8. Sound(settled, Heard(T2, last))
  <2>1. Apart(settled)
    <3>1. Apart(table)
      BY <1>5 DEF Sound
    <3>2. QED
      BY <1>2, <1>7, <3>1 DEF Apart
  <2>2. \A i \in Told(settled) : settled[i].remote_sequence > 0
    <3>1. \A i \in Told(table) : table[i].remote_sequence > 0
      BY <1>5 DEF Sound
    <3>2. QED
      BY <1>2, <1>7, <3>1
  <2>3. \A i \in Position : settled[i].remote_sequence > 0
                              => settled[i].remote_sequence \in Heard(T2, last)
    BY <1>2, <1>5 DEF Sound
  <2>4. QED
    BY <1>2, <2>1, <2>2, <2>3 DEF Sound
<1>9. ASSUME NEW data, ShowsAll(table, data) PROVE ShowsAll(settled, data)
  <2>1. ASSUME NEW n \in 1 .. Len(data)
        PROVE  /\ \E i \in Position : Shows(settled[i], data[n])
               /\ \A i \in Position : settled[i].remote_sequence = data[n].sequence
                                        => settled[i].state = "live"
    <3>1. PICK i \in Position : Shows(table[i], data[n])
      BY <1>9 DEF ShowsAll
    <3>2. Shows(settled[i], data[n])
      BY <1>2, <3>1 DEF Shows
    <3>3. ASSUME NEW j \in Position, settled[j].remote_sequence = data[n].sequence
          PROVE  settled[j].state = "live"
      BY <1>2, <1>9, <3>3 DEF ShowsAll
    <3>4. QED
      BY <3>2, <3>3
  <2>2. QED
    BY <2>1 DEF ShowsAll
<1>10. Replica(settled, T2, last)
  BY <1>6, <1>8, <1>9 DEF Replica
<1>11. QED
  BY <1>6, <1>10 DEF settled

LEMMA SlotOf ==
  ASSUME NEW n \in Int
  PROVE  n % SnapshotCount \in Slot
<1>1. SnapshotCount \in Nat /\ SnapshotCount > 0
  BY SizeAssumption
<1>2. n % SnapshotCount \in 0 .. SnapshotCount - 1
  BY <1>1
<1>3. QED
  BY <1>2 DEF Slot

(* What an update does to the host it is of.                               *)
LEMMA UpdateIs ==
  ASSUME IInv, NEW h \in Host, Update(h)
  PROVE  LET data == Data(Settled(entities[h]))
         IN  /\ phase[h] = "game"
             /\ DataOf(Settled(entities[h]), data)
             /\ entities' = [entities EXCEPT ![h] = Settled(entities[h])]
             /\ ghosts' = [ghosts EXCEPT ![h] = Settled(ghosts[h])]
             /\ snapshots' = [snapshots EXCEPT ![h][sequence[h] % SnapshotCount] =
                                [sequence |-> sequence[h], data |-> data]]
             /\ taken' = [taken EXCEPT ![h] = Append(taken[h], data)]
             /\ packets' = packets \cup
                  {[to |-> Peer[h], sequence |-> sequence[h], ack_sequence |-> incoming_sequence[h],
                    body |-> Delta(data, Baseline(snapshots'[h], ack_sequence[h]))]}
             /\ phase' = [phase EXCEPT ![h] = "recv"]
             /\ sequence' = sequence /\ spawned' = spawned /\ orphans' = orphans
             /\ incoming_sequence' = incoming_sequence /\ ack_sequence' = ack_sequence
<1> DEFINE table == Settled(entities[h])
           data == Data(table)
<1>1. /\ phase[h] = "game"
      /\ entities' = [entities EXCEPT ![h] = Settled(@)]
      /\ ghosts' = [ghosts EXCEPT ![h] = Settled(@)]
      /\ phase' = [phase EXCEPT ![h] = "recv"]
      /\ sequence' = sequence /\ spawned' = spawned /\ orphans' = orphans
      /\ incoming_sequence' = incoming_sequence /\ ack_sequence' = ack_sequence
  BY DEF Update
<1>2. TypeInv /\ Table(entities[h], taken[h], spawned[h])
  BY DEF IInv, TableInv
<1>3. entities' = [entities EXCEPT ![h] = table] /\ entities'[h] = table
  BY <1>1, <1>2 DEF TypeInv
<1>4. /\ snapshots' = [snapshots EXCEPT ![h][sequence[h] % SnapshotCount] =
                         [sequence |-> sequence[h], data |-> data]]
      /\ taken' = [taken EXCEPT ![h] = Append(@, data)]
      /\ packets' = packets \cup
           {[to |-> Peer[h], sequence |-> sequence[h], ack_sequence |-> incoming_sequence[h],
             body |-> Delta(data, Baseline(snapshots'[h], ack_sequence[h]))]}
  <2> HIDE DEF table
  <2>1. QED
    BY <1>3, Zenon DEF Update
<1>5. entities[h] \in [Position -> Entity]
  BY <1>2, HostTypes
<1>6. DataOf(table, data)
  <2>1. /\ table \in [Position -> Entity]
        /\ \A i \in Position : /\ table[i].value = entities[h][i].value
                               /\ table[i].state \in {"gone", "live"}
                               /\ table[i].state = "live" <=> entities[h][i].state = "live"
    BY <1>5, SettledEntities
  <2>2. \A i \in Valid(entities[h]) : entities[h][i].value \in Value
    BY <1>2 DEF Table
  <2> HIDE DEF table
  <2>3. \A i \in Valid(table) : table[i].value \in Value
    BY <2>1, <2>2 DEF Valid
  <2>4. QED
    BY <2>1, <2>3, DataIs
<1>7. taken' = [taken EXCEPT ![h] = Append(taken[h], data)]
      /\ ghosts' = [ghosts EXCEPT ![h] = Settled(ghosts[h])]
  <2> HIDE DEF data
  <2>1. QED
    BY <1>1, <1>4
<1> HIDE DEF data, table
<1>8. QED
  BY <1>1, <1>3, <1>4, <1>6, <1>7 DEF data, table

LEMMA UpdateKeeps ==
  ASSUME IInv, Orderly, NEW h \in Host, Update(h)
  PROVE  IInv'
<1> DEFINE old == entities[h]
           T == taken[h]
           data == Data(Settled(old))
           T2 == Append(T, data)
           x == sequence[h] % SnapshotCount
           slot == [sequence |-> sequence[h], data |-> data]
           base == Baseline(snapshots'[h], ack_sequence[h])
           p == [to |-> Peer[h], sequence |-> sequence[h], ack_sequence |-> incoming_sequence[h],
                 body |-> Delta(data, base)]
<1>1. /\ phase[h] = "game" /\ DataOf(Settled(old), data)
      /\ entities' = [entities EXCEPT ![h] = Settled(old)]
      /\ ghosts' = [ghosts EXCEPT ![h] = Settled(ghosts[h])]
      /\ snapshots' = [snapshots EXCEPT ![h][x] = slot]
      /\ taken' = [taken EXCEPT ![h] = T2]
      /\ packets' = packets \cup {p}
      /\ phase' = [phase EXCEPT ![h] = "recv"]
      /\ sequence' = sequence /\ spawned' = spawned /\ orphans' = orphans
      /\ incoming_sequence' = incoming_sequence /\ ack_sequence' = ack_sequence
  BY UpdateIs
<1>2. /\ TypeInv /\ TakenInv /\ IdleInv /\ HistoryInv /\ TableInv /\ RingInv /\ AckInv
      /\ BodyInv /\ EmptyInv /\ GhostInv
  BY DEF IInv
<1>3. /\ sequence[h] \in Nat /\ old \in [Position -> Entity] /\ T \in Seq(Seq(Item))
      /\ snapshots[h] \in [Slot -> [sequence : Nat, data : Seq(Item)]]
      /\ incoming_sequence[h] \in Number /\ ack_sequence[h] \in Number
      /\ ghosts[h] \in [Position -> Ghost] /\ Peer[h] \in Host
  BY <1>2, HostTypes, Peers
<1>4. data \in Seq(Item) /\ x \in Slot
  <2>1. data \in Seq(Item)
    BY <1>1 DEF DataOf
  <2>2. sequence[h] \in Int
    BY <1>3
  <2>3. x \in Slot
    BY <2>2, SlotOf
  <2> HIDE DEF data, x
  <2>4. QED
    BY <2>1, <2>3
<1>5. Settled(old) \in [Position -> Entity] /\ Valid(Settled(old)) \subseteq Valid(old)
  <2>1. /\ Settled(old) \in [Position -> Entity]
        /\ \A i \in Position : /\ Settled(old)[i].state \in {"gone", "live"}
                               /\ Settled(old)[i].state = "live" <=> old[i].state = "live"
    BY <1>3, SettledEntities
  <2>2. QED
    BY <2>1 DEF Valid
<1>6. Settled(ghosts[h]) \in [Position -> Ghost]
  BY <1>3, SettledGhosts
<1> HIDE DEF data, x
<1>7. /\ T2 \in Seq(Seq(Item)) /\ Len(T2) = Len(T) + 1 /\ Len(T) \in Nat
      /\ T2[Len(T) + 1] = data /\ \A s \in 1 .. Len(T) : T2[s] = T[s]
  BY <1>3, <1>4, Appended
<1>8. Len(T) = sequence[h]
  <2>1. Len(taken[h]) = sequence[h] + (IF phase[h] = "recv" THEN 1 ELSE 0)
    BY <1>2 DEF TakenInv
  <2>2. Len(taken[h]) = sequence[h] + 0
    BY <1>1, <2>1
  <2>3. QED
    BY <1>3, <2>2
<1> HIDE DEF old, T, T2
<1>9. /\ taken' \in [Host -> Seq(Seq(Item))] /\ taken'[h] = T2
      /\ \A k \in Host \ {h} : taken'[k] = taken[k]
  BY <1>1, <1>2, <1>7 DEF TypeInv
<1>10. Continues(T, T2)
  BY <1>7 DEF Continues
<1>11. ASSUME NEW k \in Host PROVE Continues(taken[k], taken'[k])
  <2>1. CASE k = h
    BY <1>9, <1>10, <2>1 DEF T
  <2>2. CASE k # h
    <3>1. taken'[k] = taken[k] /\ Len(taken[k]) \in Nat
      BY <1>2, <1>9, <2>2, HostTypes
    <3>2. QED
      BY <3>1 DEF Continues
  <2>3. QED
    BY <2>1, <2>2
<1>12. slot \in [sequence : Nat, data : Seq(Item)] /\ slot.sequence = sequence[h] /\ slot.data = data
  BY <1>3, <1>4
<1> HIDE DEF slot
<1>13. /\ snapshots' \in [Host -> [Slot -> [sequence : Nat, data : Seq(Item)]]]
       /\ snapshots'[h][x] = slot
       /\ \A y \in Slot \ {x} : snapshots'[h][y] = snapshots[h][y]
       /\ \A k \in Host \ {h} : snapshots'[k] = snapshots[k]
  <2> DEFINE ring == [snapshots[h] EXCEPT ![x] = slot]
  <2>1. /\ ring \in [Slot -> [sequence : Nat, data : Seq(Item)]] /\ ring[x] = slot
        /\ \A y \in Slot \ {x} : ring[y] = snapshots[h][y]
    BY <1>3, <1>4, <1>12
  <2>2. snapshots' = [snapshots EXCEPT ![h] = ring]
    BY <1>1
  <2> HIDE DEF ring
  <2>3. snapshots'[h] = ring
    BY <1>2, <2>2 DEF TypeInv
  <2>4. QED
    BY <1>2, <2>1, <2>2, <2>3 DEF TypeInv
<1>14. RingInv'
  <2>1. ASSUME NEW k \in Host, NEW y \in Slot,
               snapshots'[k][y].sequence % SnapshotCount = y,
               snapshots'[k][y].sequence < Len(taken'[k])
        PROVE  snapshots'[k][y].data = taken'[k][snapshots'[k][y].sequence + 1]
    <3>1. CASE k = h /\ y = x
      <4>1. snapshots'[k][y] = slot /\ taken'[k] = T2
        BY <1>9, <1>13, <3>1
      <4>2. T2[sequence[h] + 1] = data
        BY <1>7, <1>8
      <4>3. QED
        BY <1>12, <4>1, <4>2
    <3>2. CASE k = h /\ y # x
      <4> DEFINE s == snapshots[h][y].sequence
      <4>1. snapshots'[k][y] = snapshots[h][y] /\ taken'[k] = T2 /\ s \in Nat
        <5>1. snapshots[h][y] \in [sequence : Nat, data : Seq(Item)]
          BY <1>3
        <5>2. QED
          BY <1>9, <1>13, <3>2, <5>1
      <4>2. s % SnapshotCount = y /\ s < Len(T2)
        BY <2>1, <4>1
      <4>3. s # sequence[h]
        BY <3>2, <4>2 DEF x
      <4> HIDE DEF s
      <4>4. s < Len(T) /\ s + 1 \in 1 .. Len(T)
        BY <1>7, <1>8, <4>1, <4>2, <4>3
      <4>5. snapshots[h][y].data = T[s + 1]
        BY <1>2, <4>2, <4>4 DEF RingInv, T, s
      <4>6. T2[s + 1] = T[s + 1]
        BY <1>7, <4>4
      <4>7. QED
        BY <4>1, <4>5, <4>6 DEF s
    <3>3. CASE k # h
      <4> DEFINE s == snapshots[k][y].sequence
      <4>1. snapshots'[k] = snapshots[k] /\ taken'[k] = taken[k]
        <5>1. snapshots'[k] = snapshots[k]
          BY <1>13, <3>3
        <5>2. taken'[k] = taken[k]
          BY <1>9, <3>3
        <5>3. QED
          BY <5>1, <5>2
      <4>2. s % SnapshotCount = y /\ s < Len(taken[k])
        BY <2>1, <4>1
      <4>3. snapshots[k][y].data = taken[k][s + 1]
        <5>1. \A g \in Host : \A z \in Slot :
                 /\ snapshots[g][z].sequence % SnapshotCount = z
                 /\ snapshots[g][z].sequence < Len(taken[g])
                 => snapshots[g][z].data = taken[g][snapshots[g][z].sequence + 1]
          BY <1>2 DEF RingInv
        <5>2. QED
          BY <4>2, <5>1
      <4> HIDE DEF s
      <4>4. snapshots'[k][y].data = snapshots[k][y].data /\ snapshots'[k][y].sequence = s
        BY <4>1 DEF s
      <4>5. QED
        BY <4>1, <4>3, <4>4
    <3>4. QED
      BY <3>1, <3>2, <3>3
  <2>2. QED
    BY <2>1 DEF RingInv
<1>15. base \in Seq(Item)
  <2> DEFINE y == ack_sequence[h] % SnapshotCount
  <2>1. y \in Slot
    BY <1>3, SlotOf DEF Number
  <2>2. base = IF snapshots'[h][y].sequence = ack_sequence[h] THEN snapshots'[h][y].data ELSE <<>>
    BY Zenon DEF Baseline
  <2> HIDE DEF y
  <2>3. snapshots'[h][y] \in [sequence : Nat, data : Seq(Item)]
    BY <1>13, <2>1
  <2>4. snapshots'[h][y].data \in Seq(Item) /\ <<>> \in Seq(Item)
    BY <2>3
  <2> HIDE DEF base
  <2>5. QED
    BY <2>2, <2>4
<1>16. ASSUME Peer[h] \notin Forgetful, NEW m \in 1 .. Len(base)
       PROVE  Had(T2, incoming_sequence[Peer[h]], base[m])
  <2> DEFINE a == ack_sequence[h]
             y == a % SnapshotCount
  <2>1. y \in Slot /\ a \in Int
    BY <1>3, SlotOf DEF Number
  <2>2. base = IF snapshots'[h][y].sequence = a THEN snapshots'[h][y].data ELSE <<>>
    BY Zenon DEF Baseline
  <2>3. a <= incoming_sequence[Peer[h]] /\ incoming_sequence[Peer[h]] < Len(T)
        /\ incoming_sequence[Peer[h]] \in Int
    <3>1. Peer[Peer[h]] = h
      BY DEF Orderly, Mutual
    <3>2. QED
      BY <1>2, <1>3, <1>16, <3>1, HostTypes DEF AckInv, T, Number
  <2> HIDE DEF a, base
  <2>4. snapshots'[h][y].sequence = a /\ base = snapshots'[h][y].data
    <3>1. CASE snapshots'[h][y].sequence = a
      BY <2>2, <3>1
    <3>2. CASE snapshots'[h][y].sequence # a
      <4>1. base = <<>>
        BY <2>2, <3>2
      <4>2. QED
        BY <1>16, <4>1
    <3>3. QED
      BY <3>1, <3>2
  <2> HIDE DEF y
  <2>5. snapshots'[h][y].sequence \in Nat
    <3>1. snapshots'[h][y] \in [sequence : Nat, data : Seq(Item)]
      BY <1>13, <2>1
    <3>2. QED
      BY <3>1
  <2>6. a \in Nat /\ a < Len(T2) /\ a + 1 \in 1 .. Len(T2) /\ a + 1 <= incoming_sequence[Peer[h]] + 1
    BY <1>7, <2>1, <2>3, <2>4, <2>5
  <2>7. snapshots'[h][y].data = taken'[h][a + 1]
    <3>1. a % SnapshotCount = y
      BY DEF y
    <3>2. QED
      BY <1>9, <1>14, <2>1, <2>4, <2>6, <3>1 DEF RingInv
  <2>8. base = T2[a + 1]
    BY <1>9, <2>4, <2>7
  <2>9. m \in 1 .. Len(T2[a + 1]) /\ T2[a + 1][m] = base[m]
    BY <1>16, <2>8
  <2>10. QED
    BY <2>6, <2>9 DEF Had
<1> HIDE DEF base
<1>17. LET body == Delta(data, base)
       IN  /\ body \in Seq(Part) /\ Len(body) = Len(data)
           /\ \A n \in 1 .. Len(data) :
                /\ body[n].sequence = data[n].sequence
                /\ body[n].diff => body[n].value = data[n].value
                /\ ~body[n].diff => \E m \in 1 .. Len(base) : base[m] = data[n]
  BY <1>4, <1>15, DeltaTells
<1> DEFINE body == Delta(data, base)
<1> HIDE DEF body
<1>18. /\ body \in Seq(Part) /\ Len(body) = Len(data)
       /\ \A n \in 1 .. Len(data) :
            /\ body[n].sequence = data[n].sequence
            /\ body[n].diff => body[n].value = data[n].value
            /\ ~body[n].diff => \E m \in 1 .. Len(base) : base[m] = data[n]
  BY <1>17 DEF body
<1>19. /\ p.to = Peer[h] /\ p.sequence = sequence[h] /\ p.ack_sequence = incoming_sequence[h]
       /\ p.body = body /\ p \in Packet
  <2>1. p = [to |-> Peer[h], sequence |-> sequence[h], ack_sequence |-> incoming_sequence[h],
             body |-> body]
    BY DEF body
  <2> HIDE DEF p
  <2>2. QED
    BY <1>3, <1>18, <2>1 DEF Packet
<1> HIDE DEF p
<1>20. TypeInv'
  <2>1. phase' \in [Host -> {"game", "recv"}]
    BY <1>1, <1>2 DEF TypeInv
  <2>2. entities' \in [Host -> [Position -> Entity]]
    BY <1>1, <1>2, <1>5 DEF TypeInv
  <2>3. ghosts' \in [Host -> [Position -> Ghost]]
    BY <1>1, <1>2, <1>6 DEF TypeInv
  <2>4. packets' \subseteq Packet
    BY <1>1, <1>2, <1>19 DEF TypeInv
  <2>5. QED
    BY <1>1, <1>2, <1>9, <1>13, <2>1, <2>2, <2>3, <2>4 DEF TypeInv
<1>21. TakenInv'
  <2>1. ASSUME NEW k \in Host
        PROVE  Len(taken'[k]) = sequence[k] + (IF phase'[k] = "recv" THEN 1 ELSE 0)
    <3>1. CASE k = h
      <4>1. phase'[k] = "recv"
        BY <1>1, <1>2, <3>1 DEF TypeInv
      <4>2. QED
        BY <1>7, <1>8, <1>9, <3>1, <4>1
    <3>2. CASE k # h
      <4>1. phase'[k] = phase[k]
        BY <1>1, <1>2, <3>2 DEF TypeInv
      <4>2. QED
        BY <1>2, <1>9, <3>2, <4>1 DEF TakenInv
    <3>3. QED
      BY <3>1, <3>2
  <2>2. QED
    BY <1>1, <2>1 DEF TakenInv
<1>22. /\ entities'[h] = Settled(old) /\ ghosts'[h] = Settled(ghosts[h])
       /\ \A k \in Host \ {h} : entities'[k] = entities[k] /\ ghosts'[k] = ghosts[k]
  BY <1>1, <1>2 DEF TypeInv
<1>23. IdleInv'
  <2>1. ASSUME NEW k \in Host, k \notin Author PROVE Valid(entities'[k]) = {}
    <3>1. Valid(entities[k]) = {}
      BY <1>2, <2>1 DEF IdleInv
    <3>2. QED
      BY <1>5, <1>22, <3>1 DEF old
  <2>2. QED
    BY <2>1 DEF IdleInv
<1>24. h \notin Author => data = <<>>
  <2>1. SUFFICES ASSUME h \notin Author PROVE data = <<>>
    OBVIOUS
  <2>2. Valid(Settled(old)) = {}
    BY <1>2, <1>5, <2>1 DEF IdleInv, old
  <2>3. ASSUME NEW n \in 1 .. Len(data) PROVE FALSE
    <3>1. 0 .. n - 1 \subseteq {}
      BY <1>1, <2>2 DEF DataOf
    <3>2. 0 \in 0 .. n - 1
      BY <1>4
    <3>3. QED
      BY <3>1, <3>2
  <2>4. Len(data) = 0
    BY <1>4, <2>3
  <2>5. QED
    BY <1>4, <2>4, EmptySeq
<1>25. History(T2, spawned[h]) /\ Table(Settled(old), T2, spawned[h])
  <2>1. History(T, spawned[h]) /\ Table(old, T, spawned[h])
    BY <1>2 DEF HistoryInv, TableInv, T, old
  <2>2. QED
    BY <1>1, <1>3, <2>1, HistoryGrows DEF T2, T, old
<1>26. HistoryInv'
  <2>1. ASSUME NEW k \in Host
        PROVE  /\ History(taken'[k], spawned[k])
               /\ k \notin Author => \A s \in 1 .. Len(taken'[k]) : taken'[k][s] = <<>>
    <3>1. CASE k = h
      <4>1. ASSUME k \notin Author, NEW s \in 1 .. Len(T2) PROVE T2[s] = <<>>
        <5>1. CASE s \in 1 .. Len(T)
          BY <1>2, <1>7, <3>1, <4>1, <5>1 DEF HistoryInv, T
        <5>2. CASE s \notin 1 .. Len(T)
          BY <1>7, <1>24, <3>1, <4>1, <5>2
        <5>3. QED
          BY <5>1, <5>2
      <4>2. QED
        BY <1>9, <1>25, <3>1, <4>1
    <3>2. CASE k # h
      BY <1>2, <1>9, <3>2 DEF HistoryInv
    <3>3. QED
      BY <3>1, <3>2
  <2>2. QED
    BY <1>1, <2>1 DEF HistoryInv
<1>27. TableInv'
  <2>1. ASSUME NEW k \in Host PROVE Table(entities'[k], taken'[k], spawned[k])
    <3>1. CASE k = h
      BY <1>9, <1>22, <1>25, <3>1
    <3>2. CASE k # h
      BY <1>2, <1>9, <1>22, <3>2 DEF TableInv
    <3>3. QED
      BY <3>1, <3>2
  <2>2. QED
    BY <1>1, <2>1 DEF TableInv
<1>28. ASSUME NEW k \in Host PROVE incoming_sequence[k] < Len(taken[Peer[k]])
                                   /\ incoming_sequence[k] \in Number /\ Peer[k] \in Host
  BY <1>2, HostTypes, Peers DEF AckInv
<1>29. AckInv'
  <2>1. ASSUME NEW k \in Host PROVE incoming_sequence[k] < Len(taken'[Peer[k]])
    <3>1. Continues(taken[Peer[k]], taken'[Peer[k]]) /\ incoming_sequence[k] \in Int
      BY <1>11, <1>28 DEF Number
    <3>2. QED
      BY <1>28, <3>1 DEF Continues
  <2>2. ASSUME NEW q \in packets'
        PROVE  /\ q.sequence < Len(taken'[Peer[q.to]])
               /\ Peer[q.to] \notin Forgetful => q.ack_sequence <= incoming_sequence[Peer[q.to]]
    <3>1. CASE q = p
      <4>1. Peer[q.to] = h
        BY <1>19, <3>1 DEF Orderly, Mutual
      <4>2. incoming_sequence[h] <= incoming_sequence[h]
        BY <1>3 DEF Number
      <4>3. QED
        BY <1>3, <1>7, <1>8, <1>9, <1>19, <3>1, <4>1, <4>2
    <3>2. CASE q \in packets
      <4>1. Peer[q.to] \in Host /\ q.sequence \in Int
        BY <1>2, <3>2, Peers DEF TypeInv, Packet
      <4>2. Continues(taken[Peer[q.to]], taken'[Peer[q.to]])
        BY <1>11, <4>1
      <4>3. q.sequence < Len(taken[Peer[q.to]])
        BY <1>2, <3>2 DEF AckInv
      <4>4. q.sequence < Len(taken'[Peer[q.to]])
        BY <4>1, <4>2, <4>3 DEF Continues
      <4>5. QED
        BY <1>2, <3>2, <4>4 DEF AckInv
    <3>3. QED
      BY <1>1, <3>1, <3>2
  <2>3. \A k \in Host \ Forgetful : ack_sequence[Peer[k]] <= incoming_sequence[k]
    BY <1>2 DEF AckInv
  <2>4. QED
    BY <1>1, <2>1, <2>2, <2>3 DEF AckInv
<1>30. BodyInv'
  <2>1. ASSUME NEW q \in packets', q.to \notin Forgetful
        PROVE  Tells(q.body, taken'[Peer[q.to]][q.sequence + 1], taken'[Peer[q.to]],
                     incoming_sequence[q.to])
    <3>1. CASE q = p
      <4>1. Peer[q.to] = h /\ q.to = Peer[h]
        BY <1>19, <3>1 DEF Orderly, Mutual
      <4>2. T2[q.sequence + 1] = data
        BY <1>7, <1>8, <1>19, <3>1
      <4>3. ASSUME NEW n \in 1 .. Len(data), ~body[n].diff
            PROVE  Had(T2, incoming_sequence[Peer[h]], data[n])
        <5>1. PICK m \in 1 .. Len(base) : base[m] = data[n]
          BY <1>18, <4>3
        <5>2. Had(T2, incoming_sequence[Peer[h]], base[m])
          BY <1>16, <2>1, <4>1
        <5>3. QED
          BY <5>1, <5>2
      <4>4. Tells(body, data, T2, incoming_sequence[Peer[h]])
        BY <1>18, <4>3 DEF Tells
      <4>5. QED
        BY <1>9, <1>19, <3>1, <4>1, <4>2, <4>4
    <3>2. CASE q \in packets
      <4>1. Peer[q.to] \in Host /\ q.sequence \in Nat
        BY <1>2, <3>2, Peers DEF TypeInv, Packet
      <4>2. Continues(taken[Peer[q.to]], taken'[Peer[q.to]])
        BY <1>11, <4>1
      <4>3. q.sequence < Len(taken[Peer[q.to]])
        BY <1>2, <3>2 DEF AckInv
      <4>4. taken'[Peer[q.to]][q.sequence + 1] = taken[Peer[q.to]][q.sequence + 1]
        <5>1. q.sequence + 1 \in 1 .. Len(taken[Peer[q.to]])
          BY <4>1, <4>2, <4>3 DEF Continues
        <5>2. QED
          BY <4>2, <5>1 DEF Continues
      <4>5. Tells(q.body, taken[Peer[q.to]][q.sequence + 1], taken[Peer[q.to]],
                  incoming_sequence[q.to])
        BY <1>2, <2>1, <3>2 DEF BodyInv
      <4>6. QED
        BY <4>2, <4>4, <4>5, TellsOn
    <3>3. QED
      BY <1>1, <3>1, <3>2
  <2>2. QED
    BY <1>1, <2>1 DEF BodyInv
<1>31. EmptyInv'
  <2>1. ASSUME NEW q \in packets', Peer[q.to] \notin Author PROVE q.body = <<>>
    <3>1. CASE q = p
      <4>1. Peer[q.to] = h
        BY <1>19, <3>1 DEF Orderly, Mutual
      <4>2. Len(body) = 0
        BY <1>18, <1>24, <2>1, <4>1
      <4>3. QED
        BY <1>18, <1>19, <3>1, <4>2, EmptySeq
    <3>2. CASE q \in packets
      BY <1>2, <2>1, <3>2 DEF EmptyInv
    <3>3. QED
      BY <1>1, <3>1, <3>2
  <2>2. QED
    BY <2>1 DEF EmptyInv
<1>32. GhostInv'
  <2>1. ASSUME NEW k \in Host
        PROVE  Replica(ghosts'[k], taken'[Peer[k]], incoming_sequence[k])
    <3>1. Replica(ghosts[k], taken[Peer[k]], incoming_sequence[k])
      BY <1>2 DEF GhostInv
    <3>2. /\ Replica(ghosts[k], taken'[Peer[k]], incoming_sequence[k])
          /\ Replica(Settled(ghosts[k]), taken'[Peer[k]], incoming_sequence[k])
      BY <1>11, <1>28, <3>1, ReplicaStays
    <3>3. CASE k = h
      BY <1>22, <3>2, <3>3
    <3>4. CASE k # h
      BY <1>22, <3>2, <3>4
    <3>5. QED
      BY <3>3, <3>4
  <2>2. QED
    BY <1>1, <2>1 DEF GhostInv
<1>33. QED
  BY <1>14, <1>20, <1>21, <1>23, <1>26, <1>27, <1>29, <1>30, <1>31, <1>32 DEF IInv

LEMMA InvStep == ASSUME IInv, Orderly, [Next]_vars PROVE IInv'
<1>1. ASSUME NEW h \in Host, Spawn(h) PROVE IInv'
  BY <1>1, SpawnKeeps
<1>2. ASSUME NEW h \in Host, NEW i \in Position, NEW v \in Value, Change(h, i, v) PROVE IInv'
  BY <1>2, ChangeKeeps DEF Orderly
<1>3. ASSUME NEW h \in Host, NEW i \in Position, Remove(h, i) PROVE IInv'
  BY <1>3, RemoveKeeps DEF Orderly
<1>4. ASSUME NEW h \in Host, Forget(h) PROVE IInv'
  BY <1>4, ForgetKeeps DEF Orderly
<1>5. ASSUME NEW h \in Host, Update(h) PROVE IInv'
  BY <1>5, UpdateKeeps
<1>6. ASSUME NEW h \in Host, NEW p \in packets, Receive(h, p) PROVE IInv'
  BY <1>6, ReceiveKeeps
<1>7. ASSUME NEW h \in Host, Return(h) PROVE IInv'
  BY <1>7, ReturnKeeps
<1>8. CASE UNCHANGED vars
  <2>1. /\ phase' = phase /\ sequence' = sequence /\ entities' = entities /\ spawned' = spawned
        /\ snapshots' = snapshots /\ incoming_sequence' = incoming_sequence
        /\ ack_sequence' = ack_sequence /\ ghosts' = ghosts /\ orphans' = orphans
        /\ packets' = packets /\ taken' = taken
    BY <1>8 DEF vars, authored, connection
  <2>2. TypeInv' /\ TakenInv' /\ IdleInv' /\ HistoryInv' /\ TableInv' /\ RingInv' /\ AckInv'
    BY <2>1 DEF IInv, TypeInv, TakenInv, IdleInv, HistoryInv, TableInv, RingInv, AckInv
  <2>3. BodyInv' /\ EmptyInv' /\ GhostInv'
    BY <2>1 DEF IInv, BodyInv, EmptyInv, GhostInv
  <2>4. QED
    BY <2>2, <2>3 DEF IInv
<1>9. QED
  BY <1>1, <1>2, <1>3, <1>4, <1>5, <1>6, <1>7, <1>8 DEF Next

(* What packet_add_entities leaves out of a packet because a snapshot the  *)
(* peer acknowledged had it, packet_read_entities has: for every number of *)
(* snapshots kept, of updates, entities and values, whichever packets are  *)
(* lost, repeated or overtaken, a host that has applied a packet shows     *)
(* each entity of its snapshot once, with the value it had there.          *)
THEOREM ReplicaAlwaysMatches == Orderly => (Spec => []ReplicaMatches)
<1> SUFFICES ASSUME Orderly PROVE Spec => []ReplicaMatches
  OBVIOUS
<1>1. IInv => ReplicaMatches
  <2> SUFFICES ASSUME IInv, NEW h \in Host, incoming_sequence[h] >= 0, NEW n \in DOMAIN Seen(h)
               PROVE  LET shown == {i \in Position :
                                      /\ ghosts[h][i].state = "live"
                                      /\ ghosts[h][i].remote_sequence = Seen(h)[n].sequence}
                      IN  /\ Cardinality(shown) = 1
                          /\ \A i \in shown : ghosts[h][i].value = Seen(h)[n].value
    BY DEF ReplicaMatches
  <2> DEFINE data == taken[Peer[h]][incoming_sequence[h] + 1]
             shown == {i \in Position : /\ ghosts[h][i].state = "live"
                                        /\ ghosts[h][i].remote_sequence = data[n].sequence}
  <2>1. /\ Replica(ghosts[h], taken[Peer[h]], incoming_sequence[h])
        /\ taken[Peer[h]] \in Seq(Seq(Item)) /\ incoming_sequence[h] \in Int
        /\ incoming_sequence[h] < Len(taken[Peer[h]])
    BY Peers, HostTypes DEF IInv, GhostInv, AckInv, Number
  <2>2. incoming_sequence[h] + 1 \in 1 .. Len(taken[Peer[h]])
    BY <2>1
  <2>3. data \in Seq(Item)
    BY <2>1, <2>2
  <2>4. n \in 1 .. Len(data)
    BY <2>3 DEF Seen
  <2>5. Sound(ghosts[h], Heard(taken[Peer[h]], incoming_sequence[h])) /\ ShowsAll(ghosts[h], data)
    BY <2>1 DEF Replica
  <2> HIDE DEF data
  <2>6. PICK i \in Position : Shows(ghosts[h][i], data[n])
    BY <2>4, <2>5 DEF ShowsAll
  <2>7. \A j \in Position : ghosts[h][j].state = "live" => j \in Told(ghosts[h])
    BY DEF Told
  <2>8. \A j \in shown : j = i
    BY <2>5, <2>6, <2>7 DEF Sound, Apart, Shows
  <2>9. i \in shown
    BY <2>6 DEF Shows
  <2>10. shown = {i}
    BY <2>8, <2>9
  <2>11. Cardinality(shown) = 1
    BY <2>10, FS_Singleton
  <2>12. \A j \in shown : ghosts[h][j].value = data[n].value
    BY <2>6, <2>8 DEF Shows
  <2>13. QED
    BY <2>11, <2>12 DEF Seen, data
<1>2. IInv /\ [Next]_vars => IInv'
  BY InvStep
<1>3. QED
  BY <1>1, <1>2, InitInv, PTL DEF Spec

(* "Remove entities that we didn't see in the snapshot!": the first packet *)
(* that an update applies leaves no ghost of anything else.                *)
THEOREM GhostsAlwaysDisappear == Orderly => (Spec => GhostsDisappear)
<1> SUFFICES ASSUME Orderly PROVE Spec => GhostsDisappear
  OBVIOUS
<1>1. ASSUME IInv, [Next]_vars, NEW h \in Host,
             incoming_sequence'[h] \notin {incoming_sequence[h], -1},
             \A i \in Live(ghosts[h]) : ghosts[h][i].last_recved_sequence # sequence[h]
      PROVE  Shown(h)' \subseteq SeenIds(h)'
  <2>1. PICK p \in packets : Receive(h, p)
    <3>1. TypeInv
      BY <1>1 DEF IInv
    <3>2. ASSUME NEW k \in Host, NEW p \in packets, Receive(k, p) PROVE k = h
      BY <1>1, <3>1, <3>2 DEF Receive, TypeInv
    <3>3. ASSUME NEW k \in Host, Forget(k) PROVE FALSE
      BY <1>1, <3>1, <3>3 DEF Forget, TypeInv
    <3>4. incoming_sequence' # incoming_sequence
      BY <1>1
    <3>5. PICK k \in Host : Forget(k) \/ \E p \in packets : Receive(k, p)
      BY <1>1, <3>4 DEF Next, Spawn, Change, Remove, Update, Return, vars, connection
    <3>6. QED
      BY <3>2, <3>3, <3>5
  <2> DEFINE data == taken[Peer[h]][p.sequence + 1]
  <2>2. IInv' /\ \A i \in Live(ghosts'[h]) : ghosts'[h][i].remote_sequence \in Ids(data)
    BY <1>1, <2>1, ReceiveKeeps
  <2>3. orphans'[h] = {} /\ taken' = taken
    BY <2>1, <2>2 DEF IInv, TypeInv, Receive
  <2>4. incoming_sequence'[h] = p.sequence
    BY <1>1, <2>1 DEF Receive, IInv, TypeInv
  <2>5. taken[Peer[h]] \in Seq(Seq(Item)) /\ p.sequence \in Nat /\ p.sequence < Len(taken[Peer[h]])
    <3>1. p.to = h
      BY <2>1 DEF Receive
    <3>2. QED
      BY <1>1, <3>1, Peers, HostTypes DEF IInv, AckInv, TypeInv, Packet
  <2>6. data \in Seq(Item)
    BY <2>5
  <2>7. SeenIds(h)' = Ids(data)
    <3>1. SeenIds(h)' = {data[i].sequence : i \in DOMAIN data}
      BY <2>3, <2>4 DEF SeenIds, Seen
    <3> HIDE DEF data
    <3>2. QED
      BY <2>6, <3>1 DEF Ids
  <2>8. Shown(h)' = {ghosts'[h][i].remote_sequence : i \in Live(ghosts'[h])}
    BY <2>3 DEF Shown, Live
  <2>9. QED
    BY <2>2, <2>7, <2>8
<1>2. IInv /\ [Next]_vars =>
        [\A h \in Host :
           /\ incoming_sequence'[h] \notin {incoming_sequence[h], -1}
           /\ \A i \in Live(ghosts[h]) : ghosts[h][i].last_recved_sequence # sequence[h]
           => Shown(h)' \subseteq SeenIds(h)']_vars
  BY <1>1
<1>3. IInv /\ [Next]_vars => IInv'
  BY InvStep
<1>4. QED
  BY <1>2, <1>3, InitInv, PTL DEF Spec, GhostsDisappear

(* A packet that was overtaken is skipped, and a difference to an old      *)
(* snapshot says of an entity what it was there or nothing: no ghost goes  *)
(* back to an earlier version.                                             *)
THEOREM VersionsAlwaysForward == Orderly => (Spec => VersionsForward)
<1> SUFFICES ASSUME Orderly PROVE Spec => VersionsForward
  OBVIOUS
<1>1. ASSUME IInv, [Next]_vars, NEW h \in Host, NEW i \in Position,
             ghosts[h][i].state # "gone",
             ghosts'[h][i].remote_sequence = ghosts[h][i].remote_sequence
      PROVE  ghosts'[h][i].value >= ghosts[h][i].value
  <2>1. ghosts \in [Host -> [Position -> Ghost]] /\ ghosts[h] \in [Position -> Ghost]
    BY <1>1, HostTypes DEF IInv, TypeInv
  <2>2. ghosts[h][i].value \in Int
    <3>1. ghosts[h][i] \in Ghost
      BY <2>1
    <3>2. ghosts[h][i].value \in AnyValue
      BY <3>1 DEF Ghost
    <3>3. QED
      BY <3>2, Values
  <2>3. i \in Told(ghosts[h])
    BY <1>1 DEF Told
  <2>4. CASE ghosts'[h] = ghosts[h]
    BY <2>2, <2>4
  <2>5. ASSUME NEW k \in Host, Forget(k), k = h PROVE FALSE
    <3>1. Peer[h] \notin Author
      BY <2>5 DEF Forget, Orderly, KeepsAuthors
    <3>2. QED
      BY <1>1, <2>3, <3>1, NothingTold
  <2>6. ASSUME NEW k \in Host, Update(k), k = h PROVE ghosts'[h][i].value >= ghosts[h][i].value
    <3>1. ghosts'[h] = Settled(ghosts[h])
      BY <2>1, <2>6 DEF Update
    <3>2. Settled(ghosts[h])[i].value = ghosts[h][i].value
      BY <2>1, SettledGhosts
    <3>3. QED
      BY <2>2, <3>1, <3>2
  <2>7. ASSUME NEW k \in Host, NEW p \in packets, Receive(k, p), k = h
        PROVE  ghosts'[h][i].value >= ghosts[h][i].value
    <3>1. Forward(ghosts[h], ghosts'[h])
      BY <1>1, <2>7, ReceiveKeeps
    <3>2. QED
      BY <1>1, <2>3, <3>1 DEF Forward
  <2>8. ASSUME NEW k \in Host, k # h,
               Forget(k) \/ Update(k) \/ \E p \in packets : Receive(k, p)
        PROVE  ghosts'[h] = ghosts[h]
    BY <2>1, <2>8 DEF Forget, Update, Receive
  <2>9. \/ ghosts' = ghosts
        \/ \E k \in Host : Forget(k) \/ Update(k) \/ \E p \in packets : Receive(k, p)
    BY <1>1 DEF Next, Spawn, Change, Remove, Return, vars, connection
  <2>10. QED
    BY <2>4, <2>5, <2>6, <2>7, <2>8, <2>9
<1>2. IInv /\ [Next]_vars =>
        [\A h \in Host, i \in Position :
           LET before == ghosts[h][i]
               after == ghosts'[h][i]
           IN  before.state # "gone" /\ after.remote_sequence = before.remote_sequence
                 => after.value >= before.value]_vars
  BY <1>1
<1>3. IInv /\ [Next]_vars => IInv'
  BY InvStep
<1>4. QED
  BY <1>2, <1>3, InitInv, PTL DEF Spec, VersionsForward
=============================================================================
