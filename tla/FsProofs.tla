------------------------------ MODULE FsProofs ------------------------------
(***************************************************************************)
(* Proofs about Fs.tla, for every set of paths, capacity of the queues and *)
(* number of works, and for a client that takes turns with the workers at  *)
(* pushing and destroys the file system quietly.  Then each ring is the    *)
(* FIFO of what waits in it (the lemmas about RingInv), and the rest is    *)
(* about these two FIFOs.                                                  *)
(***************************************************************************)
EXTENDS Fs, SequenceTheorems, FiniteSetTheorems, TLAPS

WorkRecord == [op : {"read", "write"}, path : Path, payload : Int, result : {"ok", "error"},
               status : {"issued", "done", "freed"}]
Ref == 0 .. Len(work)
Orderly == TakesTurns /\ QuietDestroy

files == Waiting(file_queue)
comps == Waiting(comp_queue)
Entries(queue) == {queue[i] : i \in DOMAIN queue}

Stopping == {"stop_file", "stop_comp", "join_file", "join_comp", "closed"}
ClientPc == {"ready", "push_file", "push_comp", "wait"} \cup Stopping

WorkType == work \in Seq(WorkRecord) /\ disk \in [Path -> Int]
QueueType == files \in Seq(Ref) /\ comps \in Seq(Ref)
ThreadType(thread) ==
  /\ thread \in [pc : {"ready", "run", "push", "exited"}, work : Ref, at : Int]
  /\ thread.at # NoSlot => thread.pc = "push"
  /\ thread.pc \in {"run", "push"} <=> thread.work # Null
ClientType ==
  /\ client \in [pc : ClientPc, work : Ref, at : Int]
  /\ client.at # NoSlot => client.pc \in {"push_file", "push_comp", "stop_file", "stop_comp"}
  /\ client.pc \in {"push_file", "push_comp", "wait"} => client.work # Null
  /\ client.pc = "ready" \/ client.pc \in Stopping \ {"closed"} => client.work = Null

TypeInv == WorkType /\ QueueType /\ ThreadType(file_thread) /\ ThreadType(comp_thread) /\ ClientType

(* A work object is in a queue or in the hands of a thread.                *)
Holder == {"file_queue", "comp_queue", "file", "comp", "client"}
Has(h, w) ==
  \/ h = "file_queue" /\ w \in Entries(files)
  \/ h = "comp_queue" /\ w \in Entries(comps)
  \/ h = "file" /\ file_thread.pc \in {"run", "push"} /\ w = file_thread.work
  \/ h = "comp" /\ comp_thread.pc \in {"run", "push"} /\ w = comp_thread.work
  \/ h = "client" /\ client.pc \in {"push_file", "push_comp"} /\ w = client.work

NoRepeats(q) == \A i, j \in DOMAIN q : q[i] = q[j] /\ q[i] # Null => i = j

HolderInv ==
  /\ \A w \in Issued : work[w].status = "issued" <=> \E h \in Holder : Has(h, w)
  /\ \A w \in Issued : \A g, h \in Holder : Has(g, w) /\ Has(h, w) => g = h
PlaceInv == HolderInv /\ NoRepeats(files) /\ NoRepeats(comps)

(* Only what is compressed comes near the compression thread.              *)
KindInv ==
  /\ \A w \in Issued : Has("comp_queue", w) \/ Has("comp", w) => Compressed(w)
  /\ file_thread.pc = "push" => Compressed(file_thread.work)
  /\ client.pc = "push_comp" => Compressed(client.work)

(* The NULL that stops a thread is the last its queue gets.                *)
StopInv(q, thread, told) ==
  /\ ~told => thread.pc # "exited" /\ Null \notin Entries(q)
  /\ told /\ thread.pc # "exited" => q # <<>> /\ \A i \in DOMAIN q : q[i] = Null <=> i = Len(q)
  /\ thread.pc = "exited" => q = <<>>

FileTold == client.pc \in Stopping \ {"stop_file"}
CompTold == client.pc \in Stopping \ {"stop_file", "stop_comp"}

ClosingInv ==
  /\ client.pc \in Stopping => \A w \in Undone : ~Compressed(w)
  /\ StopInv(files, file_thread, FileTold)
  /\ StopInv(comps, comp_thread, CompTold)
  /\ client.pc \in {"join_comp", "closed"} => file_thread.pc = "exited"
  /\ client.pc = "closed" => comp_thread.pc = "exited"

IInv == TypeInv /\ PlaceInv /\ KindInv /\ ClosingInv

(* What the compression thread is to unpack is what the file thread read,  *)
(* and what it is to pack comes from fs_write.                             *)
ToUnpack(w) ==
  \/ Has("comp_queue", w) \/ Has("comp", w)
  \/ (file_thread.pc = "push" /\ Has("file", w))
ReadInv ==
  /\ seen \in Seq(Int) /\ Len(seen) = Len(work)
  /\ \A w \in Issued : Op(w) = "read" /\ ToUnpack(w) => work[w].payload = seen[w]
  /\ client.pc = "push_comp" => Op(client.work) = "write"

-----------------------------------------------------------------------------
(* What appending to and taking from a queue does to its entries.          *)
LEMMA QueueFacts ==
  ASSUME NEW S, NEW q \in Seq(S)
  PROVE  /\ Len(q) \in Nat /\ DOMAIN q = 1 .. Len(q) /\ Entries(q) \subseteq S
         /\ q = <<>> <=> Entries(q) = {}
         /\ \A T : S \subseteq T => q \in Seq(T)
<1>1. /\ Len(q) \in Nat /\ DOMAIN q = 1 .. Len(q) /\ q \in [1 .. Len(q) -> S]
      /\ q = <<>> <=> Len(q) = 0
  BY LenProperties, EmptySeq
<1>2. Entries(q) \subseteq S /\ (q = <<>> <=> Entries(q) = {})
  <2>1. CASE Len(q) = 0
    <3>1. DOMAIN q = {} /\ q = <<>>
      BY <1>1, <2>1
    <3>2. Entries(q) = {}
      BY <3>1 DEF Entries
    <3>3. QED
      BY <3>1, <3>2
  <2>2. CASE Len(q) # 0
    <3>1. 1 \in DOMAIN q /\ q # <<>>
      BY <1>1, <2>2
    <3>2. QED
      BY <1>1, <3>1 DEF Entries
  <2>3. QED
    BY <2>1, <2>2
<1>3. ASSUME NEW T, S \subseteq T PROVE q \in Seq(T)
  BY <1>1, <1>3, SeqDef
<1>4. QED
  BY <1>1, <1>2, <1>3

LEMMA AppendFacts ==
  ASSUME NEW S, NEW q \in Seq(S), NEW x \in S
  PROVE  /\ Append(q, x) \in Seq(S) /\ Append(q, x) # <<>>
         /\ Entries(Append(q, x)) = Entries(q) \cup {x}
         /\ NoRepeats(q) /\ (x \notin Entries(q) \/ x = Null) => NoRepeats(Append(q, x))
         /\ \A i \in DOMAIN Append(q, x) :
              IF i = Len(Append(q, x)) THEN Append(q, x)[i] = x
              ELSE Append(q, x)[i] \in Entries(q)
<1> DEFINE a == Append(q, x)
<1>1. /\ a \in Seq(S) /\ Len(a) = Len(q) + 1 /\ Len(q) \in Nat /\ a # <<>>
      /\ DOMAIN q = 1 .. Len(q) /\ DOMAIN a = 1 .. Len(q) + 1
      /\ \A j \in 1 .. Len(q) : a[j] = q[j]
      /\ a[Len(q) + 1] = x
  BY AppendProperties, LenProperties
<1> HIDE DEF a
<1>2. Entries(a) = Entries(q) \cup {x}
  <2>1. ASSUME NEW i \in DOMAIN a PROVE a[i] \in Entries(q) \cup {x}
    BY <1>1 DEF Entries
  <2>2. ASSUME NEW i \in DOMAIN q PROVE q[i] \in Entries(a)
    BY <1>1 DEF Entries
  <2>3. x \in Entries(a)
    <3>1. Len(q) + 1 \in DOMAIN a
      BY <1>1
    <3>2. QED
      BY <1>1, <3>1 DEF Entries
  <2>4. QED
    BY <2>1, <2>2, <2>3 DEF Entries
<1>3. ASSUME NoRepeats(q), x \notin Entries(q) \/ x = Null PROVE NoRepeats(a)
  BY <1>1, <1>3 DEF NoRepeats, Entries
<1>4. ASSUME NEW i \in DOMAIN a PROVE IF i = Len(a) THEN a[i] = x ELSE a[i] \in Entries(q)
  BY <1>1 DEF Entries
<1>5. QED
  BY <1>1, <1>2, <1>3, <1>4 DEF a

LEMMA TailFacts ==
  ASSUME NEW S, NEW q \in Seq(S), q # <<>>
  PROVE  /\ Tail(q) \in Seq(S) /\ Head(q) \in S /\ Head(q) = q[1]
         /\ Len(q) \in Nat \ {0} /\ Len(Tail(q)) = Len(q) - 1
         /\ DOMAIN q = 1 .. Len(q) /\ DOMAIN Tail(q) = 1 .. Len(q) - 1
         /\ \A i \in DOMAIN Tail(q) : Tail(q)[i] = q[i + 1]
         /\ Entries(q) = Entries(Tail(q)) \cup {Head(q)}
         /\ NoRepeats(q) => NoRepeats(Tail(q))
         /\ NoRepeats(q) /\ Head(q) # Null => Head(q) \notin Entries(Tail(q))
<1> DEFINE t == Tail(q)
<1>1. /\ t \in Seq(S) /\ Len(t) = Len(q) - 1 /\ Len(q) \in Nat \ {0}
      /\ DOMAIN q = 1 .. Len(q) /\ DOMAIN t = 1 .. Len(q) - 1
      /\ \A i \in DOMAIN t : t[i] = q[i + 1]
      /\ Head(q) = q[1] /\ Head(q) \in S
  BY HeadTailProperties, LenProperties, EmptySeq
<1> HIDE DEF t
<1>2. Entries(q) = Entries(t) \cup {Head(q)}
  <2>1. ASSUME NEW i \in DOMAIN q PROVE q[i] \in Entries(t) \cup {Head(q)}
    <3>1. CASE i = 1
      BY <1>1, <3>1
    <3>2. CASE i # 1
      <4>1. i - 1 \in DOMAIN t /\ t[i - 1] = q[i]
        BY <1>1, <3>2
      <4>2. QED
        BY <4>1 DEF Entries
    <3>3. QED
      BY <3>1, <3>2
  <2>2. ASSUME NEW i \in DOMAIN t PROVE t[i] \in Entries(q)
    <3>1. i + 1 \in DOMAIN q
      BY <1>1
    <3>2. QED
      BY <1>1, <3>1 DEF Entries
  <2>3. 1 \in DOMAIN q
    BY <1>1
  <2>4. QED
    BY <1>1, <2>1, <2>2, <2>3 DEF Entries
<1>3. NoRepeats(q) => NoRepeats(t)
  BY <1>1 DEF NoRepeats
<1>4. ASSUME NoRepeats(q), Head(q) # Null, Head(q) \in Entries(t) PROVE FALSE
  <2>1. PICK i \in DOMAIN t : t[i] = Head(q)
    BY <1>4 DEF Entries
  <2>2. i + 1 \in DOMAIN q /\ 1 \in DOMAIN q /\ q[i + 1] = q[1] /\ i + 1 # 1
    BY <1>1, <2>1
  <2>3. QED
    BY <1>1, <1>4, <2>2 DEF NoRepeats
<1>5. QED
  BY <1>1, <1>2, <1>3, <1>4 DEF t

-----------------------------------------------------------------------------
(* The rings.  A queue whose pushers come one at a time has at most one    *)
(* slot claimed and not stored yet ("at"), the last one.                   *)
QueueRecord == [items : [Slots -> Int], head_index : Nat, tail_index : Nat,
                used_items : Nat, free_items : Nat]

RingInv(queue, at) ==
  /\ queue \in QueueRecord /\ at \in Int
  /\ at = NoSlot => /\ queue.used_items + queue.free_items = QueueCapacity
                    /\ queue.tail_index = queue.head_index + queue.used_items
  /\ at # NoSlot => /\ queue.used_items + queue.free_items + 1 = QueueCapacity
                    /\ queue.tail_index = queue.head_index + queue.used_items + 1
                    /\ at = (queue.head_index + queue.used_items) % QueueCapacity

LEMMA IndexInRing == ASSUME NEW n \in Nat PROVE n % QueueCapacity \in Slots
  BY CapacityAssumption DEF Slots

(* Two indices less than a lap apart have different slots.                 *)
LEMMA DistinctSlots ==
  ASSUME NEW a \in Nat, NEW b \in Nat, a < b, b - a < QueueCapacity
  PROVE  a % QueueCapacity # b % QueueCapacity
<1> SUFFICES ASSUME a % QueueCapacity = b % QueueCapacity PROVE FALSE
  OBVIOUS
<1> DEFINE q == a \div QueueCapacity
           r == b \div QueueCapacity
<1>1. /\ a = QueueCapacity * q + (a % QueueCapacity)
      /\ b = QueueCapacity * r + (b % QueueCapacity)
      /\ q \in Int /\ r \in Int /\ a % QueueCapacity \in Int
  BY CapacityAssumption
<1> HIDE DEF q, r
<1>2. b - a = QueueCapacity * (r - q)
  BY <1>1, CapacityAssumption, Z3
<1>3. CASE r - q <= 0
  <2>1. QueueCapacity * (r - q) <= 0
    BY <1>1, <1>3, CapacityAssumption, Z3
  <2>2. QED
    BY <1>2, <2>1, CapacityAssumption
<1>4. CASE r - q >= 1
  <2>1. QueueCapacity * (r - q) >= QueueCapacity
    BY <1>1, <1>4, CapacityAssumption, Z3
  <2>2. QED
    BY <1>2, <2>1, CapacityAssumption
<1>5. QED
  BY <1>1, <1>3, <1>4

LEMMA WaitingFacts ==
  ASSUME NEW queue \in QueueRecord
  PROVE  /\ Waiting(queue) \in Seq(Int)
         /\ Len(Waiting(queue)) = queue.used_items /\ queue.used_items \in Nat
         /\ \A i \in 1 .. queue.used_items :
              /\ (queue.head_index + i - 1) % QueueCapacity \in Slots
              /\ Waiting(queue)[i] = queue.items[(queue.head_index + i - 1) % QueueCapacity]
<1>1. queue.used_items \in Nat /\ queue.head_index \in Nat /\ queue.items \in [Slots -> Int]
  BY DEF QueueRecord
<1>2. ASSUME NEW i \in 1 .. queue.used_items
      PROVE  /\ (queue.head_index + i - 1) % QueueCapacity \in Slots
             /\ queue.items[(queue.head_index + i - 1) % QueueCapacity] \in Int
  <2>1. queue.head_index + i - 1 \in Nat
    BY <1>1
  <2>2. QED
    BY <1>1, <2>1, IndexInRing
<1>3. Waiting(queue) \in [1 .. queue.used_items -> Int]
  BY <1>2 DEF Waiting
<1>4. Waiting(queue) \in Seq(Int)
  BY <1>1, <1>3, SeqDef
<1>5. Len(Waiting(queue)) = queue.used_items
  BY <1>1, <1>3, <1>4, LenProperties
<1>6. QED
  BY <1>1, <1>2, <1>4, <1>5 DEF Waiting

LEMMA RingClaims ==
  ASSUME NEW q, RingInv(q, NoSlot), q.free_items > 0,
         NEW p, p = [q EXCEPT !.free_items = @ - 1, !.tail_index = @ + 1]
  PROVE  RingInv(p, q.tail_index % QueueCapacity) /\ Waiting(p) = Waiting(q)
<1>0. /\ q \in QueueRecord
      /\ q.tail_index \in Nat /\ q.head_index \in Nat /\ q.used_items \in Nat /\ q.free_items \in Nat
      /\ q.used_items + q.free_items = QueueCapacity
      /\ q.tail_index = q.head_index + q.used_items
  BY DEF RingInv, QueueRecord
<1>1. /\ p \in QueueRecord /\ p.items = q.items /\ p.used_items = q.used_items
      /\ p.head_index = q.head_index /\ p.tail_index = q.tail_index + 1
      /\ p.free_items = q.free_items - 1
  <2>1. /\ p.items = q.items /\ p.used_items = q.used_items
        /\ p.head_index = q.head_index /\ p.tail_index = q.tail_index + 1
        /\ p.free_items = q.free_items - 1
    BY <1>0 DEF QueueRecord
  <2>2. p = [items |-> q.items, head_index |-> q.head_index, tail_index |-> p.tail_index,
             used_items |-> q.used_items, free_items |-> p.free_items]
    BY <1>0, <2>1 DEF QueueRecord
  <2>3. p.tail_index \in Nat /\ p.free_items \in Nat /\ q.items \in [Slots -> Int]
    BY <1>0, <2>1 DEF QueueRecord
  <2>4. QED
    BY <1>0, <2>1, <2>2, <2>3 DEF QueueRecord
<1>2. q.tail_index % QueueCapacity \in Slots
  BY <1>0, IndexInRing
<1>3. q.tail_index % QueueCapacity \in Int /\ q.tail_index % QueueCapacity # NoSlot
  BY <1>2, CapacityAssumption DEF Slots, NoSlot
<1>4. RingInv(p, q.tail_index % QueueCapacity)
  BY <1>0, <1>1, <1>3, CapacityAssumption DEF RingInv
<1>5. QED
  BY <1>1, <1>4 DEF Waiting

Stored(queue, at, w) == [queue EXCEPT !.items[at] = w, !.used_items = @ + 1]

LEMMA RingStores ==
  ASSUME NEW q, NEW at, RingInv(q, at), at # NoSlot, NEW w \in Int,
         NEW p, p = Stored(q, at, w)
  PROVE  RingInv(p, NoSlot) /\ Waiting(p) = Append(Waiting(q), w)
<1> DEFINE h == q.head_index
           n == q.used_items
<1>1. /\ q \in QueueRecord /\ q.items \in [Slots -> Int] /\ h \in Nat /\ n \in Nat
      /\ q.tail_index \in Nat /\ q.free_items \in Nat
      /\ n + q.free_items + 1 = QueueCapacity
      /\ q.tail_index = h + n + 1 /\ at = (h + n) % QueueCapacity
  BY DEF RingInv, QueueRecord
<1>2. at \in Slots
  BY <1>1, IndexInRing
<1>3. /\ p.items = [q.items EXCEPT ![at] = w] /\ p.used_items = n + 1 /\ p.head_index = h
      /\ p.tail_index = q.tail_index /\ p.free_items = q.free_items
      /\ p \in QueueRecord
  <2>1. [q.items EXCEPT ![at] = w] \in [Slots -> Int] /\ n + 1 \in Nat
    BY <1>1, <1>2
  <2>2. /\ p.items = [q.items EXCEPT ![at] = w] /\ p.used_items = n + 1 /\ p.head_index = h
        /\ p.tail_index = q.tail_index /\ p.free_items = q.free_items
    BY <1>1 DEF QueueRecord, Stored
  <2>3. p = [items |-> p.items, head_index |-> h, tail_index |-> q.tail_index,
             used_items |-> n + 1, free_items |-> q.free_items]
    BY <1>1, <2>2 DEF QueueRecord, Stored
  <2>4. QED
    BY <1>1, <2>1, <2>2, <2>3 DEF QueueRecord
<1>4. RingInv(p, NoSlot)
  BY <1>1, <1>3 DEF RingInv, NoSlot
<1>5. /\ Waiting(p) \in Seq(Int) /\ Len(Waiting(p)) = n + 1
      /\ \A i \in 1 .. n + 1 : Waiting(p)[i] = p.items[(h + i - 1) % QueueCapacity]
      /\ Waiting(q) \in Seq(Int) /\ Len(Waiting(q)) = n
      /\ \A i \in 1 .. n : /\ Waiting(q)[i] = q.items[(h + i - 1) % QueueCapacity]
                           /\ (h + i - 1) % QueueCapacity \in Slots
  <2>1. /\ Waiting(p) \in Seq(Int) /\ Len(Waiting(p)) = p.used_items
        /\ \A i \in 1 .. p.used_items :
             Waiting(p)[i] = p.items[(p.head_index + i - 1) % QueueCapacity]
    BY <1>3, WaitingFacts
  <2>2. /\ Waiting(q) \in Seq(Int) /\ Len(Waiting(q)) = n
        /\ \A i \in 1 .. n : /\ Waiting(q)[i] = q.items[(h + i - 1) % QueueCapacity]
                             /\ (h + i - 1) % QueueCapacity \in Slots
    BY <1>1, WaitingFacts
  <2>3. QED
    BY <1>3, <2>1, <2>2
<1>6. /\ Append(Waiting(q), w) \in Seq(Int) /\ Len(Append(Waiting(q), w)) = n + 1
      /\ \A i \in 1 .. n : Append(Waiting(q), w)[i] = Waiting(q)[i]
      /\ Append(Waiting(q), w)[n + 1] = w
  BY <1>5, AppendProperties
<1>7. ASSUME NEW i \in 1 .. n + 1 PROVE Waiting(p)[i] = Append(Waiting(q), w)[i]
  <2>1. CASE i = n + 1
    <3>1. Waiting(p)[i] = p.items[(h + i - 1) % QueueCapacity]
      BY <1>5
    <3>2. h + i - 1 = h + n
      BY <1>1, <2>1
    <3>3. p.items[at] = w
      BY <1>1, <1>2, <1>3
    <3>4. QED
      BY <1>1, <1>6, <2>1, <3>1, <3>2, <3>3
  <2>2. CASE i # n + 1
    <3>1. i \in 1 .. n
      BY <1>1, <2>2
    <3>2. /\ h + i - 1 \in Nat /\ h + n \in Nat /\ h + i - 1 < h + n
          /\ (h + n) - (h + i - 1) < QueueCapacity
      BY <1>1, <3>1, CapacityAssumption
    <3>3. (h + i - 1) % QueueCapacity # at
      BY <1>1, <3>2, DistinctSlots
    <3>4. p.items[(h + i - 1) % QueueCapacity] = q.items[(h + i - 1) % QueueCapacity]
      BY <1>1, <1>3, <1>5, <3>1, <3>3
    <3>5. QED
      BY <1>5, <1>6, <3>1, <3>4
  <2>3. QED
    BY <2>1, <2>2
<1>8. Waiting(p) = Append(Waiting(q), w)
  <2> HIDE DEF n
  <2>1. QED
    BY <1>5, <1>6, <1>7, SeqEqual
<1>9. QED
  BY <1>4, <1>8

LEMMA RingPops ==
  ASSUME NEW q, NEW at, RingInv(q, at), q.used_items > 0,
         NEW p, p = [q EXCEPT !.used_items = @ - 1, !.head_index = @ + 1, !.free_items = @ + 1]
  PROVE  /\ RingInv(p, at) /\ Waiting(q) # <<>> /\ Waiting(p) = Tail(Waiting(q))
         /\ Head(Waiting(q)) = q.items[q.head_index % QueueCapacity]
<1> DEFINE h == q.head_index
           n == q.used_items
           W == Waiting(q)
<1>1. /\ q \in QueueRecord /\ q.items \in [Slots -> Int] /\ h \in Nat /\ n \in Nat \ {0}
      /\ q.tail_index \in Nat /\ q.free_items \in Nat
  BY DEF RingInv, QueueRecord
<1>2. /\ p \in QueueRecord /\ p.items = q.items /\ p.used_items = n - 1 /\ p.head_index = h + 1
      /\ p.tail_index = q.tail_index /\ p.free_items = q.free_items + 1
  <2>1. /\ p.items = q.items /\ p.used_items = n - 1 /\ p.head_index = h + 1
        /\ p.tail_index = q.tail_index /\ p.free_items = q.free_items + 1
    BY <1>1 DEF QueueRecord
  <2>2. p = [items |-> q.items, head_index |-> p.head_index, tail_index |-> q.tail_index,
             used_items |-> p.used_items, free_items |-> p.free_items]
    BY <1>1, <2>1 DEF QueueRecord
  <2>3. p.head_index \in Nat /\ p.used_items \in Nat /\ p.free_items \in Nat
    BY <1>1, <2>1
  <2>4. QED
    BY <1>1, <2>1, <2>2, <2>3 DEF QueueRecord
<1>3. RingInv(p, at)
  <2>1. (h + 1) + (n - 1) = h + n
    BY <1>1
  <2>2. QED
    BY <1>1, <1>2, <2>1 DEF RingInv
<1>4. /\ W \in Seq(Int) /\ Len(W) = n
      /\ \A i \in 1 .. n : W[i] = q.items[(h + i - 1) % QueueCapacity]
      /\ Waiting(p) \in Seq(Int) /\ Len(Waiting(p)) = n - 1
      /\ \A i \in 1 .. n - 1 : Waiting(p)[i] = q.items[((h + 1) + i - 1) % QueueCapacity]
  BY <1>1, <1>2, WaitingFacts
<1>5. W # <<>>
  BY <1>1, <1>4, EmptySeq
<1> HIDE DEF W
<1>6. /\ Tail(W) \in Seq(Int) /\ Len(Tail(W)) = n - 1 /\ Head(W) = W[1]
      /\ \A i \in 1 .. n - 1 : Tail(W)[i] = W[i + 1]
  BY <1>4, <1>5, TailFacts
<1>7. ASSUME NEW i \in 1 .. n - 1 PROVE Waiting(p)[i] = Tail(W)[i]
  <2>1. i + 1 \in 1 .. n /\ (h + 1) + i - 1 = h + (i + 1) - 1
    BY <1>1
  <2>2. QED
    BY <1>4, <1>6, <2>1
<1>8. Waiting(p) = Tail(W)
  <2> HIDE DEF n
  <2>1. QED
    BY <1>4, <1>6, <1>7, SeqEqual
<1>9. Head(W) = q.items[h % QueueCapacity]
  <2>1. 1 \in 1 .. n /\ h + 1 - 1 = h
    BY <1>1
  <2>2. QED
    BY <1>4, <1>6, <2>1
<1>10. QED
  BY <1>3, <1>5, <1>8, <1>9 DEF W

-----------------------------------------------------------------------------
(* What pushing, popping and the NULL do to StopInv.                       *)
LEMMA StopPush ==
  ASSUME NEW S, NEW q \in Seq(S), NEW x \in S, x # Null, NEW thread,
         StopInv(q, thread, FALSE)
  PROVE  StopInv(Append(q, x), thread, FALSE)
  BY AppendFacts DEF StopInv

LEMMA StopTells ==
  ASSUME NEW S, NEW q \in Seq(S), Null \in S, NEW thread, StopInv(q, thread, FALSE)
  PROVE  StopInv(Append(q, Null), thread, TRUE)
<1>1. /\ Append(q, Null) # <<>>
      /\ \A i \in DOMAIN Append(q, Null) :
           IF i = Len(Append(q, Null)) THEN Append(q, Null)[i] = Null
           ELSE Append(q, Null)[i] \in Entries(q)
  BY AppendFacts
<1>2. Null \notin Entries(q) /\ thread.pc # "exited"
  BY DEF StopInv
<1>3. QED
  BY <1>1, <1>2 DEF StopInv

LEMMA StopPop ==
  ASSUME NEW S, NEW q \in Seq(S), q # <<>>, NEW thread, NEW next, NEW told \in BOOLEAN,
         StopInv(q, thread, told), next.pc = "exited" <=> Head(q) = Null
  PROVE  StopInv(Tail(q), next, told)
<1>1. /\ Len(q) \in Nat \ {0} /\ DOMAIN q = 1 .. Len(q) /\ Tail(q) \in Seq(S)
      /\ DOMAIN Tail(q) = 1 .. Len(q) - 1 /\ Len(Tail(q)) = Len(q) - 1 /\ Head(q) = q[1]
      /\ \A i \in DOMAIN Tail(q) : Tail(q)[i] = q[i + 1]
      /\ Entries(q) = Entries(Tail(q)) \cup {Head(q)}
  BY TailFacts
<1>2. thread.pc # "exited"
  BY DEF StopInv
<1>3. CASE ~told
  BY <1>1, <1>2, <1>3 DEF StopInv
<1>4. CASE told
  <2>1. \A i \in DOMAIN q : q[i] = Null <=> i = Len(q)
    BY <1>2, <1>4 DEF StopInv
  <2>2. CASE Head(q) = Null
    <3>1. Len(q) = 1
      BY <1>1, <2>1, <2>2
    <3>2. Tail(q) = <<>>
      BY <1>1, <3>1, EmptySeq
    <3>3. QED
      BY <1>4, <2>2, <3>2 DEF StopInv
  <2>3. CASE Head(q) # Null
    <3>1. Len(q) # 1
      BY <1>1, <2>1, <2>3
    <3>2. Tail(q) # <<>>
      <4>1. Len(Tail(q)) # 0
        BY <1>1, <3>1
      <4>2. QED
        BY <4>1, EmptySeq
    <3>3. \A i \in DOMAIN Tail(q) : Tail(q)[i] = Null <=> i = Len(Tail(q))
      BY <1>1, <2>1
    <3>4. QED
      BY <1>4, <2>3, <3>2, <3>3 DEF StopInv
  <2>4. QED
    BY <2>2, <2>3
<1>5. QED
  BY <1>3, <1>4

LEMMA StopSame ==
  ASSUME NEW q, NEW thread, NEW next, NEW told, StopInv(q, thread, told),
         next.pc = "exited" <=> thread.pc = "exited"
  PROVE  StopInv(q, next, told)
  BY DEF StopInv

-----------------------------------------------------------------------------
(* Every step moves at most one work ("x"), to a holder ("h") or to none,  *)
(* and leaves the other works alone.                                       *)
Moves(x, h) ==
  /\ \A v \in Issued : v \in Issued' /\ work'[v].path = work[v].path
  /\ \A v \in Issued' : v # x =>
       v \in Issued /\ (work'[v].status = "issued" <=> work[v].status = "issued")
  /\ x \in Issued' => (work'[x].status = "issued" <=> h \in Holder)
  /\ \A v \in Issued', k \in Holder : Has(k, v)' <=> IF v = x THEN k = h ELSE Has(k, v)

LEMMA MovesKeepPlaces ==
  ASSUME PlaceInv, NEW x, NEW h, Moves(x, h), NoRepeats(files'), NoRepeats(comps')
  PROVE  PlaceInv'
<1>1. ASSUME NEW v \in Issued' PROVE work'[v].status = "issued" <=> \E k \in Holder : Has(k, v)'
  BY <1>1 DEF Moves, PlaceInv, HolderInv
<1>2. ASSUME NEW v \in Issued', NEW g \in Holder, NEW k \in Holder, Has(g, v)', Has(k, v)'
      PROVE  g = k
  BY <1>2 DEF Moves, PlaceInv, HolderInv
<1>3. HolderInv'
  BY <1>1, <1>2 DEF HolderInv
<1>4. QED
  BY <1>3 DEF PlaceInv

LEMMA MovesKeepKinds ==
  ASSUME KindInv, NEW x, NEW h, Moves(x, h),
         h \in {"comp_queue", "comp"} /\ x \in Issued' => work'[x].path \in CompressedPath,
         (file_thread.pc = "push" => Compressed(file_thread.work))',
         (client.pc = "push_comp" => Compressed(client.work))'
  PROVE  KindInv'
<1>1. ASSUME NEW v \in Issued', Has("comp_queue", v)' \/ Has("comp", v)' PROVE Compressed(v)'
  <2>1. CASE v = x
    BY <1>1, <2>1 DEF Moves, Holder, Compressed
  <2>2. CASE v # x
    <3>1. v \in Issued /\ (Has("comp_queue", v) \/ Has("comp", v))
      BY <1>1, <2>2 DEF Moves, Holder
    <3>2. QED
      BY <3>1 DEF Moves, KindInv, Compressed
  <2>3. QED
    BY <2>1, <2>2
<1>2. QED
  BY <1>1 DEF KindInv

LEMMA MovesKeepClosing ==
  ASSUME PlaceInv, ClosingInv, NEW x, NEW h, Moves(x, h),
         client'.pc \in Stopping => client.pc \in Stopping \/ \A w \in Undone : ~Compressed(w),
         client'.pc \in Stopping /\ x \in Issued' /\ h \in Holder => x \in Undone,
         StopInv(files', file_thread', FileTold'),
         StopInv(comps', comp_thread', CompTold'),
         client'.pc \in {"join_comp", "closed"} => file_thread'.pc = "exited",
         client'.pc = "closed" => comp_thread'.pc = "exited"
  PROVE  ClosingInv'
<1>1. ASSUME client'.pc \in Stopping, NEW v \in Undone' PROVE ~Compressed(v)'
  <2>1. v \in Undone
    BY <1>1 DEF Moves, Undone
  <2>2. ~Compressed(v)
    BY <1>1, <2>1 DEF ClosingInv
  <2>3. QED
    BY <2>1, <2>2 DEF Moves, Compressed, Undone
<1>2. QED
  BY <1>1 DEF ClosingInv

(* What the invariant says of the works in queues and in hands.            *)
LEMMA InHand ==
  ASSUME IInv
  PROVE  /\ Issued = 1 .. Len(work) /\ Len(work) \in Nat /\ Null \notin Issued
         /\ \A w \in Ref : w # Null => w \in Issued
         /\ Null \in Ref
         /\ Entries(files) \subseteq Ref /\ Entries(comps) \subseteq Ref
         /\ \A w \in Issued : \A h \in Holder : Has(h, w) => w \in Undone
         /\ \A w \in Issued : work[w] \in WorkRecord
         /\ file_thread.pc \in {"run", "push"} =>
              file_thread.work \in Issued /\ Has("file", file_thread.work)
         /\ comp_thread.pc \in {"run", "push"} =>
              /\ comp_thread.work \in Issued /\ Has("comp", comp_thread.work)
              /\ Compressed(comp_thread.work) /\ client.pc \notin Stopping
         /\ client.pc \in {"push_file", "push_comp"} =>
              client.work \in Issued /\ Has("client", client.work)
         /\ file_thread.pc = "push" => client.pc \notin Stopping
<1>1. Issued = 1 .. Len(work) /\ Len(work) \in Nat /\ \A w \in Issued : work[w] \in WorkRecord
  BY LenProperties DEF IInv, TypeInv, WorkType, Issued
<1>2. /\ Null \notin Issued /\ Null \in Ref /\ \A w \in Ref : w # Null => w \in Issued
  BY <1>1 DEF Null, Ref
<1>3. Entries(files) \subseteq Ref /\ Entries(comps) \subseteq Ref
  BY QueueFacts DEF IInv, TypeInv, QueueType
<1>4. \A w \in Issued : \A h \in Holder : Has(h, w) => w \in Undone
  BY DEF IInv, PlaceInv, HolderInv, Undone
<1>5. file_thread.pc \in {"run", "push"} =>
        file_thread.work \in Issued /\ Has("file", file_thread.work)
  BY <1>2 DEF IInv, TypeInv, ThreadType, Has
<1>6. comp_thread.pc \in {"run", "push"} =>
        /\ comp_thread.work \in Issued /\ Has("comp", comp_thread.work)
        /\ Compressed(comp_thread.work) /\ client.pc \notin Stopping
  <2> SUFFICES ASSUME comp_thread.pc \in {"run", "push"}
               PROVE  /\ comp_thread.work \in Issued /\ Has("comp", comp_thread.work)
                      /\ Compressed(comp_thread.work) /\ client.pc \notin Stopping
    OBVIOUS
  <2>1. comp_thread.work \in Issued /\ Has("comp", comp_thread.work)
    BY <1>2 DEF IInv, TypeInv, ThreadType, Has
  <2>2. Compressed(comp_thread.work) /\ comp_thread.work \in Undone
    BY <1>4, <2>1 DEF IInv, KindInv, Holder
  <2>3. QED
    BY <2>1, <2>2 DEF IInv, ClosingInv
<1>7. client.pc \in {"push_file", "push_comp"} =>
        client.work \in Issued /\ Has("client", client.work)
  BY <1>2 DEF IInv, TypeInv, ClientType, Has
<1>8. file_thread.pc = "push" => client.pc \notin Stopping
  BY <1>4, <1>5 DEF IInv, KindInv, ClosingInv, Holder
<1>9. QED
  BY <1>1, <1>2, <1>3, <1>4, <1>5, <1>6, <1>7, <1>8

-----------------------------------------------------------------------------
(* What a worker writes into a work object.                                *)
Rewritten(w) ==
  /\ work' \in Seq(WorkRecord) /\ Len(work') = Len(work) /\ Issued' = Issued
  /\ \A v \in Issued : work'[v].path = work[v].path /\ work'[v].op = work[v].op
  /\ \A v \in Issued : v # w => work'[v] = work[v]

LEMMA Rewrites ==
  ASSUME WorkType, NEW w \in Issued, NEW r \in WorkRecord, r.path = work[w].path,
         r.op = work[w].op, work' = [work EXCEPT ![w] = r]
  PROVE  Rewritten(w) /\ work'[w] = r
<1>1. Issued = 1 .. Len(work)
  BY LenProperties DEF WorkType, Issued
<1>2. work' \in Seq(WorkRecord) /\ Len(work') = Len(work)
  BY <1>1, ExceptSeq DEF WorkType
<1>3. Issued' = Issued /\ work'[w] = r /\ \A v \in Issued : v # w => work'[v] = work[v]
  BY <1>1, <1>2 DEF WorkType, Issued
<1>4. QED
  BY <1>2, <1>3 DEF Rewritten

LEMMA WorkDone ==
  ASSUME WorkType, NEW w \in Issued,
         \/ Fails(w)
         \/ \E payload \in Int : Succeeds(w, payload)
         \/ work' = [work EXCEPT ![w].status = "freed"]
  PROVE  Rewritten(w) /\ work'[w].status # "issued"
<1>1. work[w] \in WorkRecord /\ work \in [Issued -> WorkRecord]
  BY LenProperties DEF WorkType, Issued
<1>2. CASE Fails(w)
  <2> DEFINE r == [work[w] EXCEPT !.result = "error", !.status = "done"]
  <2>1. r \in WorkRecord /\ r.path = work[w].path /\ r.op = work[w].op /\ r.status = "done"
    BY <1>1 DEF WorkRecord
  <2>2. work' = [work EXCEPT ![w] = r]
    BY <1>1, <1>2 DEF Fails
  <2>3. QED
    BY <2>1, <2>2, Rewrites
<1>3. ASSUME NEW payload \in Int, Succeeds(w, payload)
      PROVE  Rewritten(w) /\ work'[w].status # "issued"
  <2> DEFINE r == [work[w] EXCEPT !.payload = payload, !.status = "done"]
  <2>1. r \in WorkRecord /\ r.path = work[w].path /\ r.op = work[w].op /\ r.status = "done"
    BY <1>1 DEF WorkRecord
  <2>2. work' = [work EXCEPT ![w] = r]
    BY <1>1, <1>3 DEF Succeeds
  <2>3. QED
    BY <2>1, <2>2, Rewrites
<1>4. CASE work' = [work EXCEPT ![w].status = "freed"]
  <2> DEFINE r == [work[w] EXCEPT !.status = "freed"]
  <2>1. r \in WorkRecord /\ r.path = work[w].path /\ r.op = work[w].op /\ r.status = "freed"
    BY <1>1 DEF WorkRecord
  <2>2. work' = [work EXCEPT ![w] = r]
    BY <1>1, <1>4
  <2>3. QED
    BY <2>1, <2>2, Rewrites
<1>5. QED
  BY <1>2, <1>3, <1>4

LEMMA WorkInHand ==
  ASSUME WorkType, NEW w \in Issued, NEW payload \in Int, StillInHand(w, payload)
  PROVE  Rewritten(w) /\ work'[w].status = work[w].status
<1>1. work[w] \in WorkRecord /\ work \in [Issued -> WorkRecord]
  BY LenProperties DEF WorkType, Issued
<1> DEFINE r == [work[w] EXCEPT !.payload = payload]
<1>2. /\ r \in WorkRecord /\ r.path = work[w].path /\ r.op = work[w].op
      /\ r.status = work[w].status
  BY <1>1 DEF WorkRecord
<1>3. work' = [work EXCEPT ![w] = r]
  BY <1>1 DEF StillInHand
<1>4. QED
  BY <1>2, <1>3, Rewrites

LEMMA StepKeeps ==
  ASSUME IInv, TypeInv', NEW x, NEW h, Moves(x, h),
         NoRepeats(files'), NoRepeats(comps'),
         h \in {"comp_queue", "comp"} /\ x \in Issued' => work'[x].path \in CompressedPath,
         (file_thread.pc = "push" => Compressed(file_thread.work))',
         (client.pc = "push_comp" => Compressed(client.work))',
         client'.pc \in Stopping => client.pc \in Stopping \/ \A w \in Undone : ~Compressed(w),
         client'.pc \in Stopping /\ x \in Issued' /\ h \in Holder => x \in Undone,
         StopInv(files', file_thread', FileTold'),
         StopInv(comps', comp_thread', CompTold'),
         client'.pc \in {"join_comp", "closed"} => file_thread'.pc = "exited",
         client'.pc = "closed" => comp_thread'.pc = "exited"
  PROVE  IInv'
<1>1. PlaceInv /\ KindInv /\ ClosingInv
  BY DEF IInv
<1>2. PlaceInv' /\ KindInv'
  BY <1>1, MovesKeepPlaces, MovesKeepKinds
<1>3. ClosingInv'
  BY <1>1, MovesKeepClosing
<1>4. QED
  BY <1>2, <1>3 DEF IInv

(* The parts of the invariant, as the steps below use them.                *)
LEMMA Parts ==
  ASSUME IInv
  PROVE  /\ WorkType /\ QueueType /\ ThreadType(file_thread) /\ ThreadType(comp_thread)
         /\ ClientType /\ NoRepeats(files) /\ NoRepeats(comps)
         /\ file_thread.pc = "push" => Compressed(file_thread.work)
         /\ client.pc = "push_comp" => Compressed(client.work)
         /\ StopInv(files, file_thread, FileTold)
         /\ StopInv(comps, comp_thread, CompTold)
         /\ client.pc \in {"join_comp", "closed"} => file_thread.pc = "exited"
         /\ client.pc = "closed" => comp_thread.pc = "exited"
  BY DEF IInv, TypeInv, PlaceInv, KindInv, ClosingInv

-----------------------------------------------------------------------------
(* Who has claimed a slot of each queue.  Taking turns keeps the client    *)
(* and the worker at a queue's other end from pushing to it together.      *)
FileAt == IF client.pc \in {"push_file", "stop_file"} THEN client.at
          ELSE IF comp_thread.pc = "push" THEN comp_thread.at ELSE NoSlot
CompAt == IF client.pc \in {"push_comp", "stop_comp"} THEN client.at
          ELSE IF file_thread.pc = "push" THEN file_thread.at ELSE NoSlot

RingsInv == RingInv(file_queue, FileAt) /\ RingInv(comp_queue, CompAt)

TurnsInv ==
  /\ file_thread.pc = "push" => Op(file_thread.work) = "read"
  /\ comp_thread.pc = "push" => Op(comp_thread.work) = "write"
  /\ client.pc = "push_file" => CompressedAll("read")
  /\ client.pc = "push_comp" => CompressedAll("write")

(* What the steps do to the queues, seen as FIFOs.                         *)
Effect ==
  /\ file_queue' = file_queue => files' = files
  /\ comp_queue' = comp_queue => comps' = comps
  /\ PushFile \/ PushStopFile => files' = Append(files, client.work)
  /\ PushComp \/ PushStopComp => comps' = Append(comps, client.work)
  /\ FilePush => comps' = Append(comps, file_thread.work)
  /\ CompPush => files' = Append(files, comp_thread.work)
  /\ FilePop => files # <<>> /\ files' = Tail(files) /\ file_thread' \in Takes(Head(files))
  /\ CompPop => comps # <<>> /\ comps' = Tail(comps) /\ comp_thread' \in Takes(Head(comps))
  /\ ClaimFile \/ ClaimComp \/ FileClaim \/ CompClaim => UNCHANGED <<files, comps>>
  /\ ClaimFile \/ ClaimComp => \E i \in Int : client' = [client EXCEPT !.at = i]
  /\ FileClaim => \E i \in Int : file_thread' = [file_thread EXCEPT !.at = i]
  /\ CompClaim => \E i \in Int : comp_thread' = [comp_thread EXCEPT !.at = i]

LEMMA Lone ==
  ASSUME IInv, TurnsInv
  PROVE  /\ client.pc \in {"push_file", "stop_file"} => comp_thread.pc # "push"
         /\ client.pc \in {"push_comp", "stop_comp"} => file_thread.pc # "push"
<1>1. comp_thread.pc = "push" =>
        /\ comp_thread.work \in Undone /\ Compressed(comp_thread.work)
        /\ Op(comp_thread.work) = "write" /\ client.pc \notin Stopping
  BY InHand DEF TurnsInv, Holder
<1>2. file_thread.pc = "push" =>
        /\ file_thread.work \in Undone /\ Compressed(file_thread.work)
        /\ Op(file_thread.work) = "read" /\ client.pc \notin Stopping
  BY InHand, Parts DEF TurnsInv, Holder
<1>3. QED
  BY <1>1, <1>2 DEF TurnsInv, CompressedAll, Stopping

(* Claims.                                                                 *)
LEMMA ClaimFileRing ==
  ASSUME IInv, TurnsInv, RingsInv, ClaimFile
  PROVE  /\ RingsInv' /\ UNCHANGED <<files, comps>>
         /\ \E i \in Int : client' = [client EXCEPT !.at = i]
<1> DEFINE i == file_queue.tail_index % QueueCapacity
<1>1. /\ client.pc \in {"push_file", "stop_file"} /\ client.at = NoSlot /\ FileAt = NoSlot
      /\ file_queue.free_items > 0
      /\ file_queue' = [file_queue EXCEPT !.free_items = @ - 1, !.tail_index = @ + 1]
      /\ client' = [client EXCEPT !.at = i]
      /\ UNCHANGED <<comp_queue, file_thread, comp_thread>>
  BY DEF ClaimFile, Claim, FileAt
<1>2. client \in [pc : ClientPc, work : Ref, at : Int]
  BY Parts DEF ClientType
<1>3. RingInv(file_queue', i) /\ files' = files /\ i \in Int
  <2>1. RingInv(file_queue, NoSlot)
    BY <1>1 DEF RingsInv
  <2>2. RingInv(file_queue', i) /\ Waiting(file_queue') = Waiting(file_queue)
    BY <1>1, <2>1, RingClaims
  <2>3. QED
    BY <2>2 DEF RingInv, files
<1> HIDE DEF i
<1>4. client'.pc = client.pc /\ client'.at = i
  BY <1>1, <1>2
<1>5. FileAt' = i /\ CompAt' = CompAt /\ comps' = comps
  BY <1>1, <1>4 DEF FileAt, CompAt, comps
<1>6. QED
  BY <1>1, <1>3, <1>5 DEF RingsInv

LEMMA ClaimCompRing ==
  ASSUME IInv, TurnsInv, RingsInv, ClaimComp
  PROVE  /\ RingsInv' /\ UNCHANGED <<files, comps>>
         /\ \E i \in Int : client' = [client EXCEPT !.at = i]
<1> DEFINE i == comp_queue.tail_index % QueueCapacity
<1>1. /\ client.pc \in {"push_comp", "stop_comp"} /\ client.at = NoSlot /\ CompAt = NoSlot
      /\ comp_queue.free_items > 0
      /\ comp_queue' = [comp_queue EXCEPT !.free_items = @ - 1, !.tail_index = @ + 1]
      /\ client' = [client EXCEPT !.at = i]
      /\ UNCHANGED <<file_queue, file_thread, comp_thread>>
  BY DEF ClaimComp, Claim, CompAt
<1>2. client \in [pc : ClientPc, work : Ref, at : Int]
  BY Parts DEF ClientType
<1>3. RingInv(comp_queue', i) /\ comps' = comps /\ i \in Int
  <2>1. RingInv(comp_queue, NoSlot)
    BY <1>1 DEF RingsInv
  <2>2. RingInv(comp_queue', i) /\ Waiting(comp_queue') = Waiting(comp_queue)
    BY <1>1, <2>1, RingClaims
  <2>3. QED
    BY <2>2 DEF RingInv, comps
<1> HIDE DEF i
<1>4. client'.pc = client.pc /\ client'.at = i
  BY <1>1, <1>2
<1>5. CompAt' = i /\ FileAt' = FileAt /\ files' = files
  BY <1>1, <1>4 DEF FileAt, CompAt, files
<1>6. QED
  BY <1>1, <1>3, <1>5 DEF RingsInv

LEMMA FileClaimRing ==
  ASSUME IInv, TurnsInv, RingsInv, FileClaim
  PROVE  /\ RingsInv' /\ UNCHANGED <<files, comps>>
         /\ \E i \in Int : file_thread' = [file_thread EXCEPT !.at = i]
<1> DEFINE i == comp_queue.tail_index % QueueCapacity
<1>1. /\ file_thread.pc = "push" /\ file_thread.at = NoSlot /\ CompAt = NoSlot
      /\ comp_queue.free_items > 0
      /\ comp_queue' = [comp_queue EXCEPT !.free_items = @ - 1, !.tail_index = @ + 1]
      /\ file_thread' = [file_thread EXCEPT !.at = i]
      /\ UNCHANGED <<file_queue, client, comp_thread>>
  BY Lone DEF FileClaim, Claim, CompAt
<1>2. file_thread \in [pc : {"ready", "run", "push", "exited"}, work : Ref, at : Int]
  BY Parts DEF ThreadType
<1>3. RingInv(comp_queue', i) /\ comps' = comps /\ i \in Int
  <2>1. RingInv(comp_queue, NoSlot)
    BY <1>1 DEF RingsInv
  <2>2. RingInv(comp_queue', i) /\ Waiting(comp_queue') = Waiting(comp_queue)
    BY <1>1, <2>1, RingClaims
  <2>3. QED
    BY <2>2 DEF RingInv, comps
<1> HIDE DEF i
<1>4. file_thread'.pc = file_thread.pc /\ file_thread'.at = i
  BY <1>1, <1>2
<1>5. CompAt' = i /\ FileAt' = FileAt /\ files' = files
  BY <1>1, <1>4, Lone DEF FileAt, CompAt, files
<1>6. QED
  BY <1>1, <1>3, <1>5 DEF RingsInv

LEMMA CompClaimRing ==
  ASSUME IInv, TurnsInv, RingsInv, CompClaim
  PROVE  /\ RingsInv' /\ UNCHANGED <<files, comps>>
         /\ \E i \in Int : comp_thread' = [comp_thread EXCEPT !.at = i]
<1> DEFINE i == file_queue.tail_index % QueueCapacity
<1>1. /\ comp_thread.pc = "push" /\ comp_thread.at = NoSlot /\ FileAt = NoSlot
      /\ file_queue.free_items > 0
      /\ file_queue' = [file_queue EXCEPT !.free_items = @ - 1, !.tail_index = @ + 1]
      /\ comp_thread' = [comp_thread EXCEPT !.at = i]
      /\ UNCHANGED <<comp_queue, client, file_thread>>
  BY Lone DEF CompClaim, Claim, FileAt
<1>2. comp_thread \in [pc : {"ready", "run", "push", "exited"}, work : Ref, at : Int]
  BY Parts DEF ThreadType
<1>3. RingInv(file_queue', i) /\ files' = files /\ i \in Int
  <2>1. RingInv(file_queue, NoSlot)
    BY <1>1 DEF RingsInv
  <2>2. RingInv(file_queue', i) /\ Waiting(file_queue') = Waiting(file_queue)
    BY <1>1, <2>1, RingClaims
  <2>3. QED
    BY <2>2 DEF RingInv, files
<1> HIDE DEF i
<1>4. comp_thread'.pc = comp_thread.pc /\ comp_thread'.at = i
  BY <1>1, <1>2
<1>5. FileAt' = i /\ CompAt' = CompAt /\ comps' = comps
  BY <1>1, <1>4, Lone DEF FileAt, CompAt, comps
<1>6. QED
  BY <1>1, <1>3, <1>5 DEF RingsInv

(* Stores.                                                                 *)
LEMMA ClientStoresFile ==
  ASSUME IInv, TurnsInv, RingsInv, PushFile \/ PushStopFile
  PROVE  RingsInv' /\ files' = Append(files, client.work) /\ comps' = comps
<1>1. /\ client.pc \in {"push_file", "stop_file"} /\ client.at # NoSlot /\ FileAt = client.at
      /\ file_queue' = Stored(file_queue, client.at, client.work)
      /\ client'.at = NoSlot /\ client'.pc \in {"ready", "stop_comp"}
      /\ UNCHANGED <<comp_queue, file_thread, comp_thread>>
  BY Lone DEF PushFile, PushStopFile, Store, Stored, FileAt, Ready, Doing
<1>2. client.work \in Int
  BY InHand, Parts DEF ClientType, Ref
<1>3. RingInv(file_queue', NoSlot) /\ files' = Append(files, client.work)
  <2>1. RingInv(file_queue, client.at)
    BY <1>1 DEF RingsInv
  <2>2. RingInv(file_queue', NoSlot) /\ Waiting(file_queue') = Append(Waiting(file_queue), client.work)
    BY <1>1, <1>2, <2>1, RingStores
  <2>3. QED
    BY <2>2 DEF files
<1>4. FileAt' = NoSlot /\ CompAt' = CompAt /\ comps' = comps
  <2>1. client.pc # "push_comp" /\ client.pc # "stop_comp" /\ comp_thread.pc # "push"
    BY <1>1, Lone
  <2>2. comps' = comps
    BY <1>1 DEF comps
  <2>3. FileAt' = NoSlot
    BY <1>1, <2>1 DEF FileAt
  <2>4. CompAt' = CompAt
    <3>1. client'.pc = "stop_comp" => file_thread.pc # "push"
      <4>1. client'.pc = "stop_comp" => client.pc \in Stopping
        BY DEF PushFile, PushStopFile, Ready, Doing, Stopping
      <4>2. QED
        BY <4>1, InHand
    <3>2. QED
      BY <1>1, <2>1, <3>1 DEF CompAt
  <2>5. QED
    BY <2>2, <2>3, <2>4
<1>5. QED
  BY <1>1, <1>3, <1>4 DEF RingsInv

LEMMA ClientStoresComp ==
  ASSUME IInv, TurnsInv, RingsInv, PushComp \/ PushStopComp
  PROVE  RingsInv' /\ comps' = Append(comps, client.work) /\ files' = files
<1>1. /\ client.pc \in {"push_comp", "stop_comp"} /\ client.at # NoSlot /\ CompAt = client.at
      /\ comp_queue' = Stored(comp_queue, client.at, client.work)
      /\ client'.at = NoSlot /\ client'.pc \in {"ready", "join_file"}
      /\ UNCHANGED <<file_queue, file_thread, comp_thread>>
  BY Lone DEF PushComp, PushStopComp, Store, Stored, CompAt, Ready, Doing
<1>2. client.work \in Int
  BY InHand, Parts DEF ClientType, Ref
<1>3. RingInv(comp_queue', NoSlot) /\ comps' = Append(comps, client.work)
  <2>1. RingInv(comp_queue, client.at)
    BY <1>1 DEF RingsInv
  <2>2. RingInv(comp_queue', NoSlot) /\ Waiting(comp_queue') = Append(Waiting(comp_queue), client.work)
    BY <1>1, <1>2, <2>1, RingStores
  <2>3. QED
    BY <2>2 DEF comps
<1>4. CompAt' = NoSlot /\ FileAt' = FileAt /\ files' = files
  BY <1>1, Lone DEF FileAt, CompAt, files
<1>5. QED
  BY <1>1, <1>3, <1>4 DEF RingsInv

LEMMA FileStores ==
  ASSUME IInv, TurnsInv, RingsInv, FilePush
  PROVE  RingsInv' /\ comps' = Append(comps, file_thread.work) /\ files' = files
<1>1. /\ file_thread.pc = "push" /\ file_thread.at # NoSlot /\ CompAt = file_thread.at
      /\ comp_queue' = Stored(comp_queue, file_thread.at, file_thread.work)
      /\ file_thread'.at = NoSlot /\ file_thread'.pc = "ready"
      /\ UNCHANGED <<file_queue, client, comp_thread>>
  BY Lone DEF FilePush, Store, Stored, CompAt, Ready, Doing
<1>2. file_thread.work \in Int
  BY InHand, Parts DEF ThreadType, Ref
<1>3. RingInv(comp_queue', NoSlot) /\ comps' = Append(comps, file_thread.work)
  <2>1. RingInv(comp_queue, file_thread.at)
    BY <1>1 DEF RingsInv
  <2>2. RingInv(comp_queue', NoSlot) /\ Waiting(comp_queue') = Append(Waiting(comp_queue), file_thread.work)
    BY <1>1, <1>2, <2>1, RingStores
  <2>3. QED
    BY <2>2 DEF comps
<1>4. CompAt' = NoSlot /\ FileAt' = FileAt /\ files' = files
  BY <1>1, Lone DEF FileAt, CompAt, files
<1>5. QED
  BY <1>1, <1>3, <1>4 DEF RingsInv

LEMMA CompStores ==
  ASSUME IInv, TurnsInv, RingsInv, CompPush
  PROVE  RingsInv' /\ files' = Append(files, comp_thread.work) /\ comps' = comps
<1>1. /\ comp_thread.pc = "push" /\ comp_thread.at # NoSlot /\ FileAt = comp_thread.at
      /\ file_queue' = Stored(file_queue, comp_thread.at, comp_thread.work)
      /\ comp_thread'.at = NoSlot /\ comp_thread'.pc = "ready"
      /\ UNCHANGED <<comp_queue, client, file_thread>>
  BY Lone DEF CompPush, Store, Stored, FileAt, Ready, Doing
<1>2. comp_thread.work \in Int
  BY InHand, Parts DEF ThreadType, Ref
<1>3. RingInv(file_queue', NoSlot) /\ files' = Append(files, comp_thread.work)
  <2>1. RingInv(file_queue, comp_thread.at)
    BY <1>1 DEF RingsInv
  <2>2. RingInv(file_queue', NoSlot) /\ Waiting(file_queue') = Append(Waiting(file_queue), comp_thread.work)
    BY <1>1, <1>2, <2>1, RingStores
  <2>3. QED
    BY <2>2 DEF files
<1>4. FileAt' = NoSlot /\ CompAt' = CompAt /\ comps' = comps
  BY <1>1, Lone DEF FileAt, CompAt, comps
<1>5. QED
  BY <1>1, <1>3, <1>4 DEF RingsInv

(* Pops.                                                                   *)
LEMMA FilePops ==
  ASSUME IInv, TurnsInv, RingsInv, FilePop
  PROVE  /\ RingsInv' /\ comps' = comps
         /\ files # <<>> /\ files' = Tail(files) /\ file_thread' \in Takes(Head(files))
<1>1. /\ file_thread.pc = "ready" /\ file_queue.used_items > 0
      /\ file_queue' = [file_queue EXCEPT !.used_items = @ - 1, !.head_index = @ + 1, !.free_items = @ + 1]
      /\ file_thread' \in Takes(file_queue.items[file_queue.head_index % QueueCapacity])
      /\ UNCHANGED <<comp_queue, comp_thread, client>>
  BY DEF FilePop, Pop, Ready, Doing
<1>2. file_thread'.pc # "push"
  BY <1>1 DEF Takes, Doing
<1>3. /\ RingInv(file_queue', FileAt) /\ files # <<>> /\ files' = Tail(files)
      /\ Head(files) = file_queue.items[file_queue.head_index % QueueCapacity]
  BY <1>1, RingPops DEF RingsInv, files
<1>4. FileAt' = FileAt /\ CompAt' = CompAt /\ comps' = comps
  BY <1>1, <1>2 DEF FileAt, CompAt, comps
<1>5. QED
  BY <1>1, <1>3, <1>4 DEF RingsInv

LEMMA CompPops ==
  ASSUME IInv, TurnsInv, RingsInv, CompPop
  PROVE  /\ RingsInv' /\ files' = files
         /\ comps # <<>> /\ comps' = Tail(comps) /\ comp_thread' \in Takes(Head(comps))
<1>1. /\ comp_thread.pc = "ready" /\ comp_queue.used_items > 0
      /\ comp_queue' = [comp_queue EXCEPT !.used_items = @ - 1, !.head_index = @ + 1, !.free_items = @ + 1]
      /\ comp_thread' \in Takes(comp_queue.items[comp_queue.head_index % QueueCapacity])
      /\ UNCHANGED <<file_queue, file_thread, client>>
  BY DEF CompPop, Pop, Ready, Doing
<1>2. comp_thread'.pc # "push"
  BY <1>1 DEF Takes, Doing
<1>3. /\ RingInv(comp_queue', CompAt) /\ comps # <<>> /\ comps' = Tail(comps)
      /\ Head(comps) = comp_queue.items[comp_queue.head_index % QueueCapacity]
  BY <1>1, RingPops DEF RingsInv, comps
<1>4. FileAt' = FileAt /\ CompAt' = CompAt /\ files' = files
  BY <1>1, <1>2 DEF FileAt, CompAt, files
<1>5. QED
  BY <1>1, <1>3, <1>4 DEF RingsInv

LEMMA EffectHolds == IInv /\ TurnsInv /\ RingsInv => Effect
<1> SUFFICES ASSUME IInv, TurnsInv, RingsInv PROVE Effect
  OBVIOUS
<1>1. /\ file_queue' = file_queue => files' = files
      /\ comp_queue' = comp_queue => comps' = comps
  BY DEF files, comps
<1>2. QED
  BY <1>1, ClaimFileRing, ClaimCompRing, FileClaimRing, CompClaimRing, ClientStoresFile,
     ClientStoresComp, FileStores, CompStores, FilePops, CompPops DEF Effect

(* The client's works. *)
LEMMA PushFileStep ==
  ASSUME IInv, Effect, PushFile
  PROVE  IInv'
<1> DEFINE w == client.work
<1>0. files' = Append(files, w) /\ comps' = comps
  <2>1. files' = Append(files, w)
    BY DEF Effect
  <2>2. comps' = comps
    BY DEF Effect, PushFile
  <2>3. QED
    BY <2>1, <2>2
<1>1. /\ client.pc = "push_file" /\ w \in Issued /\ w \in Ref /\ w # Null /\ w \in Undone
      /\ Has("client", w) /\ client' = [pc |-> "ready", work |-> Null, at |-> NoSlot] /\ Null \in Ref
      /\ files' = Append(files, w)
      /\ UNCHANGED <<comps, work, file_thread, comp_thread, disk, seen>>
  BY <1>0, InHand, Parts DEF PushFile, Ready, Doing, ClientType, Holder
<1>2. w \notin Entries(files)
  BY <1>1 DEF IInv, PlaceInv, HolderInv, Holder, Has
<1>3. /\ files' \in Seq(Ref) /\ Entries(files') = Entries(files) \cup {w}
      /\ NoRepeats(files')
  BY <1>1, <1>2, Parts, AppendFacts DEF QueueType
<1>4. TypeInv'
  BY <1>1, <1>3, Parts
  DEF TypeInv, WorkType, QueueType, ThreadType, ClientType, Ref, ClientPc, Stopping, NoSlot
<1>5. Moves(w, "file_queue")
  <2>1. ASSUME NEW v \in Issued, NEW k \in Holder
        PROVE  Has(k, v)' <=> IF v = w THEN k = "file_queue" ELSE Has(k, v)
    <3>1. v = w => (Has(k, v) <=> k = "client")
      BY <1>1 DEF IInv, PlaceInv, HolderInv, Holder
    <3>2. QED
      BY <1>1, <1>3, <3>1 DEF Has, Holder
  <2>2. QED
    BY <1>1, <2>1 DEF Moves, Issued, Undone, Holder
<1>6. StopInv(files', file_thread', FileTold') /\ StopInv(comps', comp_thread', CompTold')
  <2>1. ~FileTold /\ ~CompTold /\ ~FileTold' /\ ~CompTold'
    BY <1>1 DEF FileTold, CompTold, Stopping
  <2>2. StopInv(files, file_thread, FALSE) /\ StopInv(comps, comp_thread, FALSE)
    BY <2>1, Parts DEF StopInv
  <2>3. StopInv(Append(files, w), file_thread, FALSE)
    BY <1>1, <2>2, Parts, StopPush DEF QueueType
  <2>4. QED
    BY <1>1, <2>1, <2>2, <2>3 DEF StopInv
<1>7. QED
  BY <1>1, <1>3, <1>4, <1>5, <1>6, Parts, StepKeeps DEF Stopping, Compressed

LEMMA PushCompStep ==
  ASSUME IInv, Effect, PushComp
  PROVE  IInv'
<1> DEFINE w == client.work
<1>0. comps' = Append(comps, w) /\ files' = files
  <2>1. comps' = Append(comps, w)
    BY DEF Effect
  <2>2. files' = files
    BY DEF Effect, PushComp
  <2>3. QED
    BY <2>1, <2>2
<1>1. /\ client.pc = "push_comp" /\ w \in Issued /\ w \in Ref /\ w # Null /\ w \in Undone
      /\ Has("client", w) /\ client' = [pc |-> "ready", work |-> Null, at |-> NoSlot] /\ Null \in Ref
      /\ comps' = Append(comps, w) /\ Compressed(w)
      /\ UNCHANGED <<files, work, file_thread, comp_thread, disk, seen>>
  BY <1>0, InHand, Parts DEF PushComp, Ready, Doing, ClientType, Holder
<1>2. w \notin Entries(comps)
  BY <1>1 DEF IInv, PlaceInv, HolderInv, Holder, Has
<1>3. /\ comps' \in Seq(Ref) /\ Entries(comps') = Entries(comps) \cup {w}
      /\ NoRepeats(comps')
  BY <1>1, <1>2, Parts, AppendFacts DEF QueueType
<1>4. TypeInv'
  BY <1>1, <1>3, Parts
  DEF TypeInv, WorkType, QueueType, ThreadType, ClientType, Ref, ClientPc, Stopping, NoSlot
<1>5. Moves(w, "comp_queue")
  <2>1. ASSUME NEW v \in Issued, NEW k \in Holder
        PROVE  Has(k, v)' <=> IF v = w THEN k = "comp_queue" ELSE Has(k, v)
    <3>1. v = w => (Has(k, v) <=> k = "client")
      BY <1>1 DEF IInv, PlaceInv, HolderInv, Holder
    <3>2. QED
      BY <1>1, <1>3, <3>1 DEF Has, Holder
  <2>2. QED
    BY <1>1, <2>1 DEF Moves, Issued, Undone, Holder
<1>6. StopInv(files', file_thread', FileTold') /\ StopInv(comps', comp_thread', CompTold')
  <2>1. ~FileTold /\ ~CompTold /\ ~FileTold' /\ ~CompTold'
    BY <1>1 DEF FileTold, CompTold, Stopping
  <2>2. StopInv(files, file_thread, FALSE) /\ StopInv(comps, comp_thread, FALSE)
    BY <2>1, Parts DEF StopInv
  <2>3. StopInv(Append(comps, w), comp_thread, FALSE)
    BY <1>1, <2>2, Parts, StopPush DEF QueueType
  <2>4. QED
    BY <1>1, <2>1, <2>2, <2>3 DEF StopInv
<1>7. QED
  BY <1>1, <1>3, <1>4, <1>5, <1>6, Parts, StepKeeps DEF Stopping, Compressed

LEMMA NewWorkStep ==
  ASSUME IInv, Effect, (\E path \in Path : Read(path) \/ \E data \in Data : Write(path, data))
  PROVE  IInv'
<1> DEFINE w == Len(work) + 1
<1>1. PICK r \in WorkRecord, pc \in {"push_file", "push_comp"} :
        /\ client = Ready /\ client' = Doing(pc, w) /\ work' = Append(work, r)
        /\ r.status = "issued" /\ (pc = "push_comp" => r.path \in CompressedPath)
        /\ UNCHANGED <<file_queue, comp_queue, file_thread, comp_thread, disk>>
  <2>1. ASSUME NEW path \in Path, NEW op \in {"read", "write"}, NEW payload \in Int
        PROVE  [op |-> op, path |-> path, payload |-> payload, result |-> "ok",
                status |-> "issued"] \in WorkRecord
    BY DEF WorkRecord
  <2>2. Data \subseteq Int /\ NoFile \in Int
    BY BoundsAssumption DEF Data, NoFile
  <2>3. ASSUME NEW path \in Path, Read(path)
        PROVE  \E r \in WorkRecord, pc \in {"push_file", "push_comp"} :
                 /\ client = Ready /\ client' = Doing(pc, w) /\ work' = Append(work, r)
                 /\ r.status = "issued" /\ (pc = "push_comp" => r.path \in CompressedPath)
                 /\ UNCHANGED <<file_queue, comp_queue, file_thread, comp_thread, disk>>
    BY <2>1, <2>2, <2>3 DEF Read, NewWork, queues
  <2>4. ASSUME NEW path \in Path, NEW data \in Data, Write(path, data)
        PROVE  \E r \in WorkRecord, pc \in {"push_file", "push_comp"} :
                 /\ client = Ready /\ client' = Doing(pc, w) /\ work' = Append(work, r)
                 /\ r.status = "issued" /\ (pc = "push_comp" => r.path \in CompressedPath)
                 /\ UNCHANGED <<file_queue, comp_queue, file_thread, comp_thread, disk>>
    BY <2>1, <2>2, <2>4 DEF Write, NewWork, queues
  <2>5. QED
    BY <2>3, <2>4
<1>2. /\ Len(work) \in Nat /\ work' \in Seq(WorkRecord) /\ Len(work') = w
      /\ Issued = 1 .. Len(work) /\ Issued' = 1 .. w
      /\ \A v \in Issued : work'[v] = work[v]
      /\ work'[w] = r
  BY <1>1, Parts, AppendProperties, LenProperties DEF WorkType, Issued
<1>3. /\ client.pc = "ready" /\ client'.pc = pc /\ client'.work = w
      /\ client' = [pc |-> pc, work |-> w, at |-> NoSlot] /\ client'.at = NoSlot /\ NoSlot \in Int
      /\ UNCHANGED <<files, comps>>
  BY <1>1 DEF Ready, Doing, NoSlot, Effect
<1>4. Ref \subseteq Ref' /\ w \in Ref' /\ w \notin Ref /\ w # Null
  BY <1>2 DEF Ref, Null
<1>5. TypeInv'
  <2>1. QueueType'
    BY <1>3, <1>4, Parts, QueueFacts DEF QueueType
  <2>2. ThreadType(file_thread)' /\ ThreadType(comp_thread)' /\ ClientType'
    BY <1>1, <1>3, <1>4, Parts DEF ThreadType, ClientType, ClientPc, Stopping
  <2>3. QED
    BY <1>1, <1>2, <2>1, <2>2, Parts DEF TypeInv, WorkType
<1>6. Moves(w, "client")
  <2>1. w \notin Entries(files) /\ w \notin Entries(comps)
    BY <1>4, InHand
  <2>2. file_thread.work # w /\ comp_thread.work # w
    BY <1>4, Parts DEF ThreadType
  <2>3. ASSUME NEW v \in Issued', NEW k \in Holder
        PROVE  Has(k, v)' <=> IF v = w THEN k = "client" ELSE Has(k, v)
    BY <1>1, <1>3, <2>1, <2>2 DEF Has, Holder
  <2>4. QED
    BY <1>1, <1>2, <2>3 DEF Moves, Holder
<1>7. StopInv(files', file_thread', FileTold') /\ StopInv(comps', comp_thread', CompTold')
  <2>1. ~FileTold /\ ~CompTold /\ ~FileTold' /\ ~CompTold'
    BY <1>3 DEF FileTold, CompTold, Stopping
  <2>2. QED
    BY <1>1, <1>3, <2>1, Parts DEF StopInv
<1>8. /\ (file_thread.pc = "push" => Compressed(file_thread.work))'
      /\ (client.pc = "push_comp" => Compressed(client.work))'
  BY <1>1, <1>2, <1>3, InHand, Parts DEF Compressed
<1>9. QED
  BY <1>1, <1>3, <1>5, <1>6, <1>7, <1>8, Parts, StepKeeps DEF Stopping, NoRepeats

(* The client waits, frees, and joins; nothing moves.                      *)
LEMMA ClientElsewhereStep ==
  ASSUME Orderly, IInv, Effect,
         \/ \E w \in Issued : Wait(w)
         \/ \E frees \in BOOLEAN : WaitReturns(frees)
         \/ StopFile \/ JoinFile \/ JoinComp
  PROVE  IInv'
<1>0. UNCHANGED <<file_queue, comp_queue, file_thread, comp_thread, disk>>
  BY DEF Wait, WaitReturns, StopFile, JoinFile, JoinComp, queues
<1>1. UNCHANGED <<files, comps, file_thread, comp_thread, disk>>
  BY <1>0 DEF Effect
<1>2. /\ work' \in Seq(WorkRecord) /\ Len(work') = Len(work) /\ Issued' = Issued
      /\ \A v \in Issued : work'[v].path = work[v].path
      /\ \A v \in Issued : work'[v].status = "issued" <=> work[v].status = "issued"
  <2>1. CASE UNCHANGED work
    BY <2>1, Parts DEF WorkType, Issued
  <2>2. CASE /\ client.work \in Ref /\ client.work # Null /\ work[client.work].status = "done"
             /\ work' = [work EXCEPT ![client.work].status = "freed"]
    <3>1. client.work \in Issued
      BY <2>2, InHand
    <3>2. Rewritten(client.work) /\ work'[client.work].status # "issued"
      BY <2>2, <3>1, Parts, WorkDone
    <3>3. QED
      BY <2>2, <3>2 DEF Rewritten
  <2>3. QED
    BY <2>1, <2>2, Parts DEF Wait, WaitReturns, StopFile, JoinFile, JoinComp, ClientType
<1>3. /\ ClientType' /\ client.pc \notin {"push_file", "push_comp"}
      /\ client'.pc \notin {"push_file", "push_comp"}
      /\ client'.pc \in Stopping => client.pc \in Stopping \/ \A w \in Undone : ~Compressed(w)
      /\ FileTold' <=> FileTold
      /\ CompTold' <=> CompTold
      /\ client'.pc \in {"join_comp", "closed"} => file_thread.pc = "exited"
      /\ client'.pc = "closed" => comp_thread.pc = "exited"
  <2>0. /\ Ref' = Ref /\ Null \in Ref /\ NoSlot \in Int
        /\ \A w \in Issued : w \in Ref /\ w # Null
    BY <1>2, InHand DEF Ref, Null, NoSlot
  <2>1. CASE \E w \in Issued : Wait(w)
    BY <2>0, <2>1, Parts
    DEF Wait, Ready, Doing, ClientType, ClientPc, Stopping, FileTold, CompTold
  <2>2. CASE \E frees \in BOOLEAN : WaitReturns(frees)
    BY <2>0, <2>2, Parts
    DEF WaitReturns, AfterWait, Ready, Doing, ClientType, ClientPc, Stopping, FileTold, CompTold
  <2>3. CASE StopFile
    BY <2>0, <2>3, Parts
    DEF StopFile, Orderly, Ready, Doing, ClientType, ClientPc, Stopping, FileTold, CompTold
  <2>4. CASE JoinFile
    BY <2>0, <2>4, Parts DEF JoinFile, Doing, ClientType, ClientPc, Stopping, FileTold, CompTold
  <2>5. CASE JoinComp
    BY <2>0, <2>5, Parts DEF JoinComp, Doing, ClientType, ClientPc, Stopping, FileTold, CompTold
  <2>6. QED
    BY <2>1, <2>2, <2>3, <2>4, <2>5
<1>4. TypeInv'
  BY <1>1, <1>2, <1>3, Parts DEF TypeInv, WorkType, QueueType, ThreadType, Ref
<1>5. Moves(Null, "nowhere")
  BY <1>1, <1>2, <1>3, InHand DEF Moves, Has, Holder
<1>6. StopInv(files', file_thread', FileTold') /\ StopInv(comps', comp_thread', CompTold')
  BY <1>1, <1>3, Parts DEF StopInv
<1>7. /\ (file_thread.pc = "push" => Compressed(file_thread.work))'
      /\ (client.pc = "push_comp" => Compressed(client.work))'
  BY <1>1, <1>2, <1>3, InHand, Parts DEF Compressed
<1>8. QED
  BY <1>1, <1>2, <1>3, <1>4, <1>5, <1>6, <1>7, InHand, Parts, StepKeeps DEF NoRepeats, Holder

(* fs_destroy tells the threads to stop.                                   *)
LEMMA TellsStep ==
  ASSUME IInv, Effect, PushStopFile \/ PushStopComp
  PROVE  IInv'
<1>0. /\ Null \in Ref /\ Null \notin Issued /\ files \in Seq(Ref) /\ comps \in Seq(Ref)
      /\ client.work = Null
      /\ PushStopFile => files' = Append(files, Null) /\ comps' = comps
      /\ PushStopComp => comps' = Append(comps, Null) /\ files' = files
  <2>1. Null \in Ref /\ Null \notin Issued /\ files \in Seq(Ref) /\ comps \in Seq(Ref)
    BY InHand, Parts DEF QueueType
  <2>2. client.work = Null
    BY Parts DEF PushStopFile, PushStopComp, ClientType, Stopping
  <2>3. /\ PushStopFile => files' = Append(files, client.work)
        /\ PushStopComp => comps' = Append(comps, client.work)
    BY DEF Effect
  <2>4. /\ PushStopFile => comps' = comps
        /\ PushStopComp => files' = files
    BY DEF Effect, PushStopFile, PushStopComp
  <2>5. QED
    BY <2>1, <2>2, <2>3, <2>4
<1>1. /\ UNCHANGED <<work, file_thread, comp_thread, disk, seen>>
      /\ client.pc \in Stopping /\ client'.pc \in Stopping /\ client'.work = Null
      /\ client' \in [pc : ClientPc, work : Ref, at : Int] /\ client'.at = NoSlot
      /\ client'.pc \notin {"join_comp", "closed"}
  BY <1>0 DEF PushStopFile, PushStopComp, Doing, Stopping, ClientPc, NoSlot
<1>2. /\ files' \in Seq(Ref) /\ NoRepeats(files')
      /\ comps' \in Seq(Ref) /\ NoRepeats(comps')
      /\ \A v \in Issued : /\ v \in Entries(files') <=> v \in Entries(files)
                           /\ v \in Entries(comps') <=> v \in Entries(comps)
  <2>1. CASE UNCHANGED comps /\ files' = Append(files, Null)
    BY <1>0, <2>1, AppendFacts, Parts
  <2>2. CASE UNCHANGED files /\ comps' = Append(comps, Null)
    BY <1>0, <2>2, AppendFacts, Parts
  <2>3. QED
    BY <1>0, <2>1, <2>2
<1>3. StopInv(files', file_thread', FileTold') /\ StopInv(comps', comp_thread', CompTold')
  <2>1. CASE PushStopFile
    <3>1. ~FileTold /\ ~CompTold /\ FileTold' /\ ~CompTold'
      BY <2>1 DEF PushStopFile, Doing, FileTold, CompTold, Stopping
    <3>2. StopInv(files, file_thread, FALSE)
      BY <3>1, Parts DEF StopInv
    <3>3. StopInv(Append(files, Null), file_thread, TRUE)
      BY <1>0, <3>2, StopTells
    <3>4. QED
      BY <1>0, <1>1, <2>1, <3>1, <3>3, Parts DEF StopInv
  <2>2. CASE PushStopComp
    <3>1. FileTold /\ ~CompTold /\ FileTold' /\ CompTold'
      BY <2>2 DEF PushStopComp, Doing, FileTold, CompTold, Stopping
    <3>2. StopInv(comps, comp_thread, FALSE)
      BY <3>1, Parts DEF StopInv
    <3>3. StopInv(Append(comps, Null), comp_thread, TRUE)
      BY <1>0, <3>2, StopTells
    <3>4. QED
      BY <1>0, <1>1, <2>2, <3>1, <3>3, Parts DEF StopInv
  <2>3. QED
    BY <2>1, <2>2
<1>4. TypeInv'
  BY <1>1, <1>2, Parts
  DEF TypeInv, WorkType, QueueType, ThreadType, ClientType, Ref, Stopping
<1>5. Moves(Null, "nowhere")
  BY <1>0, <1>1, <1>2 DEF Moves, Has, Holder, Issued, Stopping
<1>6. /\ (file_thread.pc = "push" => Compressed(file_thread.work))'
      /\ (client.pc = "push_comp" => Compressed(client.work))'
  BY <1>1, Parts DEF Compressed, Stopping
<1>7. QED
  BY <1>0, <1>1, <1>2, <1>3, <1>4, <1>5, <1>6, Parts, StepKeeps DEF Holder, Issued

(* The workers take a work from their queue. *)
LEMMA FilePopStep ==
  ASSUME IInv, Effect, FilePop
  PROVE  IInv'
<1> DEFINE w == Head(files)
<1>0. /\ files # <<>> /\ files' = Tail(files) /\ file_thread' \in Takes(w) /\ comps' = comps
      /\ file_thread.pc = "ready" /\ UNCHANGED <<work, comp_thread, client, disk, seen>>
  <2>1. files # <<>> /\ files' = Tail(files) /\ file_thread' \in Takes(w)
    BY DEF Effect
  <2>2. comps' = comps
    BY DEF Effect, FilePop
  <2>3. QED
    BY <2>1, <2>2 DEF FilePop, Pop, Ready, Doing
<1>a. files \in Seq(Ref) /\ w \in Ref /\ w \in Entries(files) /\ Null \in Ref
  <2>1. files \in Seq(Ref)
    BY Parts DEF QueueType
  <2>2. QED
    BY <1>0, <2>1, InHand, TailFacts
<1>b. /\ w # Unwritten
      /\ w # Null => work[w].status # "freed"
  <2>1. w # Unwritten
    BY <1>a, InHand DEF Ref, Unwritten
  <2>2. ASSUME w # Null PROVE work[w].status # "freed"
    <3>1. w \in Issued /\ Has("file_queue", w)
      BY <1>a, <2>2, InHand DEF Has
    <3>2. w \in Undone
      BY <3>1, InHand DEF Holder
    <3>3. QED
      BY <3>2 DEF Undone
  <2>3. QED
    BY <2>1, <2>2
<1>1. /\ file_thread.pc = "ready" /\ files # <<>> /\ files' = Tail(files)
      /\ files \in Seq(Ref) /\ w \in Ref /\ Null \in Ref
      /\ file_thread' = [pc |-> IF w = Null THEN "exited" ELSE "run", work |-> w, at |-> NoSlot]
      /\ NoSlot \in Int
      /\ UNCHANGED <<comps, work, comp_thread, client, disk, seen>>
  BY <1>0, <1>a, <1>b DEF Takes, Doing, NoSlot
<1>2. /\ files' \in Seq(Ref) /\ NoRepeats(files')
      /\ Entries(files) = Entries(files') \cup {w}
      /\ w # Null => w \notin Entries(files')
  BY <1>1, Parts, TailFacts
<1>3. TypeInv'
  BY <1>1, <1>2, Parts
  DEF TypeInv, WorkType, QueueType, ThreadType, ClientType, Ref
<1>4. StopInv(files', file_thread', FileTold') /\ StopInv(comps', comp_thread', CompTold')
  <2>1. /\ FileTold \in BOOLEAN /\ CompTold \in BOOLEAN
        /\ FileTold' <=> FileTold
        /\ CompTold' <=> CompTold
    BY <1>1 DEF FileTold, CompTold
  <2>2. file_thread'.pc = "exited" <=> w = Null
    BY <1>1
  <2>3. StopInv(Tail(files), file_thread', FileTold)
    BY <1>1, <2>1, <2>2, Parts, StopPop
  <2>4. QED
    BY <1>1, <2>1, <2>3, Parts DEF StopInv
<1>5. /\ (file_thread.pc = "push" => Compressed(file_thread.work))'
      /\ (client.pc = "push_comp" => Compressed(client.work))'
  BY <1>1, Parts DEF Compressed
<1>6. CASE w = Null
  <2>1. Moves(Null, "nowhere")
    BY <1>1, <1>2, <1>6, InHand DEF Moves, Has, Holder, Issued
  <2>2. QED
    BY <1>1, <1>2, <1>3, <1>4, <1>5, <1>6, <2>1, InHand, Parts, StepKeeps DEF Holder, Issued
<1>7. CASE w # Null
  <2>1. w \in Issued /\ Has("file_queue", w) /\ w \in Undone
    BY <1>1, <1>2, <1>7, InHand DEF Has, Holder
  <2>2. ASSUME NEW v \in Issued, NEW k \in Holder
        PROVE  Has(k, v)' <=> IF v = w THEN k = "file" ELSE Has(k, v)
    <3>1. v = w => (Has(k, v) <=> k = "file_queue")
      BY <2>1 DEF IInv, PlaceInv, HolderInv, Holder
    <3>2. QED
      BY <1>1, <1>2, <1>7, <3>1 DEF Has, Holder
  <2>3. Moves(w, "file")
    BY <1>1, <2>1, <2>2 DEF Moves, Issued, Undone, Holder
  <2>4. work'[w].path \in CompressedPath \/ "file" = "file"
    BY <1>1, <2>1 DEF IInv, KindInv, Compressed
  <2>5. QED
    BY <1>1, <1>2, <1>3, <1>4, <1>5, <1>7, <2>1, <2>3, <2>4, Parts, StepKeeps
<1>8. QED
  BY <1>6, <1>7

LEMMA CompPopStep ==
  ASSUME IInv, Effect, CompPop
  PROVE  IInv'
<1> DEFINE w == Head(comps)
<1>0. /\ comps # <<>> /\ comps' = Tail(comps) /\ comp_thread' \in Takes(w) /\ files' = files
      /\ comp_thread.pc = "ready" /\ UNCHANGED <<work, file_thread, client, disk, seen>>
  <2>1. comps # <<>> /\ comps' = Tail(comps) /\ comp_thread' \in Takes(w)
    BY DEF Effect
  <2>2. files' = files
    BY DEF Effect, CompPop
  <2>3. QED
    BY <2>1, <2>2 DEF CompPop, Pop, Ready, Doing
<1>a. comps \in Seq(Ref) /\ w \in Ref /\ w \in Entries(comps) /\ Null \in Ref
  <2>1. comps \in Seq(Ref)
    BY Parts DEF QueueType
  <2>2. QED
    BY <1>0, <2>1, InHand, TailFacts
<1>b. /\ w # Unwritten
      /\ w # Null => work[w].status # "freed"
  <2>1. w # Unwritten
    BY <1>a, InHand DEF Ref, Unwritten
  <2>2. ASSUME w # Null PROVE work[w].status # "freed"
    <3>1. w \in Issued /\ Has("comp_queue", w)
      BY <1>a, <2>2, InHand DEF Has
    <3>2. w \in Undone
      BY <3>1, InHand DEF Holder
    <3>3. QED
      BY <3>2 DEF Undone
  <2>3. QED
    BY <2>1, <2>2
<1>1. /\ comp_thread.pc = "ready" /\ comps # <<>> /\ comps' = Tail(comps)
      /\ comps \in Seq(Ref) /\ w \in Ref /\ Null \in Ref
      /\ comp_thread' = [pc |-> IF w = Null THEN "exited" ELSE "run", work |-> w, at |-> NoSlot]
      /\ NoSlot \in Int
      /\ UNCHANGED <<files, work, file_thread, client, disk, seen>>
  BY <1>0, <1>a, <1>b DEF Takes, Doing, NoSlot
<1>2. /\ comps' \in Seq(Ref) /\ NoRepeats(comps')
      /\ Entries(comps) = Entries(comps') \cup {w}
      /\ w # Null => w \notin Entries(comps')
  BY <1>1, Parts, TailFacts
<1>3. TypeInv'
  BY <1>1, <1>2, Parts
  DEF TypeInv, WorkType, QueueType, ThreadType, ClientType, Ref
<1>4. StopInv(files', file_thread', FileTold') /\ StopInv(comps', comp_thread', CompTold')
  <2>1. /\ FileTold \in BOOLEAN /\ CompTold \in BOOLEAN
        /\ FileTold' <=> FileTold
        /\ CompTold' <=> CompTold
    BY <1>1 DEF FileTold, CompTold
  <2>2. comp_thread'.pc = "exited" <=> w = Null
    BY <1>1
  <2>3. StopInv(Tail(comps), comp_thread', CompTold)
    BY <1>1, <2>1, <2>2, Parts, StopPop
  <2>4. QED
    BY <1>1, <2>1, <2>3, Parts DEF StopInv
<1>5. /\ (file_thread.pc = "push" => Compressed(file_thread.work))'
      /\ (client.pc = "push_comp" => Compressed(client.work))'
  BY <1>1, Parts DEF Compressed
<1>6. CASE w = Null
  <2>1. Moves(Null, "nowhere")
    BY <1>1, <1>2, <1>6, InHand DEF Moves, Has, Holder, Issued
  <2>2. QED
    BY <1>1, <1>2, <1>3, <1>4, <1>5, <1>6, <2>1, InHand, Parts, StepKeeps DEF Holder, Issued
<1>7. CASE w # Null
  <2>1. w \in Issued /\ Has("comp_queue", w) /\ w \in Undone
    BY <1>1, <1>2, <1>7, InHand DEF Has, Holder
  <2>2. ASSUME NEW v \in Issued, NEW k \in Holder
        PROVE  Has(k, v)' <=> IF v = w THEN k = "comp" ELSE Has(k, v)
    <3>1. v = w => (Has(k, v) <=> k = "comp_queue")
      BY <2>1 DEF IInv, PlaceInv, HolderInv, Holder
    <3>2. QED
      BY <1>1, <1>2, <1>7, <3>1 DEF Has, Holder
  <2>3. Moves(w, "comp")
    BY <1>1, <2>1, <2>2 DEF Moves, Issued, Undone, Holder
  <2>4. work'[w].path \in CompressedPath \/ "comp" = "file"
    BY <1>1, <2>1 DEF IInv, KindInv, Compressed
  <2>5. QED
    BY <1>1, <1>2, <1>3, <1>4, <1>5, <1>7, <2>1, <2>3, <2>4, Parts, StepKeeps
<1>8. QED
  BY <1>6, <1>7

(* The workers pass a compressed work on. *)
LEMMA FilePushStep ==
  ASSUME IInv, Effect, FilePush
  PROVE  IInv'
<1> DEFINE w == file_thread.work
<1>0. comps' = Append(comps, w) /\ files' = files
  <2>1. comps' = Append(comps, w)
    BY DEF Effect
  <2>2. files' = files
    BY DEF Effect, FilePush
  <2>3. QED
    BY <2>1, <2>2
<1>1. /\ file_thread.pc = "push" /\ w \in Issued /\ w \in Ref /\ w # Null /\ w \in Undone
      /\ Has("file", w) /\ file_thread' = [pc |-> "ready", work |-> Null, at |-> NoSlot] /\ Null \in Ref
      /\ comps' = Append(comps, w) /\ comps \in Seq(Ref)
      /\ client.pc \notin Stopping /\ Compressed(w)
      /\ UNCHANGED <<files, work, comp_thread, client, disk, seen>>
  BY <1>0, InHand, Parts DEF FilePush, Ready, Doing, ThreadType, QueueType, Holder
<1>2. w \notin Entries(comps)
  BY <1>1 DEF IInv, PlaceInv, HolderInv, Holder, Has
<1>3. /\ comps' \in Seq(Ref) /\ Entries(comps') = Entries(comps) \cup {w}
      /\ NoRepeats(comps')
  BY <1>1, <1>2, Parts, AppendFacts
<1>4. TypeInv'
  BY <1>1, <1>3, Parts
  DEF TypeInv, WorkType, QueueType, ThreadType, ClientType, Ref, NoSlot
<1>5. Moves(w, "comp_queue")
  <2>1. ASSUME NEW v \in Issued, NEW k \in Holder
        PROVE  Has(k, v)' <=> IF v = w THEN k = "comp_queue" ELSE Has(k, v)
    <3>1. v = w => (Has(k, v) <=> k = "file")
      BY <1>1 DEF IInv, PlaceInv, HolderInv, Holder
    <3>2. QED
      BY <1>1, <1>3, <3>1 DEF Has, Holder
  <2>2. QED
    BY <1>1, <2>1 DEF Moves, Issued, Undone, Holder
<1>6. StopInv(files', file_thread', FileTold') /\ StopInv(comps', comp_thread', CompTold')
  <2>1. ~FileTold /\ ~CompTold /\ ~FileTold' /\ ~CompTold'
    BY <1>1 DEF FileTold, CompTold
  <2>2. StopInv(files, file_thread, FALSE) /\ StopInv(comps, comp_thread, FALSE)
    BY <2>1, Parts DEF StopInv
  <2>3. StopInv(Append(comps, w), comp_thread, FALSE)
    BY <1>1, <2>2, StopPush
  <2>4. StopInv(files, file_thread', FALSE)
    BY <1>1, <2>2, StopSame
  <2>5. QED
    BY <1>1, <2>1, <2>3, <2>4 DEF StopInv
<1>7. QED
  BY <1>1, <1>3, <1>4, <1>5, <1>6, Parts, StepKeeps DEF Stopping, Compressed

LEMMA CompPushStep ==
  ASSUME IInv, Effect, CompPush
  PROVE  IInv'
<1> DEFINE w == comp_thread.work
<1>0. files' = Append(files, w) /\ comps' = comps
  <2>1. files' = Append(files, w)
    BY DEF Effect
  <2>2. comps' = comps
    BY DEF Effect, CompPush
  <2>3. QED
    BY <2>1, <2>2
<1>1. /\ comp_thread.pc = "push" /\ w \in Issued /\ w \in Ref /\ w # Null /\ w \in Undone
      /\ Has("comp", w) /\ comp_thread' = [pc |-> "ready", work |-> Null, at |-> NoSlot] /\ Null \in Ref
      /\ files' = Append(files, w) /\ files \in Seq(Ref)
      /\ client.pc \notin Stopping /\ Compressed(w)
      /\ UNCHANGED <<comps, work, file_thread, client, disk, seen>>
  BY <1>0, InHand, Parts DEF CompPush, Ready, Doing, ThreadType, QueueType, Holder
<1>2. w \notin Entries(files)
  BY <1>1 DEF IInv, PlaceInv, HolderInv, Holder, Has
<1>3. /\ files' \in Seq(Ref) /\ Entries(files') = Entries(files) \cup {w}
      /\ NoRepeats(files')
  BY <1>1, <1>2, Parts, AppendFacts
<1>4. TypeInv'
  BY <1>1, <1>3, Parts
  DEF TypeInv, WorkType, QueueType, ThreadType, ClientType, Ref, NoSlot
<1>5. Moves(w, "file_queue")
  <2>1. ASSUME NEW v \in Issued, NEW k \in Holder
        PROVE  Has(k, v)' <=> IF v = w THEN k = "file_queue" ELSE Has(k, v)
    <3>1. v = w => (Has(k, v) <=> k = "comp")
      BY <1>1 DEF IInv, PlaceInv, HolderInv, Holder
    <3>2. QED
      BY <1>1, <1>3, <3>1 DEF Has, Holder
  <2>2. QED
    BY <1>1, <2>1 DEF Moves, Issued, Undone, Holder
<1>6. StopInv(files', file_thread', FileTold') /\ StopInv(comps', comp_thread', CompTold')
  <2>1. ~FileTold /\ ~CompTold /\ ~FileTold' /\ ~CompTold'
    BY <1>1 DEF FileTold, CompTold
  <2>2. StopInv(files, file_thread, FALSE) /\ StopInv(comps, comp_thread, FALSE)
    BY <2>1, Parts DEF StopInv
  <2>3. StopInv(Append(files, w), file_thread, FALSE)
    BY <1>1, <2>2, StopPush
  <2>4. StopInv(comps, comp_thread', FALSE)
    BY <1>1, <2>2, StopSame
  <2>5. QED
    BY <1>1, <2>1, <2>3, <2>4 DEF StopInv
<1>7. QED
  BY <1>1, <1>3, <1>4, <1>5, <1>6, Parts, StepKeeps DEF Stopping, Compressed

(* A worker lets go of a work that it has signalled.                       *)
LEMMA SignalStep ==
  ASSUME IInv, NEW h \in {"file", "comp"}, NEW w \in Issued, Has(h, w),
         Rewritten(w), work'[w].status # "issued", disk' \in [Path -> Int],
         UNCHANGED <<files, comps, client>>,
         file_thread' = IF h = "file" THEN Ready ELSE file_thread,
         comp_thread' = IF h = "comp" THEN Ready ELSE comp_thread
  PROVE  IInv'
<1>1. /\ Len(work') = Len(work) /\ Issued' = Issued /\ work' \in Seq(WorkRecord)
      /\ \A v \in Issued : work'[v].path = work[v].path
      /\ \A v \in Issued : v # w => work'[v] = work[v]
  BY DEF Rewritten
<1>2. /\ file_thread' = file_thread \/ file_thread' = [pc |-> "ready", work |-> Null, at |-> NoSlot]
      /\ comp_thread' = comp_thread \/ comp_thread' = [pc |-> "ready", work |-> Null, at |-> NoSlot]
      /\ Null \in Ref /\ Ref' = Ref /\ NoSlot \in Int
  BY <1>1, InHand DEF Ready, Doing, Ref, NoSlot
<1>3. TypeInv'
  BY <1>1, <1>2, Parts DEF TypeInv, WorkType, QueueType, ThreadType, ClientType
<1>4. Moves(w, "nowhere")
  <2>1. ASSUME NEW v \in Issued, NEW k \in Holder
        PROVE  Has(k, v)' <=> IF v = w THEN FALSE ELSE Has(k, v)
    <3>1. v = w => (Has(k, v) <=> k = h)
      BY DEF IInv, PlaceInv, HolderInv, Holder
    <3>2. h = "file" => file_thread.pc \in {"run", "push"} /\ w = file_thread.work
      BY DEF Has
    <3>3. h = "comp" => comp_thread.pc \in {"run", "push"} /\ w = comp_thread.work
      BY DEF Has
    <3>4. (h = "file" => file_thread'.pc = "ready") /\ (h = "comp" => comp_thread'.pc = "ready")
      BY DEF Ready, Doing
    <3>5. QED
      BY <3>1, <3>2, <3>3, <3>4 DEF Has, Holder
  <2>2. QED
    BY <1>1, <2>1 DEF Moves, Holder
<1>5. StopInv(files', file_thread', FileTold') /\ StopInv(comps', comp_thread', CompTold')
  <2>1. (FileTold' <=> FileTold) /\ (CompTold' <=> CompTold)
    BY DEF FileTold, CompTold
  <2>2. /\ file_thread.pc = "exited" => file_thread' = file_thread
        /\ comp_thread.pc = "exited" => comp_thread' = comp_thread
    BY DEF Has
  <2>3. QED
    BY <1>2, <2>1, <2>2, Parts DEF StopInv
<1>6. /\ (file_thread.pc = "push" => Compressed(file_thread.work))'
      /\ (client.pc = "push_comp" => Compressed(client.work))'
  BY <1>1, <1>2, InHand, Parts DEF Compressed
<1>7. /\ client'.pc \in {"join_comp", "closed"} => file_thread'.pc = "exited"
      /\ client'.pc = "closed" => comp_thread'.pc = "exited"
  BY Parts DEF Has
<1>8. QED
  BY <1>3, <1>4, <1>5, <1>6, <1>7, Parts, StepKeeps DEF Holder

LEMMA FileSignalsStep ==
  ASSUME IInv, Effect,
               \/ FileError
               \/ FileWrite
               \/ FileRead /\ ~Compressed(file_thread.work)
  PROVE  IInv'
<1> DEFINE w == file_thread.work
<1>1. /\ file_thread.pc = "run" /\ w \in Issued /\ Has("file", w) /\ file_thread' = Ready
      /\ UNCHANGED <<files, comps, comp_thread, client>>
  BY InHand DEF FileError, FileWrite, FileRead, queues, Effect
<1>2. work[w].payload \in Int /\ work[w].path \in Path /\ Torn \in Int /\ disk[work[w].path] \in Int
  BY <1>1, InHand, Parts DEF WorkRecord, WorkType, Torn
<1>3. disk' \in [Path -> Int]
  BY <1>2, Parts DEF FileError, FileWrite, FileRead, WorkType
<1>4. Fails(w) \/ \E payload \in Int : Succeeds(w, payload)
  BY <1>2 DEF FileError, FileWrite, FileRead
<1>5. Rewritten(w) /\ work'[w].status # "issued"
  BY <1>1, <1>4, WorkDone, Parts
<1>6. QED
  BY <1>1, <1>3, <1>5, SignalStep

LEMMA CompReadStep ==
  ASSUME IInv, Effect, CompRead
  PROVE  IInv'
<1> DEFINE w == comp_thread.work
<1>1. /\ comp_thread.pc = "run" /\ w \in Issued /\ Has("comp", w) /\ comp_thread' = Ready
      /\ UNCHANGED <<files, comps, file_thread, client, disk>>
  BY InHand DEF CompRead, queues, Effect
<1>2. \A data, room : Unpack(data, room) \in Int
  BY BoundsAssumption DEF Unpack, Data, Garbage
<1>3. \E payload \in Int : Succeeds(w, payload)
  BY <1>2 DEF CompRead
<1>4. Rewritten(w) /\ work'[w].status # "issued"
  BY <1>1, <1>3, WorkDone, Parts
<1>5. QED
  BY <1>1, <1>4, SignalStep, Parts DEF WorkType

(* A worker goes on with the work in its hands.                            *)
LEMMA GoesOnStep ==
  ASSUME IInv, Effect, (FileRead /\ Compressed(file_thread.work)) \/ CompWrite
  PROVE  IInv'
<1>1. /\ UNCHANGED <<files, comps, client, disk>>
      /\ \E w \in Issued : Rewritten(w) /\ work'[w].status = work[w].status
      /\ \/ /\ UNCHANGED comp_thread /\ file_thread.pc = "run" /\ Compressed(file_thread.work)
            /\ file_thread' = [pc |-> "push", work |-> file_thread.work, at |-> NoSlot]
         \/ /\ UNCHANGED file_thread /\ comp_thread.pc = "run"
            /\ comp_thread' = [pc |-> "push", work |-> comp_thread.work, at |-> NoSlot]
  <2>1. CASE FileRead /\ Compressed(file_thread.work)
    <3> DEFINE w == file_thread.work
    <3>1. w \in Issued /\ file_thread.pc = "run"
      BY <2>1, InHand DEF FileRead
    <3>2. disk[work[w].path] \in Int
      BY <3>1, InHand, Parts DEF WorkRecord, WorkType
    <3>3. Rewritten(w) /\ work'[w].status = work[w].status
      BY <2>1, <3>1, <3>2, WorkInHand, Parts DEF FileRead
    <3>4. QED
      BY <2>1, <3>1, <3>3 DEF FileRead, Doing, queues, Effect
  <2>2. CASE CompWrite
    <3>1. comp_thread.work \in Issued
      BY <2>2, InHand DEF CompWrite
    <3>2. Rewritten(comp_thread.work)
      BY <2>2, Parts DEF CompWrite, Rewritten, WorkType, Issued
    <3>3. QED
      BY <2>2, <3>1, <3>2 DEF CompWrite, Doing, queues, Effect
  <2>3. QED
    BY <2>1, <2>2
<1>2. /\ Len(work') = Len(work) /\ Issued' = Issued /\ work' \in Seq(WorkRecord) /\ Ref' = Ref
      /\ \A v \in Issued : work'[v].path = work[v].path /\ work'[v].status = work[v].status
      /\ NoSlot \in Int
  BY <1>1 DEF Rewritten, Ref, NoSlot
<1>3. TypeInv'
  BY <1>1, <1>2, Parts DEF TypeInv, WorkType, QueueType, ThreadType, ClientType
<1>4. Moves(Null, "nowhere")
  BY <1>1, <1>2, InHand DEF Moves, Has, Holder
<1>5. StopInv(files', file_thread', FileTold') /\ StopInv(comps', comp_thread', CompTold')
  BY <1>1, Parts DEF StopInv, FileTold, CompTold
<1>6. /\ (file_thread.pc = "push" => Compressed(file_thread.work))'
      /\ (client.pc = "push_comp" => Compressed(client.work))'
  BY <1>1, <1>2, InHand, Parts DEF Compressed
<1>7. /\ client'.pc \in {"join_comp", "closed"} => file_thread'.pc = "exited"
      /\ client'.pc = "closed" => comp_thread'.pc = "exited"
  BY <1>1, Parts
<1>8. QED
  BY <1>1, <1>2, <1>3, <1>4, <1>5, <1>6, <1>7, InHand, Parts, StepKeeps DEF Holder

(* A pusher claims its slot.                                               *)
LEMMA ClaimsStep ==
  ASSUME IInv, Effect, ClaimFile \/ ClaimComp \/ FileClaim \/ CompClaim
  PROVE  IInv'
<1>1. UNCHANGED <<files, comps>>
  BY DEF Effect
<1>2. UNCHANGED <<work, disk>>
  BY DEF ClaimFile, ClaimComp, FileClaim, CompClaim
<1>3. /\ client' = client \/ ClaimFile \/ ClaimComp
      /\ file_thread' = file_thread \/ FileClaim
      /\ comp_thread' = comp_thread \/ CompClaim
  BY DEF ClaimFile, ClaimComp, FileClaim, CompClaim
<1>4. /\ client' = client \/ \E i \in Int : client' = [client EXCEPT !.at = i]
      /\ file_thread' = file_thread \/ \E i \in Int : file_thread' = [file_thread EXCEPT !.at = i]
      /\ comp_thread' = comp_thread \/ \E i \in Int : comp_thread' = [comp_thread EXCEPT !.at = i]
  BY <1>3 DEF Effect
<1>5. /\ ClientType' /\ client'.pc = client.pc /\ client'.work = client.work
      /\ ThreadType(file_thread)' /\ file_thread'.pc = file_thread.pc
      /\ file_thread'.work = file_thread.work
      /\ ThreadType(comp_thread)' /\ comp_thread'.pc = comp_thread.pc
      /\ comp_thread'.work = comp_thread.work
  <2>0. /\ Ref' = Ref
        /\ client' = client \/ client.pc \in {"push_file", "push_comp", "stop_file", "stop_comp"}
        /\ file_thread' = file_thread \/ file_thread.pc = "push"
        /\ comp_thread' = comp_thread \/ comp_thread.pc = "push"
    BY <1>2, <1>3 DEF Ref, ClaimFile, ClaimComp, FileClaim, CompClaim
  <2>1. ClientType' /\ client'.pc = client.pc /\ client'.work = client.work
    BY <1>4, <2>0, Parts DEF ClientType
  <2>2. ThreadType(file_thread)' /\ file_thread'.pc = file_thread.pc /\ file_thread'.work = file_thread.work
    BY <1>4, <2>0, Parts DEF ThreadType
  <2>3. ThreadType(comp_thread)' /\ comp_thread'.pc = comp_thread.pc /\ comp_thread'.work = comp_thread.work
    BY <1>4, <2>0, Parts DEF ThreadType
  <2>4. QED
    BY <2>1, <2>2, <2>3
<1>6. TypeInv'
  BY <1>1, <1>2, <1>5, Parts DEF TypeInv, WorkType, QueueType, Ref
<1>7. Moves(Null, "nowhere")
  BY <1>1, <1>2, <1>5, InHand DEF Moves, Has, Holder, Issued
<1>8. StopInv(files', file_thread', FileTold') /\ StopInv(comps', comp_thread', CompTold')
  BY <1>1, <1>5, Parts DEF StopInv, FileTold, CompTold
<1>9. /\ (file_thread.pc = "push" => Compressed(file_thread.work))'
      /\ (client.pc = "push_comp" => Compressed(client.work))'
  BY <1>2, <1>5, Parts DEF Compressed
<1>10. QED
  BY <1>1, <1>2, <1>5, <1>6, <1>7, <1>8, <1>9, InHand, Parts, StepKeeps DEF Holder, Issued

LEMMA StutterStep ==
  ASSUME IInv, UNCHANGED vars
  PROVE  IInv'
  BY DEF files, comps, IInv, TypeInv, WorkType, QueueType, ThreadType, ClientType, Ref, PlaceInv, HolderInv, Has,
         KindInv, ClosingInv, Undone, Issued, Compressed, FileTold, CompTold, vars, queues

-----------------------------------------------------------------------------
(* A step that issues no work makes none undone, and leaves alone what a   *)
(* work is.                                                                *)
Calm ==
  /\ Issued' = Issued /\ Undone' \subseteq Undone
  /\ \A v \in Issued : work'[v].op = work[v].op /\ work'[v].path = work[v].path

LEMMA CalmSteps ==
  ASSUME IInv, [Next]_vars, ~\E path \in Path : Read(path) \/ \E data \in Data : Write(path, data)
  PROVE  Calm
<1>1. CASE UNCHANGED work
  BY <1>1 DEF Calm, Issued, Undone
<1>2. ASSUME NEW w \in Issued, Rewritten(w),
             work'[w].status # "issued" \/ work'[w].status = work[w].status
      PROVE  Calm
  BY <1>2 DEF Calm, Rewritten, Undone
<1>3. ASSUME FileStep, work' # work PROVE Calm
  <2> DEFINE w == file_thread.work
  <2>1. FileError \/ FileRead \/ FileWrite
    BY <1>3 DEF FileStep, FilePop, FileClaim, FilePush
  <2>2. w \in Issued
    BY <2>1, InHand DEF FileError, FileRead, FileWrite
  <2>3. work[w].payload \in Int /\ disk[work[w].path] \in Int
    BY <2>2, InHand, Parts DEF WorkRecord, WorkType
  <2>4. Fails(w) \/ (\E payload \in Int : Succeeds(w, payload)) \/ (\E payload \in Int : StillInHand(w, payload))
    BY <2>1, <2>3 DEF FileError, FileRead, FileWrite
  <2>5. Rewritten(w) /\ (work'[w].status # "issued" \/ work'[w].status = work[w].status)
    BY <2>2, <2>4, WorkDone, WorkInHand, Parts
  <2>6. QED
    BY <1>2, <2>2, <2>5
<1>4. ASSUME CompStep, work' # work PROVE Calm
  <2> DEFINE w == comp_thread.work
  <2>1. CompRead
    BY <1>4 DEF CompStep, CompPop, CompClaim, CompPush, CompWrite
  <2>2. w \in Issued
    BY <2>1, InHand DEF CompRead
  <2>3. \A data, room : Unpack(data, room) \in Int
    BY BoundsAssumption DEF Unpack, Data, Garbage
  <2>4. \E payload \in Int : Succeeds(w, payload)
    BY <2>1, <2>3 DEF CompRead
  <2>5. Rewritten(w) /\ work'[w].status # "issued"
    BY <2>2, <2>4, WorkDone, Parts
  <2>6. QED
    BY <1>2, <2>2, <2>5
<1>5. ASSUME ClientStep, work' # work PROVE Calm
  <2> DEFINE w == client.work
  <2>1. PICK frees \in BOOLEAN : WaitReturns(frees)
    BY <1>5 DEF ClientStep, ClaimFile, ClaimComp, PushFile, PushComp, PushStopFile, PushStopComp,
                JoinFile, JoinComp
  <2>2. w \in Issued /\ work' = [work EXCEPT ![w].status = "freed"]
    BY <1>5, <2>1, InHand, Parts DEF WaitReturns, ClientType
  <2>3. Rewritten(w) /\ work'[w].status # "issued"
    BY <2>2, WorkDone, Parts
  <2>4. QED
    BY <1>2, <2>2, <2>3
<1>6. QED
  BY <1>1, <1>3, <1>4, <1>5 DEF Next, vars, Wait, StopFile, Finished

LEMMA TurnsStep ==
  ASSUME Orderly, IInv, IInv', TurnsInv, [Next]_vars
  PROVE  TurnsInv'
<1>0. /\ file_thread.pc \in {"run", "push"} => file_thread.work \in Issued
      /\ comp_thread.pc \in {"run", "push"} => comp_thread.work \in Issued
  BY InHand
<1>1. CASE \E path \in Path : Read(path) \/ \E data \in Data : Write(path, data)
  <2> DEFINE New(op, path, data) == [op |-> op, path |-> path, payload |-> data,
                                     result |-> "ok", status |-> "issued"]
             Starts(r, pc) ==
               /\ work' = Append(work, r) /\ client' = Doing(pc, Len(work) + 1)
               /\ UNCHANGED <<file_thread, comp_thread>>
               /\ pc = "push_file" => CompressedAll("read")
               /\ pc = "push_comp" => CompressedAll("write")
               /\ r.path \in CompressedPath => r.op = IF pc = "push_file" THEN "read" ELSE "write"
  <2>1. ASSUME NEW path \in Path, Read(path) PROVE Starts(New("read", path, NoFile), "push_file")
    BY <2>1 DEF Read, NewWork, Orderly
  <2>2. ASSUME NEW path \in Path, NEW data \in Data, Write(path, data), path \in CompressedPath
        PROVE  Starts(New("write", path, data), "push_comp")
    BY <2>2 DEF Write, NewWork, Orderly
  <2>3. ASSUME NEW path \in Path, NEW data \in Data, Write(path, data), path \notin CompressedPath
        PROVE  Starts(New("write", path, data), "push_file")
    BY <2>3 DEF Write, NewWork, Orderly
  <2> HIDE DEF Starts, New
  <2>4. \E r, pc : pc \in {"push_file", "push_comp"} /\ Starts(r, pc)
    BY <1>1, <2>1, <2>2, <2>3
  <2>5. PICK r, pc : pc \in {"push_file", "push_comp"} /\ Starts(r, pc)
    BY <2>4
  <2>6. /\ pc \in {"push_file", "push_comp"}
        /\ work' = Append(work, r) /\ client' = Doing(pc, Len(work) + 1)
        /\ UNCHANGED <<file_thread, comp_thread>>
        /\ pc = "push_file" => CompressedAll("read")
        /\ pc = "push_comp" => CompressedAll("write")
        /\ r.path \in CompressedPath => r.op = IF pc = "push_file" THEN "read" ELSE "write"
    BY <2>5 DEF Starts
  <2>7. /\ Len(work) \in Nat /\ Issued = 1 .. Len(work) /\ Issued' = 1 .. Len(work) + 1
        /\ \A v \in Issued : work'[v] = work[v]
        /\ work'[Len(work) + 1] = r
    BY <2>6, Parts, InHand, AppendProperties, LenProperties DEF WorkType, IInv, TypeInv, Issued
  <2>8. \A v \in Undone' : v \in Undone \/ v = Len(work) + 1
    BY <2>7 DEF Undone
  <2>9. client'.pc = pc
    BY <2>6 DEF Doing
  <2>10. /\ pc = "push_file" => CompressedAll("read")'
         /\ pc = "push_comp" => CompressedAll("write")'
    BY <2>6, <2>7, <2>8 DEF CompressedAll, Compressed, Op, Undone
  <2>11. /\ file_thread'.pc = "push" => Op(file_thread.work)' = "read"
         /\ comp_thread'.pc = "push" => Op(comp_thread.work)' = "write"
    BY <1>0, <2>6, <2>7 DEF TurnsInv, Op
  <2>12. QED
    BY <2>9, <2>10, <2>11 DEF TurnsInv
<1>2. CASE ~\E path \in Path : Read(path) \/ \E data \in Data : Write(path, data)
  <2>1. Calm
    BY <1>2, CalmSteps
  <2>2. /\ CompressedAll("read") => CompressedAll("read")'
        /\ CompressedAll("write") => CompressedAll("write")'
    BY <2>1 DEF Calm, CompressedAll, Compressed, Op, Undone
  <2>3. /\ client'.pc = "push_file" => client.pc = "push_file"
        /\ client'.pc = "push_comp" => client.pc = "push_comp"
    BY <1>2, Parts
    DEF Next, ClientStep, FileStep, CompStep, Wait, StopFile, Finished, ClaimFile, ClaimComp, Claim,
        PushFile, PushComp, WaitReturns, AfterWait, PushStopFile, PushStopComp, JoinFile, JoinComp,
        FilePop, FileError, FileRead, FileClaim, FilePush, FileWrite, CompPop, CompRead, CompWrite,
        CompClaim, CompPush, Ready, Doing, vars, ClientType
  <2>4. file_thread'.pc = "push" =>
          /\ file_thread'.work = file_thread.work
          /\ file_thread.pc = "push" \/ (file_thread.pc = "run" /\ Op(file_thread.work) = "read")
    BY <1>2, Parts
    DEF Next, ClientStep, FileStep, CompStep, Wait, StopFile, Finished, ClaimFile, ClaimComp, Claim,
        PushFile, PushComp, WaitReturns, PushStopFile, PushStopComp, JoinFile, JoinComp,
        FilePop, Pop, Takes, FileError, FileRead, FileClaim, FilePush, FileWrite, CompPop, CompRead,
        CompWrite, CompClaim, CompPush, Ready, Doing, vars, ThreadType
  <2>5. comp_thread'.pc = "push" =>
          /\ comp_thread'.work = comp_thread.work
          /\ comp_thread.pc = "push" \/ (comp_thread.pc = "run" /\ Op(comp_thread.work) = "write")
    BY <1>2, Parts
    DEF Next, ClientStep, FileStep, CompStep, Wait, StopFile, Finished, ClaimFile, ClaimComp, Claim,
        PushFile, PushComp, WaitReturns, PushStopFile, PushStopComp, JoinFile, JoinComp,
        FilePop, Pop, Takes, FileError, FileRead, FileClaim, FilePush, FileWrite, CompPop, CompRead,
        CompWrite, CompClaim, CompPush, Ready, Doing, vars, ThreadType
  <2>6. QED
    BY <1>0, <2>1, <2>2, <2>3, <2>4, <2>5 DEF TurnsInv, Calm, Op
<1>3. QED
  BY <1>1, <1>2

(* Steps that touch neither queue leave what is claimed as it is.          *)
LEMMA RingsElsewhere ==
  ASSUME IInv, IInv', TurnsInv', RingsInv,
         \/ \E path \in Path : Read(path) \/ \E data \in Data : Write(path, data)
         \/ \E w \in Issued : Wait(w)
         \/ \E frees \in BOOLEAN : WaitReturns(frees)
         \/ StopFile \/ JoinFile \/ JoinComp
         \/ FileError \/ FileRead \/ FileWrite \/ CompRead \/ CompWrite \/ UNCHANGED vars
  PROVE  RingsInv'
<1> DEFINE pushing == {"push_file", "push_comp", "stop_file", "stop_comp"}
<1>1. UNCHANGED <<file_queue, comp_queue>>
  BY DEF Read, Write, NewWork, Wait, WaitReturns, StopFile, JoinFile, JoinComp, FileError, FileRead,
         FileWrite, CompRead, CompWrite, queues, vars
<1>2. /\ client' = client \/ (client.pc \notin pushing /\ client'.at = NoSlot
                             /\ UNCHANGED <<file_thread, comp_thread>>)
      /\ file_thread' = file_thread \/ (file_thread.pc = "run" /\ file_thread'.at = NoSlot)
      /\ comp_thread' = comp_thread \/ (comp_thread.pc = "run" /\ comp_thread'.at = NoSlot)
  <2>1. CASE \E path \in Path : Read(path) \/ \E data \in Data : Write(path, data)
    <3>1. client = Ready /\ UNCHANGED <<file_thread, comp_thread>>
      BY <2>1 DEF Read, Write, NewWork
    <3>2. \E pc, w : client' = Doing(pc, w)
      BY <2>1 DEF Read, Write
    <3>3. client.pc \notin pushing /\ client'.at = NoSlot
      BY <3>1, <3>2 DEF Ready, Doing
    <3>4. QED
      BY <3>1, <3>3
  <2>2. CASE \/ \E w \in Issued : Wait(w)
             \/ \E frees \in BOOLEAN : WaitReturns(frees)
             \/ StopFile \/ JoinFile \/ JoinComp \/ UNCHANGED vars
    BY <2>2 DEF Wait, WaitReturns, AfterWait, StopFile, JoinFile, JoinComp, Ready, Doing, vars
  <2>3. CASE FileError \/ FileRead \/ FileWrite \/ CompRead \/ CompWrite
    BY <2>3 DEF FileError, FileRead, FileWrite, CompRead, CompWrite, Ready, Doing
  <2>4. QED
    BY <2>1, <2>2, <2>3
<1>3. (/\ client.pc \in {"push_file", "stop_file"} => comp_thread.pc # "push"
       /\ client.pc \in {"push_comp", "stop_comp"} => file_thread.pc # "push")'
  BY Lone, PTL
<1>4. FileAt' = FileAt /\ CompAt' = CompAt
  BY <1>2, <1>3 DEF FileAt, CompAt
<1>5. QED
  BY <1>1, <1>4 DEF RingsInv

Inv == IInv /\ TurnsInv /\ RingsInv

LEMMA InvStep == Orderly /\ Inv /\ [Next]_vars => Inv'
<1> SUFFICES ASSUME Orderly, Inv, [Next]_vars PROVE Inv'
  OBVIOUS
<1>0. Effect /\ IInv /\ TurnsInv /\ RingsInv
  BY EffectHolds DEF Inv
<1>1. IInv'
  <2>1. CASE ClientStep
    BY <1>0, <2>1, PushFileStep, PushCompStep, ClientElsewhereStep, TellsStep, ClaimsStep DEF ClientStep
  <2>2. CASE FileStep
    BY <1>0, <2>2, FilePopStep, FilePushStep, FileSignalsStep, GoesOnStep, ClaimsStep DEF FileStep
  <2>3. CASE CompStep
    BY <1>0, <2>3, CompPopStep, CompPushStep, CompReadStep, GoesOnStep, ClaimsStep DEF CompStep
  <2>4. QED
    BY <1>0, <2>1, <2>2, <2>3, NewWorkStep, ClientElsewhereStep, StutterStep DEF Next, Finished
<1>2. TurnsInv'
  BY <1>0, <1>1, TurnsStep
<1>3. RingsInv'
  <2>1. CASE \/ ClaimFile \/ ClaimComp \/ FileClaim \/ CompClaim
             \/ PushFile \/ PushStopFile \/ PushComp \/ PushStopComp \/ FilePush \/ CompPush
             \/ FilePop \/ CompPop
    BY <1>0, <2>1, ClaimFileRing, ClaimCompRing, FileClaimRing, CompClaimRing, ClientStoresFile,
       ClientStoresComp, FileStores, CompStores, FilePops, CompPops
  <2>2. CASE ~(\/ ClaimFile \/ ClaimComp \/ FileClaim \/ CompClaim
               \/ PushFile \/ PushStopFile \/ PushComp \/ PushStopComp \/ FilePush \/ CompPush
               \/ FilePop \/ CompPop)
    BY <1>0, <1>1, <1>2, <2>2, RingsElsewhere DEF Next, ClientStep, FileStep, CompStep, Finished
  <2>3. QED
    BY <2>1, <2>2
<1>4. QED
  BY <1>1, <1>2, <1>3 DEF Inv

LEMMA InitInv == Init => Inv
<1> SUFFICES ASSUME Init PROVE Inv
  OBVIOUS
<1>1. /\ work \in Seq(WorkRecord) /\ Len(work) = 0 /\ Issued = {} /\ Undone = {}
  BY DEF Init, Issued, Undone
<1>2. /\ files = <<>> /\ comps = <<>> /\ Entries(files) = {} /\ Entries(comps) = {}
  <2>1. NewQueue \in QueueRecord /\ NewQueue.used_items = 0 /\ NewQueue.free_items = QueueCapacity
        /\ NewQueue.tail_index = 0 /\ NewQueue.head_index = 0
    BY CapacityAssumption DEF NewQueue, QueueRecord, Unwritten
  <2>2. Waiting(NewQueue) = <<>>
    BY <2>1, WaitingFacts, EmptySeq
  <2>3. QED
    BY <2>2 DEF Init, files, comps, Entries
<1>3. /\ file_thread = [pc |-> "ready", work |-> 0, at |-> NoSlot] /\ comp_thread = [pc |-> "ready", work |-> 0, at |-> NoSlot]
      /\ client = [pc |-> "ready", work |-> 0, at |-> NoSlot] /\ 0 \in Ref /\ NoSlot \in Int
  BY <1>1 DEF Init, Ready, Doing, Null, Ref, NoSlot
<1>4. TypeInv
  BY <1>1, <1>2, <1>3
  DEF Init, TypeInv, WorkType, QueueType, ThreadType, ClientType, ClientPc, Stopping, Null, NoFile
<1>5. PlaceInv /\ KindInv
  BY <1>1, <1>2, <1>3 DEF PlaceInv, HolderInv, NoRepeats, KindInv
<1>6. ClosingInv
  BY <1>1, <1>2, <1>3 DEF ClosingInv, StopInv, FileTold, CompTold, Stopping
<1>7. TurnsInv
  BY <1>1, <1>3 DEF TurnsInv
<1>8. RingsInv
  <2>1. FileAt = NoSlot /\ CompAt = NoSlot
    BY <1>3 DEF FileAt, CompAt
  <2>2. /\ NewQueue \in QueueRecord /\ NewQueue.used_items = 0 /\ NewQueue.free_items = QueueCapacity
        /\ NewQueue.tail_index = 0 /\ NewQueue.head_index = 0
    BY CapacityAssumption DEF NewQueue, QueueRecord, Unwritten
  <2>3. RingInv(NewQueue, NoSlot)
    BY <2>2, CapacityAssumption DEF RingInv, NoSlot
  <2>4. QED
    BY <2>1, <2>3 DEF RingsInv, Init
<1>9. QED
  BY <1>4, <1>5, <1>6, <1>7, <1>8 DEF IInv, Inv

-----------------------------------------------------------------------------
LEMMA CountOfEntries ==
  ASSUME NEW q, NoRepeats(q), NEW w, w # Null
  PROVE  TimesIn(q, w) = IF w \in Entries(q) THEN 1 ELSE 0
<1>1. CASE w \in Entries(q)
  <2>1. PICK i \in DOMAIN q : q[i] = w
    BY <1>1 DEF Entries
  <2>2. {j \in DOMAIN q : q[j] = w} = {i}
    BY <2>1 DEF NoRepeats
  <2>3. QED
    BY <1>1, <2>2, FS_Singleton DEF TimesIn
<1>2. CASE w \notin Entries(q)
  <2>1. {j \in DOMAIN q : q[j] = w} = {}
    BY <1>2 DEF Entries
  <2>2. QED
    BY <1>2, <2>1, FS_EmptySet DEF TimesIn
<1>3. QED
  BY <1>1, <1>2

(* For a client that takes turns and destroys quietly: no worker drops a   *)
(* work, keeps one it has signalled, queues one twice or takes a slot that *)
(* was not written, however many works there are, and fs_destroy included. *)
THEOREM WorksInOnePlace == Orderly => (Spec => []EveryWorkInOnePlace)
<1> SUFFICES ASSUME Orderly PROVE Spec => []EveryWorkInOnePlace
  OBVIOUS
<1>1. ASSUME IInv PROVE EveryWorkInOnePlace
  <2>0. "crashed" \notin {file_thread.pc, comp_thread.pc}
    BY <1>1, Parts DEF ThreadType
  <2> SUFFICES ASSUME NEW w \in Issued
               PROVE  Places(w) = IF work[w].status = "issued" THEN 1 ELSE 0
    BY <2>0 DEF EveryWorkInOnePlace
  <2> DEFINE hands == {t \in {"file", "comp", "client"} :
                     w \in CASE t = "file" -> Hand(file_thread, {"run", "push"})
                             [] t = "comp" -> Hand(comp_thread, {"run", "push"})
                             [] t = "client" -> Hand(client, {"push_file", "push_comp"})}
  <2>1. w # Null
    BY <1>1, InHand
  <2>2. /\ TimesIn(files, w) = IF Has("file_queue", w) THEN 1 ELSE 0
        /\ TimesIn(comps, w) = IF Has("comp_queue", w) THEN 1 ELSE 0
    BY <1>1, <2>1, Parts, CountOfEntries DEF Has
  <2>3. /\ "file" \in hands <=> Has("file", w)
        /\ "comp" \in hands <=> Has("comp", w)
        /\ "client" \in hands <=> Has("client", w)
        /\ hands \subseteq {"file", "comp", "client"}
    BY DEF Has, Hand
  <2> HIDE DEF hands
  <2>4. \A g, h \in Holder : Has(g, w) /\ Has(h, w) => g = h
    BY <1>1 DEF IInv, PlaceInv, HolderInv
  <2>5. Cardinality(hands) = IF \E t \in {"file", "comp", "client"} : Has(t, w) THEN 1 ELSE 0
    <3>1. ASSUME NEW t \in {"file", "comp", "client"}, Has(t, w) PROVE Cardinality(hands) = 1
      <4>1. hands = {t}
        BY <2>3, <2>4, <3>1 DEF Holder
      <4>2. QED
        BY <4>1, FS_Singleton
    <3>2. ASSUME \A t \in {"file", "comp", "client"} : ~Has(t, w) PROVE Cardinality(hands) = 0
      <4>1. hands = {}
        BY <2>3, <3>2
      <4>2. QED
        BY <4>1, FS_EmptySet
    <3>3. QED
      BY <3>1, <3>2
  <2>6. work[w].status = "issued" <=> \E h \in Holder : Has(h, w)
    BY <1>1 DEF IInv, PlaceInv, HolderInv
  <2>7. Places(w) = (IF Has("file_queue", w) THEN 1 ELSE 0)
                      + (IF Has("comp_queue", w) THEN 1 ELSE 0)
                      + (IF \E t \in {"file", "comp", "client"} : Has(t, w) THEN 1 ELSE 0)
    BY <2>2, <2>5 DEF Places, hands, files, comps
  <2>8. QED
    BY <2>4, <2>6, <2>7 DEF Holder
<1>2. Inv => EveryWorkInOnePlace
  BY <1>1 DEF Inv
<1>3. Inv /\ [Next]_vars => Inv'
  BY InvStep
<1>4. QED
  BY <1>2, <1>3, InitInv, PTL DEF Spec

(* For a client that takes turns and destroys quietly: when fs_destroy     *)
(* frees a queue it is empty, and the thread at its other end is past      *)
(* pushing to it, whatever plain works it was called with.                 *)
THEOREM QueuesDestroyedUnused == Orderly => (Spec => []DestroyedQueuesUnused)
<1> SUFFICES ASSUME Orderly PROVE Spec => []DestroyedQueuesUnused
  OBVIOUS
<1>1. Inv => DestroyedQueuesUnused
  <2> SUFFICES ASSUME Inv PROVE DestroyedQueuesUnused
    OBVIOUS
  <2>1. IInv /\ file_queue \in QueueRecord /\ comp_queue \in QueueRecord
    BY DEF Inv, RingsInv, RingInv
  <2>2. /\ Len(files) = file_queue.used_items
        /\ Len(comps) = comp_queue.used_items
    BY <2>1, WaitingFacts DEF files, comps
  <2>3. /\ client.pc \in {"join_comp", "closed"} => files = <<>>
        /\ client.pc = "closed" => comps = <<>>
    BY <2>1, Parts DEF StopInv
  <2>4. client.pc \in {"join_comp", "closed"} => comp_thread.pc \notin {"run", "push"}
    BY <2>1, InHand DEF Stopping
  <2>5. QED
    BY <2>2, <2>3, <2>4, EmptySeq DEF DestroyedQueuesUnused
<1>2. Inv /\ [Next]_vars => Inv'
  BY InvStep
<1>3. QED
  BY <1>1, <1>2, InitInv, PTL DEF Spec

-----------------------------------------------------------------------------
(* Steps that leave the works alone.                                       *)
LEMMA ReadsKept ==
  ASSUME IInv, ReadInv, ReadsIntact, UNCHANGED <<work, seen>>,
         \A v \in Issued : ToUnpack(v)' => ToUnpack(v),
         client'.pc = "push_comp" => (client.pc = "push_comp" /\ client'.work = client.work)
  PROVE  ReadInv' /\ ReadsIntact'
<1>1. \A v \in Issued : Op(v)' = Op(v)
  BY DEF Op
<1>2. ReadInv'
  BY <1>1 DEF ReadInv, Issued, Op
<1>3. ReadsIntact'
  BY <1>1 DEF ReadsIntact, Issued
<1>4. QED
  BY <1>2, <1>3

LEMMA ReadsElsewhere ==
  ASSUME IInv, Effect, ReadInv, ReadsIntact,
         \/ ClaimFile \/ ClaimComp \/ FileClaim \/ CompClaim
         \/ PushFile \/ PushStopFile \/ PushStopComp \/ StopFile \/ JoinFile \/ JoinComp
         \/ \E w \in Issued : Wait(w)
         \/ FilePop \/ CompPop \/ FilePush \/ CompPush \/ CompWrite
  PROVE  ReadInv' /\ ReadsIntact'
<1>1. UNCHANGED <<work, seen>>
  BY DEF ClaimFile, ClaimComp, FileClaim, CompClaim, PushFile, PushStopFile, PushStopComp, StopFile, JoinFile, JoinComp, Wait, FilePop, CompPop,
         FilePush, CompPush, CompWrite
<1>2. client'.pc = "push_comp" => (client.pc = "push_comp" /\ client'.work = client.work)
  <2>1. CASE ClaimFile \/ ClaimComp
    <3>1. PICK i \in Int : client' = [client EXCEPT !.at = i]
      BY <2>1 DEF Effect
    <3>2. QED
      BY <3>1, Parts DEF ClientType
  <2>2. CASE ~(ClaimFile \/ ClaimComp)
    BY <2>2 DEF FileClaim, CompClaim, PushFile, PushStopFile, PushStopComp, StopFile, JoinFile,
                JoinComp, Wait, FilePop, CompPop, FilePush, CompPush, CompWrite, Ready, Doing
  <2>3. QED
    BY <2>1, <2>2
<1>3. ASSUME NEW v \in Issued, ToUnpack(v)' PROVE ToUnpack(v)
  <2>0. v # Null /\ Null \in Ref /\ comps \in Seq(Ref)
    BY InHand, Parts DEF QueueType
  <2>1. CASE ClaimFile \/ ClaimComp \/ FileClaim \/ CompClaim
    <3>1. /\ comps' = comps
          /\ file_thread' = file_thread \/ \E i \in Int : file_thread' = [file_thread EXCEPT !.at = i]
          /\ comp_thread' = comp_thread \/ \E i \in Int : comp_thread' = [comp_thread EXCEPT !.at = i]
      <4>1. file_thread' = file_thread \/ FileClaim
        BY <2>1 DEF ClaimFile, ClaimComp, FileClaim, CompClaim
      <4>2. comp_thread' = comp_thread \/ CompClaim
        BY <2>1 DEF ClaimFile, ClaimComp, FileClaim, CompClaim
      <4>3. QED
        BY <2>1, <4>1, <4>2 DEF Effect
    <3>2. /\ file_thread'.pc = file_thread.pc /\ file_thread'.work = file_thread.work
          /\ comp_thread'.pc = comp_thread.pc /\ comp_thread'.work = comp_thread.work
      BY <3>1, Parts DEF ThreadType
    <3>3. QED
      BY <1>3, <3>1, <3>2 DEF ToUnpack, Has
  <2>2. CASE \/ PushFile \/ PushStopFile \/ StopFile \/ JoinFile \/ JoinComp
             \/ \E w \in Issued : Wait(w)
    <3>1. UNCHANGED <<comp_queue, file_thread, comp_thread>>
      BY <2>2 DEF PushFile, PushStopFile, StopFile, JoinFile, JoinComp, Wait, queues
    <3>2. comps' = comps
      BY <3>1 DEF Effect
    <3>3. QED
      BY <1>3, <3>1, <3>2 DEF ToUnpack, Has
  <2>3. CASE PushStopComp
    <3>1. client.work = Null
      BY <2>3, Parts DEF PushStopComp, ClientType, Stopping
    <3>2. comps' = Append(comps, Null)
      BY <2>3, <3>1 DEF Effect
    <3>3. Entries(comps') = Entries(comps) \cup {Null}
      BY <2>0, <3>2, AppendFacts
    <3>4. UNCHANGED <<file_thread, comp_thread>>
      BY <2>3 DEF PushStopComp
    <3>5. QED
      BY <1>3, <2>0, <3>3, <3>4 DEF ToUnpack, Has
  <2>4. CASE FilePop
    <3>1. UNCHANGED <<comp_queue, comp_thread>> /\ file_thread'.pc # "push"
      BY <2>4 DEF FilePop, Pop, Takes, Doing
    <3>2. comps' = comps
      BY <3>1 DEF Effect
    <3>3. QED
      BY <1>3, <3>1, <3>2 DEF ToUnpack, Has
  <2>5. CASE CompPop
    <3>1. comps # <<>> /\ comps' = Tail(comps) /\ comp_thread' \in Takes(Head(comps))
      BY <2>5 DEF Effect
    <3>2. Entries(comps) = Entries(comps') \cup {Head(comps)}
      BY <2>0, <3>1, TailFacts
    <3>3. /\ comp_thread'.pc = "run" => comp_thread'.work = Head(comps)
          /\ comp_thread'.pc # "push"
      BY <3>1 DEF Takes, Doing
    <3>4. UNCHANGED file_thread
      BY <2>5 DEF CompPop
    <3>5. QED
      BY <1>3, <3>2, <3>3, <3>4 DEF ToUnpack, Has
  <2>6. CASE FilePush
    <3>1. comps' = Append(comps, file_thread.work)
      BY <2>6 DEF Effect
    <3>2. Entries(comps') = Entries(comps) \cup {file_thread.work}
      BY <2>0, <3>1, AppendFacts, Parts DEF ThreadType
    <3>3. QED
      BY <1>3, <2>6, <3>2 DEF FilePush, Ready, Doing, ToUnpack, Has
  <2>7. CASE CompPush
    <3>1. comps' = comps
      BY <2>7 DEF CompPush, Effect
    <3>2. QED
      BY <1>3, <2>7, <3>1 DEF CompPush, Ready, Doing, ToUnpack, Has
  <2>8. CASE CompWrite
    <3>1. comps' = comps
      BY <2>8 DEF CompWrite, queues, Effect
    <3>2. QED
      BY <1>3, <2>8, <3>1 DEF CompWrite, Doing, ToUnpack, Has
  <2>9. QED
    BY <2>1, <2>2, <2>3, <2>4, <2>5, <2>6, <2>7, <2>8
<1>4. QED
  BY <1>1, <1>2, <1>3, ReadsKept

LEMMA ReadsOfNewWork ==
  ASSUME IInv, Effect, ReadInv, ReadsIntact,
         (\E path \in Path : Read(path) \/ \E data \in Data : Write(path, data))
  PROVE  ReadInv' /\ ReadsIntact'
<1>0. PICK w : w = Len(work) + 1
  OBVIOUS
<1>1. PICK r : /\ r \in WorkRecord /\ work' = Append(work, r) /\ r.status = "issued"
               /\ client'.work = w /\ (client'.pc = "push_comp" => r.op = "write")
               /\ UNCHANGED <<comp_queue, file_thread, comp_thread>>
               /\ seen' = Append(seen, NoFile)
  <2> DEFINE R(op, path, payload) == [op |-> op, path |-> path, payload |-> payload,
                                      result |-> "ok", status |-> "issued"]
  <2>0. Data \subseteq Int /\ NoFile \in Int
    BY BoundsAssumption DEF Data, NoFile
  <2>1. CASE \E path \in Path : Read(path)
    <3>1. PICK path \in Path : Read(path)
      BY <2>1
    <3>2. WITNESS R("read", path, NoFile)
    <3>3. QED
      BY <1>0, <2>0, <3>1 DEF Read, NewWork, queues, Doing, WorkRecord
  <2>2. CASE \E path \in Path : \E data \in Data : Write(path, data)
    <3>1. PICK path \in Path, data \in Data : Write(path, data)
      BY <2>2
    <3>2. WITNESS R("write", path, data)
    <3>3. QED
      BY <1>0, <2>0, <3>1 DEF Write, NewWork, queues, Doing, WorkRecord
  <2>3. QED
    BY <2>1, <2>2
<1>a. comps' = comps
  BY <1>1 DEF Effect
<1>2. /\ Len(work) \in Nat /\ Issued = 1 .. Len(work) /\ Len(work') = w /\ Issued' = 1 .. w
      /\ \A v \in Issued : work'[v] = work[v]
      /\ work'[w] = r
  BY <1>0, <1>1, Parts, AppendProperties, LenProperties DEF WorkType, Issued
<1>3. /\ seen' \in Seq(Int) /\ Len(seen') = Len(work')
      /\ \A v \in Issued : seen'[v] = seen[v]
  BY <1>1, <1>2, AppendProperties, LenProperties DEF ReadInv, NoFile
<1>4. ~ToUnpack(w)'
  <2>1. w \notin Ref
    BY <1>0, <1>2 DEF Ref
  <2>2. w \notin Entries(comps) /\ file_thread.work # w /\ comp_thread.work # w
    BY <2>1, InHand, Parts DEF ThreadType
  <2>3. QED
    BY <1>a, <1>1, <2>2 DEF ToUnpack, Has
<1>5. \A v \in Issued : ToUnpack(v)' => ToUnpack(v)
  BY <1>a, <1>1 DEF ToUnpack, Has
<1>6. \A v \in Issued' : v = w \/ v \in Issued
  BY <1>0, <1>2
<1>7. ReadInv'
  BY <1>1, <1>2, <1>3, <1>4, <1>5, <1>6 DEF ReadInv, Op
<1>8. ReadsIntact'
  BY <1>1, <1>2, <1>3, <1>6 DEF ReadsIntact, Op
<1>9. QED
  BY <1>7, <1>8

LEMMA ReadsOfPackedWrites ==
  ASSUME IInv, Effect, ReadInv, ReadsIntact, PushComp
  PROVE  ReadInv' /\ ReadsIntact'
<1> DEFINE w == client.work
<1>0. comps' = Append(comps, w)
  BY DEF Effect
<1>1. /\ w \in Issued /\ Op(w) = "write" /\ comps \in Seq(Ref) /\ w \in Ref
      /\ comps' = Append(comps, w) /\ client'.pc = "ready"
      /\ UNCHANGED <<work, seen, file_thread, comp_thread>>
  BY <1>0, InHand, Parts DEF PushComp, ReadInv, QueueType, ClientType, Ready, Doing
<1>2. Entries(comps') = Entries(comps) \cup {w}
  BY <1>1, AppendFacts
<1>3. \A v \in Issued : ToUnpack(v)' => ToUnpack(v) \/ v = w
  BY <1>1, <1>2 DEF ToUnpack, Has
<1>4. ReadInv'
  BY <1>1, <1>3 DEF ReadInv, Issued, Op
<1>5. ReadsIntact'
  BY <1>1 DEF ReadsIntact, Issued, Op
<1>6. QED
  BY <1>4, <1>5

(* Steps that change one work, and leave it out of what is to be unpacked  *)
(* or with what was read.                                                  *)
OneChanges(w) ==
  /\ Rewritten(w)
  /\ seen' \in Seq(Int) /\ Len(seen') = Len(seen)
  /\ \A v \in Issued : v # w => seen'[v] = seen[v]
  /\ \A v \in Issued : v # w /\ ToUnpack(v)' => ToUnpack(v)
  /\ client'.pc # "push_comp" \/ (client.pc = "push_comp" /\ client'.work = client.work)
  /\ Op(w) = "read" /\ ToUnpack(w)' => work'[w].payload = seen'[w]
  /\ work'[w].status = "done" /\ Op(w) = "read" /\ work'[w].result = "ok" /\ seen'[w] \in Data
       => work'[w].payload = seen'[w]

LEMMA ReadsOfOne ==
  ASSUME IInv, Effect, ReadInv, ReadsIntact, NEW w \in Issued, OneChanges(w)
  PROVE  ReadInv' /\ ReadsIntact'
<1>1. /\ Len(work') = Len(work) /\ Issued' = Issued
      /\ \A v \in Issued : work'[v].op = work[v].op
      /\ \A v \in Issued : v # w => work'[v] = work[v]
  BY DEF OneChanges, Rewritten
<1>2. client'.pc = "push_comp" => client'.work \in Issued /\ (client.pc = "push_comp" /\ client'.work = client.work)
  BY InHand DEF OneChanges
<1>3. ReadInv'
  <2>1. seen' \in Seq(Int) /\ Len(seen') = Len(work')
    BY <1>1 DEF OneChanges, ReadInv
  <2>2. ASSUME NEW v \in Issued, v # w, Op(v)' = "read", ToUnpack(v)'
        PROVE  work'[v].payload = seen'[v]
    <3>1. work'[v] = work[v] /\ seen'[v] = seen[v] /\ ToUnpack(v)
      BY <1>1, <2>2 DEF OneChanges
    <3>2. Op(v) = "read"
      BY <2>2, <3>1 DEF Op
    <3>3. QED
      BY <3>1, <3>2 DEF ReadInv
  <2>3. ASSUME Op(w)' = "read", ToUnpack(w)' PROVE work'[w].payload = seen'[w]
    BY <1>1, <2>3 DEF OneChanges, Op
  <2>4. ASSUME client'.pc = "push_comp" PROVE work'[client'.work].op = "write"
    <3>1. client'.work \in Issued /\ (client.pc = "push_comp" /\ client'.work = client.work)
      BY <1>2, <2>4
    <3>2. Op(client.work) = "write"
      BY <2>4, <3>1 DEF ReadInv
    <3>3. QED
      BY <1>1, <3>1, <3>2 DEF Op
  <2>5. ASSUME NEW v \in Issued', Op(v)' = "read", ToUnpack(v)'
        PROVE  work'[v].payload = seen'[v]
    BY <1>1, <2>2, <2>3, <2>5
  <2>6. QED
    BY <2>1, <2>4, <2>5 DEF ReadInv, Op
<1>4. ReadsIntact'
  BY <1>1 DEF OneChanges, ReadsIntact, Op
<1>5. QED
  BY <1>3, <1>4

LEMMA ReadsOfFileThread ==
  ASSUME IInv, Effect, ReadInv, ReadsIntact, FileError \/ FileRead \/ FileWrite
  PROVE  ReadInv' /\ ReadsIntact'
<1>0. PICK w : w = file_thread.work
  OBVIOUS
<1>1. /\ w \in Issued /\ file_thread.pc = "run" /\ work[w] \in WorkRecord
      /\ work[w].path \in Path /\ work[w].payload \in Int
      /\ \A p \in Path : disk[p] \in Int
      /\ ~Has("comp_queue", w) /\ ~Has("comp", w)
      /\ UNCHANGED <<client, comps, comp_thread>>
      /\ file_thread' = Ready \/ file_thread' = Doing("push", w)
  <2>1. w \in Issued /\ file_thread.pc = "run" /\ work[w] \in WorkRecord /\ Has("file", w)
    BY <1>0, InHand DEF FileError, FileRead, FileWrite
  <2>2. ~Has("comp_queue", w) /\ ~Has("comp", w)
    BY <2>1 DEF IInv, PlaceInv, HolderInv, Holder
  <2>3. QED
    BY <1>0, <2>1, <2>2, Parts DEF FileError, FileRead, FileWrite, queues, WorkType, WorkRecord, Effect
<1>2. \A v \in Issued : v # w /\ ToUnpack(v)' => ToUnpack(v)
  BY <1>0, <1>1 DEF ToUnpack, Has, Ready, Doing
<1>3. file_thread' = Ready => ~ToUnpack(w)'
  BY <1>0, <1>1 DEF ToUnpack, Has, Ready, Doing
<1>4. /\ seen \in Seq(Int) /\ w \in 1 .. Len(seen)
      /\ work \in [Issued -> WorkRecord]
  BY <1>1, InHand, Parts, LenProperties DEF ReadInv, WorkType, Issued
<1>5. CASE FileError
  <2>1. Rewritten(w) /\ work'[w].result = "error"
    BY <1>0, <1>1, <1>4, <1>5, WorkDone, Parts DEF FileError, Fails, WorkRecord
  <2>2. OneChanges(w)
    BY <1>0, <1>1, <1>2, <1>3, <1>5, <2>1 DEF OneChanges, FileError, ReadInv
  <2>3. QED
    BY <1>1, <2>2, ReadsOfOne
<1>6. CASE FileWrite
  <2>1. Rewritten(w)
    <3>1. Fails(w) \/ Succeeds(w, work[w].payload)
      BY <1>0, <1>6 DEF FileWrite
    <3>2. QED
      BY <1>1, <3>1, WorkDone, Parts
  <2>2. Op(w) # "read" /\ UNCHANGED seen
    BY <1>0, <1>6 DEF FileWrite
  <2>3. OneChanges(w)
    BY <1>1, <1>2, <2>1, <2>2 DEF OneChanges, ReadInv
  <2>4. QED
    BY <1>1, <2>3, ReadsOfOne
<1>7. CASE FileRead
  <2> DEFINE stored == disk[work[w].path]
  <2>1. stored \in Int /\ seen' = [seen EXCEPT ![w] = stored]
    BY <1>0, <1>1, <1>7 DEF FileRead
  <2>2. /\ seen' \in Seq(Int) /\ Len(seen') = Len(seen) /\ seen'[w] = stored
        /\ \A v \in Issued : v # w => seen'[v] = seen[v]
    BY <1>1, <1>4, <2>1, InHand, ExceptSeq DEF ReadInv
  <2>3. Rewritten(w) /\ work'[w].payload = stored
    <3>1. CASE Succeeds(w, stored)
      BY <1>1, <1>4, <2>1, <3>1, WorkDone, Parts DEF Succeeds, WorkRecord
    <3>2. CASE StillInHand(w, stored)
      BY <1>1, <1>4, <2>1, <3>2, WorkInHand, Parts DEF StillInHand, WorkRecord
    <3>3. QED
      BY <1>0, <1>7, <3>1, <3>2 DEF FileRead
  <2>4. OneChanges(w)
    BY <1>1, <1>2, <2>2, <2>3 DEF OneChanges
  <2>5. QED
    BY <1>1, <2>4, ReadsOfOne
<1>8. QED
  BY <1>5, <1>6, <1>7

LEMMA ReadsOfFreed ==
  ASSUME IInv, Effect, ReadInv, ReadsIntact, (\E frees \in BOOLEAN : WaitReturns(frees))
  PROVE  ReadInv' /\ ReadsIntact'
<1>0. PICK w : w = client.work
  OBVIOUS
<1>1. /\ w \in Issued /\ client'.pc # "push_comp" /\ work[w].status = "done"
      /\ UNCHANGED <<comps, file_thread, comp_thread, seen>>
      /\ UNCHANGED work \/ work' = [work EXCEPT ![w].status = "freed"]
  BY <1>0, InHand, Parts DEF WaitReturns, AfterWait, Ready, Doing, queues, ClientType, Effect
<1>2. \A v \in Issued : ToUnpack(v)' => ToUnpack(v)
  BY <1>1 DEF ToUnpack, Has
<1>3. CASE UNCHANGED work
  BY <1>1, <1>2, <1>3, ReadsKept
<1>4. CASE work' = [work EXCEPT ![w].status = "freed"]
  <2>1. work \in [Issued -> WorkRecord]
    BY LenProperties, Parts DEF WorkType, Issued
  <2>2. Rewritten(w) /\ work'[w].status = "freed"
    BY <1>1, <1>4, <2>1, WorkDone, Parts DEF WorkRecord
  <2>3. ~ToUnpack(w)
    BY <1>1, InHand DEF ToUnpack, Undone, Holder
  <2>4. OneChanges(w)
    BY <1>1, <1>2, <2>2, <2>3 DEF OneChanges, ReadInv
  <2>5. QED
    BY <1>1, <2>4, ReadsOfOne
<1>5. QED
  BY <1>1, <1>3, <1>4

(* The header holds the size of the data if a byte does, and the garbage   *)
(* above it is not taken for a sign.                                       *)
NoSign == \A upper \in UpperBytes : 2 * upper < UpperRange

LEMMA HeaderHolds ==
  ASSUME MaxSize < ByteRange, NoSign, NEW data \in Data, NEW upper \in UpperBytes
  PROVE  Unpack(data, Signed(upper, Header(data))) = data
<1>1. /\ MaxSize \in Nat \ {0} /\ ByteRange \in Nat \ {0} /\ data \in Nat
      /\ 1 <= data /\ data <= MaxSize /\ upper \in Nat
  BY BoundsAssumption, MemoryAssumption DEF Data
<1>2. Header(data) = data
  BY <1>1 DEF Header
<1>3. Signed(upper, data) = upper * ByteRange + data
  BY DEF Signed, NoSign
<1>4. upper * ByteRange \in Nat
  BY <1>1
<1>5. data <= Signed(upper, data)
  BY <1>1, <1>3, <1>4
<1>6. QED
  BY <1>2, <1>5 DEF Unpack

LEMMA ReadsOfCompThread ==
  ASSUME MaxSize < ByteRange, NoSign, IInv, Effect, ReadInv, ReadsIntact, CompRead
  PROVE  ReadInv' /\ ReadsIntact'
<1>0. PICK w : w = comp_thread.work
  OBVIOUS
<1>1. /\ w \in Issued /\ Has("comp", w) /\ Op(w) = "read" /\ work[w].payload = seen[w]
      /\ UNCHANGED <<client, comps, file_thread, seen>> /\ comp_thread' = Ready
      /\ work \in [Issued -> WorkRecord]
  BY <1>0, InHand, Parts, LenProperties DEF CompRead, ReadInv, ToUnpack, queues, WorkType, Issued, Effect
<1>2. /\ \A v \in Issued : ToUnpack(v)' => ToUnpack(v)
      /\ ~ToUnpack(w)'
  <2>1. ~Has("comp_queue", w) /\ ~Has("file", w)
    BY <1>1 DEF IInv, PlaceInv, HolderInv, Holder
  <2>2. QED
    BY <1>0, <1>1, <2>1 DEF ToUnpack, Has, Ready, Doing
<1>3. PICK upper \in UpperBytes :
        Succeeds(w, Unpack(work[w].payload, Signed(upper, Header(work[w].payload))))
  BY <1>0 DEF CompRead
<1> DEFINE u == Unpack(work[w].payload, Signed(upper, Header(work[w].payload)))
<1>4. u \in Int
  BY BoundsAssumption DEF Unpack, Data, Garbage
<1>5. seen[w] \in Data => u = seen[w]
  BY <1>1, <1>3, HeaderHolds
<1> HIDE DEF u
<1>6. Succeeds(w, u)
  BY <1>3 DEF u
<1>7. Rewritten(w) /\ work'[w].payload = u
  BY <1>1, <1>4, <1>6, WorkDone, Parts DEF Succeeds, WorkRecord
<1>8. OneChanges(w)
  BY <1>1, <1>2, <1>5, <1>7 DEF OneChanges, ReadInv
<1>9. QED
  BY <1>1, <1>8, ReadsOfOne

(* As long as one byte holds the size of a file and the stack's bytes do   *)
(* not make it negative, every read that succeeds delivers what was        *)
(* stored, compressed or not and whatever else is read and written at the  *)
(* time, if the client takes turns (comp_thread_func's header).            *)
THEOREM SmallReadsIntact ==
  Orderly /\ MaxSize < ByteRange /\ NoSign => (Spec => []ReadsIntact)
<1> SUFFICES ASSUME Orderly, MaxSize < ByteRange, NoSign PROVE Spec => []ReadsIntact
  OBVIOUS
<1> DEFINE All == Inv /\ ReadInv /\ ReadsIntact
<1>1. Init => All
  <2> SUFFICES ASSUME Init PROVE All
    OBVIOUS
  <2>1. Issued = {} /\ Len(work) = 0 /\ seen = <<>> /\ client.pc = "ready"
    BY DEF Init, Issued, Ready, Doing
  <2>2. QED
    BY <2>1, InitInv, EmptySeq DEF ReadInv, ReadsIntact
<1>2. All /\ [Next]_vars => All'
  <2> SUFFICES ASSUME All, [Next]_vars PROVE All'
    OBVIOUS
  <2>0. IInv /\ Effect /\ ReadInv /\ ReadsIntact
    BY EffectHolds DEF Inv
  <2>1. Inv'
    BY InvStep
  <2>2. CASE UNCHANGED vars
    <3>1. comps' = comps
      BY <2>0, <2>2 DEF Effect, vars, queues
    <3>2. \A v \in Issued : ToUnpack(v)' => ToUnpack(v)
      BY <2>2, <3>1 DEF ToUnpack, Has, vars
    <3>3. QED
      BY <2>0, <2>1, <2>2, <3>2, ReadsKept DEF vars
  <2>3. CASE ClientStep
    BY <2>0, <2>1, <2>3, ReadsElsewhere, ReadsOfPackedWrites, ReadsOfFreed DEF ClientStep
  <2>4. CASE FileStep
    BY <2>0, <2>1, <2>4, ReadsElsewhere, ReadsOfFileThread DEF FileStep
  <2>5. CASE CompStep
    BY <2>0, <2>1, <2>5, ReadsElsewhere, ReadsOfCompThread DEF CompStep
  <2>6. QED
    BY <2>0, <2>1, <2>2, <2>3, <2>4, <2>5, ReadsOfNewWork, ReadsElsewhere DEF Next, Finished
<1>3. QED
  BY <1>1, <1>2, PTL DEF Spec
=============================================================================
