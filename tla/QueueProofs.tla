----------------------------- MODULE QueueProofs -----------------------------
(***************************************************************************)
(* Proofs about the ring buffer of Queue.tla, for every capacity, every    *)
(* set of items and every bound on the number of pushes.                   *)
(***************************************************************************)
EXTENDS Queue, FiniteSetTheorems, SequenceTheorems, TLAPS

(* An index computed with "% queue->capacity" addresses the ring.          *)
LEMMA IndexInRing == ASSUME NEW n \in Nat PROVE n % Capacity \in Slots
  BY CapacityAssumption DEF Slots

(* One step of Next keeps every variable in its type.  The counts of the   *)
(* semaphores stay in range by themselves: an acquire waits at zero and a  *)
(* release stops at the maximum.                                           *)
LEMMA TypeStep == TypeOK /\ [Next]_vars => TypeOK'
<1> SUFFICES ASSUME TypeOK, [Next]_vars PROVE TypeOK'
  OBVIOUS
<1> USE CapacityAssumption DEF TypeOK, Goto, ring
<1>1. ASSUME NEW t \in Pushers, NEW x \in Item, PushAcquire(t, x) PROVE TypeOK'
  BY <1>1 DEF PushAcquire, PC, Threads
<1>2. ASSUME NEW t \in Pushers, PushClaim(t) PROVE TypeOK'
  <2>1. tail_index % Capacity \in Slots
    BY IndexInRing
  <2>2. QED
    BY <1>2, <2>1 DEF PushClaim, PC, Threads
<1>3. ASSUME NEW t \in Pushers, PushWrite(t) PROVE TypeOK'
  BY <1>3 DEF PushWrite, PC, Threads
<1>4. ASSUME NEW t \in Pushers, PushRelease(t) PROVE TypeOK'
  BY <1>4 DEF PushRelease, Release, PC, Threads
<1>5. ASSUME NEW t \in Pushers, TryPushRefused(t) PROVE TypeOK'
  BY <1>5 DEF TryPushRefused, Threads
<1>6. ASSUME NEW t \in Poppers, PopAcquire(t) PROVE TypeOK'
  BY <1>6 DEF PopAcquire, PC, Threads
<1>7. ASSUME NEW t \in Poppers, PopClaim(t) PROVE TypeOK'
  <2>1. head_index % Capacity \in Slots
    BY IndexInRing
  <2>2. QED
    BY <1>7, <2>1 DEF PopClaim, PC, Threads
<1>8. ASSUME NEW t \in Poppers, PopRead(t) PROVE TypeOK'
  BY <1>8 DEF PopRead, PC, Threads
<1>9. ASSUME NEW t \in Poppers, PopRelease(t) PROVE TypeOK'
  BY <1>9 DEF PopRelease, Release, PC, Threads
<1>10. ASSUME NEW t \in Poppers, TryPopRefused(t) PROVE TypeOK'
  BY <1>10 DEF TryPopRefused, Threads
<1>11. ASSUME UNCHANGED vars PROVE TypeOK'
  BY <1>11 DEF vars, locals
<1>12. QED
  BY <1>1, <1>2, <1>3, <1>4, <1>5, <1>6, <1>7, <1>8, <1>9, <1>10, <1>11
  DEF Next, PushStep, PopStep, Drained

LEMMA TypeInit == Init => TypeOK
  BY CapacityAssumption DEF Init, TypeOK, Slots, PC

(* Type correctness for any threads: no index ever leaves the ring and no  *)
(* semaphore its range.                                                    *)
THEOREM TypeCorrect == Spec => []TypeOK
<1>1. Init => TypeOK
  BY TypeInit
<1>2. TypeOK /\ [Next]_vars => TypeOK'
  BY TypeStep
<1>3. QED
  BY <1>1, <1>2, PTL DEF Spec

-----------------------------------------------------------------------------
(* Token conservation, for any number of pushers and poppers. *)

Busy == At(Threads, PC \ {"idle"})

(* Starting a call adds its thread to the busy ones, ending it removes it, *)
(* and any other change of pc leaves their number alone.                   *)
LEMMA BusyStarts ==
  ASSUME TypeOK, NEW t \in Threads, NEW l \in PC \ {"idle"}, Goto(t, "idle", l)
  PROVE  Cardinality(Busy') = Cardinality(Busy) + 1 /\ Cardinality(Busy) \in Nat
<1>1. Busy' = Busy \cup {t} /\ t \notin Busy
  BY DEF Busy, At, Goto, TypeOK
<1>2. IsFiniteSet(Busy)
  BY ThreadAssumption, FS_Subset DEF Busy, At, Threads
<1>3. QED
  BY <1>1, <1>2, FS_AddElement, FS_CardinalityType

LEMMA BusyEnds ==
  ASSUME TypeOK, NEW t \in Threads, NEW l \in PC \ {"idle"}, Goto(t, l, "idle")
  PROVE  /\ Cardinality(Busy') = Cardinality(Busy) - 1
         /\ Cardinality(Busy) \in Nat /\ Cardinality(Busy') \in Nat
<1>1. Busy' = Busy \ {t} /\ t \in Busy
  BY DEF Busy, At, Goto, TypeOK
<1>2. IsFiniteSet(Busy)
  BY ThreadAssumption, FS_Subset DEF Busy, At, Threads
<1>3. IsFiniteSet(Busy')
  BY <1>1, <1>2, FS_RemoveElement
<1>4. QED
  BY <1>1, <1>2, <1>3, FS_RemoveElement, FS_CardinalityType

LEMMA BusyGoesOn ==
  ASSUME TypeOK, NEW t \in Threads, NEW l \in PC \ {"idle"}, NEW m \in PC \ {"idle"},
         Goto(t, l, m)
  PROVE  Busy' = Busy
  BY DEF Busy, At, Goto, TypeOK

LEMMA TokensStep == TypeOK /\ TokensConserved /\ [Next]_vars => TokensConserved'
<1> SUFFICES ASSUME TypeOK, TokensConserved, [Next]_vars PROVE TokensConserved'
  OBVIOUS
<1>0. /\ used_items + free_items + Cardinality(Busy) = Capacity
      /\ Capacity \in Nat /\ used_items \in Nat /\ free_items \in Nat
      /\ TokensConserved' <=>
           (used_items' + free_items' + Cardinality(Busy') = Capacity)
  BY CapacityAssumption DEF TokensConserved, Busy, At, TypeOK
<1>1. ASSUME NEW t \in Pushers, NEW x \in Item, PushAcquire(t, x) PROVE TokensConserved'
  <2>1. Cardinality(Busy') = Cardinality(Busy) + 1 /\ Cardinality(Busy) \in Nat
    BY <1>1, BusyStarts DEF PushAcquire, Threads, PC
  <2>2. QED
    BY <1>0, <1>1, <2>1 DEF PushAcquire
<1>2. ASSUME NEW t \in Pushers, PushClaim(t) \/ PushWrite(t) PROVE TokensConserved'
  <2>1. Busy' = Busy
    BY <1>2, BusyGoesOn DEF PushClaim, PushWrite, Threads, PC
  <2>2. QED
    BY <1>0, <1>2, <2>1 DEF PushClaim, PushWrite
<1>3. ASSUME NEW t \in Pushers, PushRelease(t) PROVE TokensConserved'
  <2>1. /\ Cardinality(Busy') = Cardinality(Busy) - 1
        /\ Cardinality(Busy) \in Nat /\ Cardinality(Busy') \in Nat
    BY <1>3, BusyEnds DEF PushRelease, Threads, PC
  <2>2. used_items < Capacity
    BY <1>0, <2>1
  <2>3. used_items' = used_items + 1 /\ free_items' = free_items
    BY <1>3, <2>2 DEF PushRelease, Release
  <2>4. QED
    BY <1>0, <2>1, <2>3
<1>4. ASSUME NEW t \in Poppers, PopAcquire(t) PROVE TokensConserved'
  <2>1. Cardinality(Busy') = Cardinality(Busy) + 1 /\ Cardinality(Busy) \in Nat
    BY <1>4, BusyStarts DEF PopAcquire, Threads, PC
  <2>2. QED
    BY <1>0, <1>4, <2>1 DEF PopAcquire
<1>5. ASSUME NEW t \in Poppers, PopClaim(t) \/ PopRead(t) PROVE TokensConserved'
  <2>1. Busy' = Busy
    BY <1>5, BusyGoesOn DEF PopClaim, PopRead, Threads, PC
  <2>2. QED
    BY <1>0, <1>5, <2>1 DEF PopClaim, PopRead, ring
<1>6. ASSUME NEW t \in Poppers, PopRelease(t) PROVE TokensConserved'
  <2>1. /\ Cardinality(Busy') = Cardinality(Busy) - 1
        /\ Cardinality(Busy) \in Nat /\ Cardinality(Busy') \in Nat
    BY <1>6, BusyEnds DEF PopRelease, Threads, PC
  <2>2. free_items < Capacity
    BY <1>0, <2>1
  <2>3. free_items' = free_items + 1 /\ used_items' = used_items
    BY <1>6, <2>2 DEF PopRelease, Release
  <2>4. QED
    BY <1>0, <2>1, <2>3
<1>7. ASSUME UNCHANGED <<pc, used_items, free_items>> PROVE TokensConserved'
  BY <1>7 DEF TokensConserved, At
<1>8. QED
  BY <1>1, <1>2, <1>3, <1>4, <1>5, <1>6, <1>7
  DEF Next, PushStep, PopStep, TryPushRefused, TryPopRefused, Drained, vars, ring, locals

(* No semaphore token is lost, doubled or thrown away at a full semaphore, *)
(* however many threads push and pop at the same time.                     *)
THEOREM Conservation == Spec => []TokensConserved
<1>1. ASSUME Init PROVE TokensConserved
  <2>1. Busy = {}
    BY <1>1 DEF Init, Busy, At
  <2>2. Cardinality(Busy) = 0
    BY <2>1, FS_EmptySet
  <2>3. used_items + free_items + Cardinality(Busy) = Capacity
    BY <1>1, <2>2, CapacityAssumption DEF Init
  <2>4. QED
    BY <2>3 DEF TokensConserved, Busy
<1>2. QED
  BY <1>1, TypeInit, TypeStep, TokensStep, PTL DEF Spec

-----------------------------------------------------------------------------
(* The reasons of a try call that gives up, for any number of threads.     *)

(* Calls with an item that is in the ring, but in neither semaphore: it is *)
(* not announced yet, or it is promised to a popper.                       *)
Underway == At(Threads, {"push_release", "pop_claim", "pop_read"})

(* What is written and not read is announced or underway. *)
UnreadCounted == Len(sent) - Len(received) = used_items + Cardinality(Underway)

LEMMA UnderwayCounts ==
  ASSUME TypeOK
  PROVE  /\ IsFiniteSet(Underway) /\ Cardinality(Underway) \in Nat
         /\ Cardinality(Busy) \in Nat /\ Cardinality(Underway) <= Cardinality(Busy)
<1>1. IsFiniteSet(Busy) /\ Underway \subseteq Busy
  BY ThreadAssumption, FS_Subset DEF Busy, Underway, At, Threads, PC
<1>2. QED
  BY <1>1, FS_Subset, FS_CardinalityType

LEMMA UnderwayGrows ==
  ASSUME TypeOK, NEW t \in Threads, NEW l, NEW m \in {"push_release", "pop_claim", "pop_read"},
         l \notin {"push_release", "pop_claim", "pop_read"}, Goto(t, l, m)
  PROVE  Cardinality(Underway') = Cardinality(Underway) + 1
<1>1. Underway' = Underway \cup {t} /\ t \notin Underway
  BY DEF Underway, At, Goto, TypeOK
<1>2. QED
  BY <1>1, UnderwayCounts, FS_AddElement

LEMMA UnderwayShrinks ==
  ASSUME TypeOK, NEW t \in Threads, NEW l \in {"push_release", "pop_claim", "pop_read"}, NEW m,
         m \notin {"push_release", "pop_claim", "pop_read"}, Goto(t, l, m)
  PROVE  Cardinality(Underway') = Cardinality(Underway) - 1
<1>1. Underway' = Underway \ {t} /\ t \in Underway
  BY DEF Underway, At, Goto, TypeOK
<1>2. QED
  BY <1>1, UnderwayCounts, FS_RemoveElement

LEMMA UnreadStep ==
  TypeOK /\ TokensConserved /\ UnreadCounted /\ [Next]_vars => UnreadCounted'
<1> SUFFICES ASSUME TypeOK, TokensConserved, UnreadCounted, [Next]_vars PROVE UnreadCounted'
  OBVIOUS
<1>0. /\ Len(sent) \in Nat /\ Len(received) \in Nat /\ used_items \in Nat
      /\ Len(sent) - Len(received) = used_items + Cardinality(Underway)
      /\ Cardinality(Underway) \in Nat /\ Cardinality(Underway) <= Cardinality(Busy)
  BY UnderwayCounts, LenProperties DEF TypeOK, UnreadCounted
<1>1. ASSUME NEW t \in Pushers, NEW x \in Item, PushAcquire(t, x) PROVE UnreadCounted'
  <2>1. Underway' = Underway
    BY <1>1 DEF PushAcquire, Goto, Underway, At, Threads, TypeOK
  <2>2. QED
    BY <1>1, <2>1 DEF PushAcquire, UnreadCounted
<1>2. ASSUME NEW t \in Pushers, PushClaim(t) PROVE UnreadCounted'
  <2>1. Underway' = Underway
    BY <1>2 DEF PushClaim, Goto, Underway, At, Threads, TypeOK
  <2>2. QED
    BY <1>2, <2>1 DEF PushClaim, UnreadCounted
<1>3. ASSUME NEW t \in Pushers, PushWrite(t) PROVE UnreadCounted'
  <2>1. Cardinality(Underway') = Cardinality(Underway) + 1
    BY <1>3, UnderwayGrows DEF PushWrite, Threads
  <2>2. Len(sent') = Len(sent) + 1 /\ UNCHANGED <<received, used_items>>
    BY <1>3 DEF PushWrite, TypeOK, Threads
  <2>3. QED
    BY <1>0, <2>1, <2>2 DEF UnreadCounted
<1>4. ASSUME NEW t \in Pushers, PushRelease(t) PROVE UnreadCounted'
  <2>1. Cardinality(Underway') = Cardinality(Underway) - 1
    BY <1>4, UnderwayShrinks DEF PushRelease, Threads
  <2>2. Cardinality(Busy') = Cardinality(Busy) - 1 /\ Cardinality(Busy') \in Nat
    BY <1>4, BusyEnds DEF PushRelease, Threads, PC
  <2>3. used_items < Capacity
    <3>1. used_items + free_items + Cardinality(Busy) = Capacity
      BY DEF TokensConserved, Busy
    <3>2. free_items \in Nat /\ Cardinality(Busy) \in Nat
      BY UnderwayCounts, CapacityAssumption DEF TypeOK
    <3>3. QED
      BY <1>0, <2>2, <3>1, <3>2
  <2>4. used_items' = used_items + 1 /\ UNCHANGED <<sent, received>>
    BY <1>4, <2>3 DEF PushRelease, Release
  <2>5. QED
    BY <1>0, <2>1, <2>4 DEF UnreadCounted
<1>5. ASSUME NEW t \in Poppers, PopAcquire(t) PROVE UnreadCounted'
  <2>1. Cardinality(Underway') = Cardinality(Underway) + 1
    BY <1>5, UnderwayGrows DEF PopAcquire, Threads
  <2>2. QED
    BY <1>0, <1>5, <2>1 DEF PopAcquire, UnreadCounted
<1>6. ASSUME NEW t \in Poppers, PopClaim(t) PROVE UnreadCounted'
  <2>1. Underway' = Underway
    BY <1>6 DEF PopClaim, Goto, Underway, At, Threads, TypeOK
  <2>2. QED
    BY <1>6, <2>1 DEF PopClaim, UnreadCounted
<1>7. ASSUME NEW t \in Poppers, PopRead(t) PROVE UnreadCounted'
  <2>1. Cardinality(Underway') = Cardinality(Underway) - 1
    BY <1>7, UnderwayShrinks DEF PopRead, Threads
  <2>2. Len(received') = Len(received) + 1 /\ UNCHANGED <<sent, used_items>>
    BY <1>7 DEF PopRead, TypeOK, Threads, ring
  <2>3. QED
    BY <1>0, <2>1, <2>2 DEF UnreadCounted
<1>8. ASSUME NEW t \in Poppers, PopRelease(t) PROVE UnreadCounted'
  <2>1. Underway' = Underway
    BY <1>8 DEF PopRelease, Goto, Underway, At, Threads, TypeOK
  <2>2. QED
    BY <1>8, <2>1 DEF PopRelease, UnreadCounted
<1>9. ASSUME UNCHANGED <<pc, used_items, sent, received>> PROVE UnreadCounted'
  BY <1>9 DEF UnreadCounted, Underway, At
<1>10. QED
  BY <1>1, <1>2, <1>3, <1>4, <1>5, <1>6, <1>7, <1>8, <1>9
  DEF Next, PushStep, PopStep, TryPushRefused, TryPopRefused, Drained, vars, ring, locals

(* A try call that gives up does so for a reason, however many threads     *)
(* push and pop at the same time.                                          *)
THEOREM RefusalsAlwaysJustified == Spec => RefusalsJustified
<1> DEFINE unread == Len(sent) - Len(received)
           busy == Cardinality(Busy)
<1>1. Init => TokensConserved /\ UnreadCounted
  <2> SUFFICES ASSUME Init PROVE TokensConserved /\ UnreadCounted
    OBVIOUS
  <2>1. Busy = {} /\ Underway = {}
    BY DEF Init, Busy, Underway, At
  <2>2. Cardinality(Busy) = 0 /\ Cardinality(Underway) = 0
    BY <2>1, FS_EmptySet
  <2>3. used_items = 0 /\ free_items = Capacity /\ Len(sent) = 0 /\ Len(received) = 0
    BY DEF Init
  <2>4. QED
    BY <2>2, <2>3, CapacityAssumption DEF TokensConserved, Busy, UnreadCounted
<1>2. ASSUME TypeOK, TokensConserved, UnreadCounted
      PROVE  /\ free_items = 0 => unread + busy >= Capacity
             /\ used_items = 0 => unread <= busy
  BY <1>2, UnderwayCounts, CapacityAssumption DEF TokensConserved, Busy, UnreadCounted, TypeOK
<1>3. ASSUME TypeOK, TokensConserved, UnreadCounted, [Next]_vars, NEW t \in refused' \ refused
      PROVE  /\ t \in Pushers => unread + busy >= Capacity
             /\ t \in Poppers => unread <= busy
  <2>1. \/ t \in Pushers /\ TryPushRefused(t)
        \/ t \in Poppers /\ TryPopRefused(t)
    BY <1>3
    DEF Next, PushStep, PopStep, PushAcquire, PushClaim, PushWrite, PushRelease, PopAcquire,
        PopClaim, PopRead, PopRelease, TryPushRefused, TryPopRefused, Drained, vars, locals
  <2>2. QED
    BY <1>2, <1>3, <2>1, ThreadAssumption DEF TryPushRefused, TryPopRefused
<1>4. TypeOK /\ TokensConserved /\ UnreadCounted /\ [Next]_vars
        => [\A t \in refused' \ refused :
              LET unread_ == Len(sent) - Len(received)
                  busy_ == Cardinality(At(Threads, PC \ {"idle"}))
              IN  /\ t \in Pushers => unread_ + busy_ >= Capacity
                  /\ t \in Poppers => unread_ <= busy_]_vars
  BY <1>3 DEF Busy
<1>5. QED
  BY <1>1, <1>4, TypeInit, TypeStep, TokensStep, UnreadStep, PTL DEF Spec, RefusalsJustified

-----------------------------------------------------------------------------
(***************************************************************************)
(* One pusher p and one popper c, the way render.c and net.c use a queue.  *)
(* The tickets then cut the history in four: what c has read, what c has   *)
(* taken a token for, what p has written, and what p has announced.        *)
(***************************************************************************)
Reserved(p) == IF pc[p] = "push_claim" THEN tail_index + 1 ELSE tail_index
WrittenBy(p) == IF pc[p] = "push_write" THEN tail_index - 1 ELSE tail_index
Announced(p) ==
  IF pc[p] \in {"push_write", "push_release"} THEN tail_index - 1 ELSE tail_index
Taken(c) == IF pc[c] = "pop_claim" THEN head_index + 1 ELSE head_index
ReadBy(c) == IF pc[c] = "pop_read" THEN head_index - 1 ELSE head_index
HandedBack(c) ==
  IF pc[c] \in {"pop_read", "pop_release"} THEN head_index - 1 ELSE head_index

(* The semaphores measure the distances between those tickets, so the slot *)
(* being written lies outside the window of unread items.                  *)
PairTickets(p, c) ==
  /\ pc[p] \in {"idle", "push_claim", "push_write", "push_release"}
  /\ pc[c] \in {"idle", "pop_claim", "pop_read", "pop_release"}
  /\ used_items = Announced(p) - Taken(c)
  /\ free_items = Capacity + HandedBack(c) - Reserved(p)
  /\ pc[p] \in {"push_claim", "push_write"} => item[p] \in Item
  /\ pc[p] = "push_write" => index[p] = (tail_index - 1) % Capacity
  /\ pc[c] = "pop_read" => index[c] = (head_index - 1) % Capacity

(* That window holds the unread part of the history, in order. *)
PairHistory(p, c) ==
  /\ Len(sent) = WrittenBy(p)
  /\ Len(received) = ReadBy(c)
  /\ \A i \in 1 .. ReadBy(c) : received[i] = sent[i]
  /\ \A i \in ReadBy(c) + 1 .. WrittenBy(p) : items[(i - 1) % Capacity] = sent[i]

PairInv(p, c) == PairTickets(p, c) /\ PairHistory(p, c)

(* Two tickets less than a lap apart have different slots. *)
LEMMA DistinctSlots ==
  ASSUME NEW a \in Nat, NEW b \in Nat, a < b, b - a < Capacity
  PROVE  a % Capacity # b % Capacity
<1> SUFFICES ASSUME a % Capacity = b % Capacity PROVE FALSE
  OBVIOUS
<1> DEFINE q == a \div Capacity
           r == b \div Capacity
<1>1. /\ a = Capacity * q + (a % Capacity)
      /\ b = Capacity * r + (b % Capacity)
      /\ q \in Int /\ r \in Int /\ a % Capacity \in Int
  BY CapacityAssumption
<1> HIDE DEF q, r
<1>2. b - a = Capacity * (r - q)
  BY <1>1, CapacityAssumption, Z3
<1>3. CASE r - q <= 0
  <2>1. Capacity * (r - q) <= 0
    BY <1>1, <1>3, CapacityAssumption, Z3
  <2>2. QED
    BY <1>2, <2>1, CapacityAssumption
<1>4. CASE r - q >= 1
  <2>1. Capacity * (r - q) >= Capacity
    BY <1>1, <1>4, CapacityAssumption, Z3
  <2>2. QED
    BY <1>2, <2>1, CapacityAssumption
<1>5. QED
  BY <1>1, <1>3, <1>4

(* What PairInv says of the tickets alone: a window of unread items of at  *)
(* most Capacity, and strictly less while p is writing.                    *)
LEMMA Window ==
  ASSUME NEW p \in Pushers, NEW c \in Poppers, TypeOK, PairInv(p, c)
  PROVE  /\ ReadBy(c) \in Nat /\ WrittenBy(p) \in Nat
         /\ ReadBy(c) <= WrittenBy(p)
         /\ pc[c] = "pop_read" => ReadBy(c) < WrittenBy(p)
         /\ WrittenBy(p) - ReadBy(c) <= Capacity
         /\ pc[p] = "push_write" => WrittenBy(p) - ReadBy(c) < Capacity
<1>1. /\ ReadBy(c) \in Nat /\ WrittenBy(p) \in Nat
      /\ head_index \in Nat /\ tail_index \in Nat /\ Capacity \in Nat
  BY CapacityAssumption DEF PairInv, PairHistory, TypeOK
<1>2. 0 <= Announced(p) - Taken(c) /\ 0 <= Capacity + HandedBack(c) - Reserved(p)
  BY CapacityAssumption DEF PairInv, PairTickets, TypeOK
<1>3. QED
  BY <1>1, <1>2 DEF PairInv, PairTickets,
       Reserved, WrittenBy, Announced, Taken, ReadBy, HandedBack

(* A step that neither writes nor reads a slot leaves the history part as  *)
(* it is.                                                                  *)
LEMMA HistoryKept ==
  ASSUME NEW p, NEW c, PairHistory(p, c), WrittenBy(p)' = WrittenBy(p),
         ReadBy(c)' = ReadBy(c), UNCHANGED <<items, sent, received>>
  PROVE  PairHistory(p, c)'
  BY DEF PairHistory

LEMMA PairStep ==
  ASSUME NEW p, NEW c, Pushers = {p}, Poppers = {c}, TypeOK, PairInv(p, c), [Next]_vars
  PROVE  PairInv(p, c)'
<1> DEFINE Kept == WrittenBy(p)' = WrittenBy(p) /\ ReadBy(c)' = ReadBy(c)
<1> USE DEF Reserved, WrittenBy, Announced, Taken, ReadBy, HandedBack
<1>a. p # c /\ p \in Threads /\ c \in Threads /\ p \in Pushers /\ c \in Poppers
  BY ThreadAssumption DEF Threads
<1>b. /\ Capacity \in Nat /\ Capacity > 0
      /\ head_index \in Nat /\ tail_index \in Nat
      /\ used_items \in 0 .. Capacity /\ free_items \in 0 .. Capacity
  BY CapacityAssumption DEF TypeOK
<1>c. /\ pc \in [Threads -> PC] /\ index \in [Threads -> Slots]
      /\ sent \in Seq(Item \cup {NoItem}) /\ received \in Seq(Item \cup {NoItem})
      /\ items \in [Slots -> Item \cup {NoItem}]
      /\ item \in [Threads -> Item \cup {NoItem}]
  BY DEF TypeOK
<1>d. PairTickets(p, c) /\ PairHistory(p, c)
  BY DEF PairInv
<1>1. ASSUME NEW x \in Item, PushAcquire(p, x) PROVE PairInv(p, c)'
  <2>1. PairTickets(p, c)'
    BY <1>a, <1>b, <1>c, <1>d, <1>1 DEF PushAcquire, Goto, PairTickets
  <2>2. Kept /\ UNCHANGED <<items, sent, received>>
    BY <1>a, <1>b, <1>c, <1>1 DEF PushAcquire, Goto
  <2>3. QED
    BY <1>d, <2>1, <2>2, HistoryKept DEF PairInv
<1>2. CASE PushClaim(p)
  <2>1. PairTickets(p, c)'
    BY <1>a, <1>b, <1>c, <1>d, <1>2 DEF PushClaim, Goto, PairTickets
  <2>2. Kept /\ UNCHANGED <<items, sent, received>>
    BY <1>a, <1>b, <1>c, <1>2 DEF PushClaim, Goto
  <2>3. QED
    BY <1>d, <2>1, <2>2, HistoryKept DEF PairInv
<1>3. CASE PushWrite(p)
  <2>0. PairTickets(p, c)'
    BY <1>a, <1>b, <1>c, <1>d, <1>3 DEF PushWrite, Goto, PairTickets
  <2>a. /\ pc[p] = "push_write" /\ pc' = [pc EXCEPT ![p] = "push_release"]
        /\ items' = [items EXCEPT ![index[p]] = item[p]] /\ sent' = Append(sent, item[p])
        /\ UNCHANGED <<received, tail_index, head_index>>
    BY <1>3 DEF PushWrite, Goto
  <2>b. /\ index[p] = (tail_index - 1) % Capacity
        /\ index[p] \in Slots /\ item[p] \in Item \cup {NoItem}
    BY <1>a, <1>c, <1>d, <2>a DEF PairTickets
  <2>c. /\ WrittenBy(p)' = WrittenBy(p) + 1 /\ WrittenBy(p) = tail_index - 1
        /\ ReadBy(c)' = ReadBy(c)
    BY <1>a, <1>b, <1>c, <2>a
  <2>1. /\ pc[p] = "push_write" /\ index[p] = (tail_index - 1) % Capacity
        /\ items' = [items EXCEPT ![index[p]] = item[p]] /\ sent' = Append(sent, item[p])
        /\ WrittenBy(p)' = WrittenBy(p) + 1 /\ WrittenBy(p) = tail_index - 1
        /\ ReadBy(c)' = ReadBy(c) /\ received' = received /\ index[p] \in Slots
        /\ Len(sent) = tail_index - 1 /\ item[p] \in Item \cup {NoItem}
    BY <1>d, <2>a, <2>b, <2>c DEF PairHistory
  <2>2. /\ ReadBy(c) \in Nat /\ WrittenBy(p) \in Nat
        /\ ReadBy(c) <= WrittenBy(p) /\ WrittenBy(p) - ReadBy(c) < Capacity
        /\ Len(received) = ReadBy(c)
    BY <1>a, <1>d, <2>1, Window DEF PairHistory
  <2> HIDE DEF WrittenBy, ReadBy
  <2>3. ASSUME NEW i \in ReadBy(c) + 1 .. WrittenBy(p) + 1
        PROVE  items'[(i - 1) % Capacity] = sent'[i]
    <3>1. CASE i = WrittenBy(p) + 1
      BY <1>c, <2>1, <2>2, <3>1
    <3>2. CASE i < WrittenBy(p) + 1
      <4>1. /\ i \in ReadBy(c) + 1 .. WrittenBy(p) /\ i - 1 \in Nat
            /\ WrittenBy(p) \in Nat
            /\ i - 1 < WrittenBy(p) /\ WrittenBy(p) - (i - 1) < Capacity
        BY <1>b, <2>2, <3>2
      <4>2. (i - 1) % Capacity # index[p]
        BY <2>1, <4>1, DistinctSlots
      <4>3. items[(i - 1) % Capacity] = sent[i] /\ (i - 1) % Capacity \in Slots
        BY <1>d, <4>1, IndexInRing DEF PairHistory
      <4>4. sent'[i] = sent[i]
        BY <1>c, <2>1, <2>2, <4>1
      <4>5. QED
        BY <1>c, <2>1, <4>2, <4>3, <4>4
    <3>3. QED
      BY <2>2, <3>1, <3>2
  <2>4. ASSUME NEW i \in 1 .. ReadBy(c) PROVE received'[i] = sent'[i]
    <3>1. i \in 1 .. Len(sent) /\ received[i] = sent[i]
      BY <1>d, <2>1, <2>2 DEF PairHistory
    <3>2. QED
      BY <1>c, <2>1, <3>1
  <2>5. Len(sent') = WrittenBy(p)' /\ Len(received') = ReadBy(c)'
    BY <1>c, <2>1, <2>2
  <2>6. PairHistory(p, c)'
    BY <2>1, <2>3, <2>4, <2>5 DEF PairHistory
  <2>7. QED
    BY <2>0, <2>6 DEF PairInv
<1>4. CASE PushRelease(p)
  <2>1. used_items < Capacity
    BY <1>a, <1>b, <1>c, <1>d, <1>4 DEF PushRelease, Goto, PairTickets
  <2>2. PairTickets(p, c)'
    BY <1>a, <1>b, <1>c, <1>d, <1>4, <2>1 DEF PushRelease, Release, Goto, PairTickets
  <2>3. Kept /\ UNCHANGED <<items, sent, received>>
    BY <1>a, <1>b, <1>c, <1>4 DEF PushRelease, Goto
  <2>4. QED
    BY <1>d, <2>2, <2>3, HistoryKept DEF PairInv
<1>5. CASE PopAcquire(c)
  <2>1. PairTickets(p, c)'
    BY <1>a, <1>b, <1>c, <1>d, <1>5 DEF PopAcquire, Goto, PairTickets
  <2>2. Kept /\ UNCHANGED <<items, sent, received>>
    BY <1>a, <1>b, <1>c, <1>5 DEF PopAcquire, Goto
  <2>3. QED
    BY <1>d, <2>1, <2>2, HistoryKept DEF PairInv
<1>6. CASE PopClaim(c)
  <2>1. PairTickets(p, c)'
    BY <1>a, <1>b, <1>c, <1>d, <1>6 DEF PopClaim, Goto, PairTickets
  <2>2. Kept /\ UNCHANGED <<items, sent, received>>
    BY <1>a, <1>b, <1>c, <1>6 DEF PopClaim, Goto
  <2>3. QED
    BY <1>d, <2>1, <2>2, HistoryKept DEF PairInv
<1>7. CASE PopRead(c)
  <2>0. PairTickets(p, c)'
    BY <1>a, <1>b, <1>c, <1>d, <1>7 DEF PopRead, Goto, PairTickets, ring
  <2>1. /\ pc[c] = "pop_read" /\ index[c] = (head_index - 1) % Capacity
        /\ ReadBy(c) = head_index - 1 /\ ReadBy(c)' = ReadBy(c) + 1
        /\ WrittenBy(p)' = WrittenBy(p) /\ sent' = sent /\ items' = items
        /\ received' = Append(received, items[index[c]])
        /\ Len(received) = ReadBy(c) /\ Len(sent) = WrittenBy(p)
    BY <1>a, <1>b, <1>c, <1>d, <1>7 DEF PopRead, Goto, PairTickets, PairHistory, ring
  <2>2. /\ ReadBy(c) \in Nat /\ WrittenBy(p) \in Nat /\ ReadBy(c) < WrittenBy(p)
        /\ items[index[c]] \in Item \cup {NoItem}
    BY <1>a, <1>c, <1>d, <2>1, Window
  <2> HIDE DEF WrittenBy, ReadBy
  <2>3. items[index[c]] = sent[ReadBy(c) + 1]
    <3>1. ReadBy(c) + 1 \in ReadBy(c) + 1 .. WrittenBy(p)
      BY <2>2
    <3>2. items[((ReadBy(c) + 1) - 1) % Capacity] = sent[ReadBy(c) + 1]
      BY <1>d, <3>1 DEF PairHistory
    <3>3. (ReadBy(c) + 1) - 1 = head_index - 1
      BY <2>1, <2>2
    <3>4. QED
      BY <2>1, <3>2, <3>3
  <2>4. ASSUME NEW i \in 1 .. ReadBy(c) + 1 PROVE received'[i] = sent'[i]
    <3>1. CASE i = ReadBy(c) + 1
      BY <1>c, <2>1, <2>2, <2>3, <3>1
    <3>2. CASE i \in 1 .. ReadBy(c)
      <4>1. received[i] = sent[i]
        BY <1>d, <3>2 DEF PairHistory
      <4>2. QED
        BY <1>c, <2>1, <2>2, <3>2, <4>1
    <3>3. QED
      BY <2>2, <3>1, <3>2
  <2>5. ASSUME NEW i \in (ReadBy(c) + 1) + 1 .. WrittenBy(p)
        PROVE  items'[(i - 1) % Capacity] = sent'[i]
    <3>1. i \in ReadBy(c) + 1 .. WrittenBy(p)
      BY <2>2
    <3>2. QED
      BY <1>d, <2>1, <3>1 DEF PairHistory
  <2>6. Len(sent') = WrittenBy(p)' /\ Len(received') = ReadBy(c)'
    BY <1>c, <2>1, <2>2
  <2>7. PairHistory(p, c)'
    BY <2>1, <2>4, <2>5, <2>6 DEF PairHistory
  <2>8. QED
    BY <2>0, <2>7 DEF PairInv
<1>8. CASE PopRelease(c)
  <2>1. free_items < Capacity
    BY <1>a, <1>b, <1>c, <1>d, <1>8 DEF PopRelease, Goto, PairTickets
  <2>2. PairTickets(p, c)'
    BY <1>a, <1>b, <1>c, <1>d, <1>8, <2>1 DEF PopRelease, Release, Goto, PairTickets
  <2>3. Kept /\ UNCHANGED <<items, sent, received>>
    BY <1>a, <1>b, <1>c, <1>8 DEF PopRelease, Goto
  <2>4. QED
    BY <1>d, <2>2, <2>3, HistoryKept DEF PairInv
<1>9. CASE UNCHANGED <<ring, pc, index, item, sent, received>>
  BY <1>d, <1>9 DEF PairInv, PairTickets, PairHistory, ring
<1>10. QED
  BY <1>1, <1>2, <1>3, <1>4, <1>5, <1>6, <1>7, <1>8, <1>9
  DEF Next, PushStep, PopStep, TryPushRefused, TryPopRefused, Drained, vars, locals

LEMMA PairInit ==
  ASSUME NEW p, NEW c, Pushers = {p}, Poppers = {c}, Init
  PROVE  PairInv(p, c)
  BY CapacityAssumption
  DEF Init, Threads, PairInv, PairTickets, PairHistory,
      Reserved, WrittenBy, Announced, Taken, ReadBy, HandedBack

(* What the invariant gives: order, and exclusive access to the slot that  *)
(* is being written.                                                       *)
LEMMA PairImpliesFifo ==
  ASSUME NEW p, NEW c, Pushers = {p}, Poppers = {c}, TypeOK, PairInv(p, c)
  PROVE  Fifo /\ SlotOwned
<1>a. p \in Pushers /\ c \in Poppers
  OBVIOUS
<1>b. /\ ReadBy(c) \in Nat /\ WrittenBy(p) \in Nat
      /\ ReadBy(c) <= WrittenBy(p)
      /\ Len(sent) = WrittenBy(p) /\ Len(received) = ReadBy(c)
      /\ \A i \in 1 .. ReadBy(c) : received[i] = sent[i]
  BY <1>a, Window DEF PairInv, PairHistory
<1>1. Fifo
  BY <1>b DEF Fifo
<1>2. ASSUME pc[p] = "push_write", pc[c] = "pop_read" PROVE index[p] # index[c]
  <2>1. /\ index[p] = WrittenBy(p) % Capacity /\ index[c] = ReadBy(c) % Capacity
    BY <1>2 DEF PairInv, PairTickets, WrittenBy, ReadBy
  <2>2. ReadBy(c) < WrittenBy(p) /\ WrittenBy(p) - ReadBy(c) < Capacity
    BY <1>a, <1>2, Window
  <2>3. QED
    BY <1>b, <2>1, <2>2, DistinctSlots
<1>3. SlotOwned
  BY <1>2 DEF SlotOwned, Threads, PairInv, PairTickets
<1>4. QED
  BY <1>1, <1>3

(* With one pusher and one popper the queue is FIFO for every capacity:    *)
(* nothing is lost, repeated, reordered or invented.                       *)
THEOREM PairFifo ==
  ASSUME NEW p, NEW c, Pushers = {p}, Poppers = {c}
  PROVE  Spec => []Fifo
<1>1. Init => TypeOK /\ PairInv(p, c)
  BY TypeInit, PairInit
<1>2. TypeOK /\ PairInv(p, c) /\ [Next]_vars => TypeOK' /\ PairInv(p, c)'
  BY TypeStep, PairStep
<1>3. TypeOK /\ PairInv(p, c) => Fifo
  BY PairImpliesFifo
<1>4. QED
  BY <1>1, <1>2, <1>3, PTL DEF Spec

(* With one pusher and one popper no slot is accessed while it is written, *)
(* for every capacity.                                                     *)
THEOREM PairSlotOwned ==
  ASSUME NEW p, NEW c, Pushers = {p}, Poppers = {c}
  PROVE  Spec => []SlotOwned
<1>1. Init => TypeOK /\ PairInv(p, c)
  BY TypeInit, PairInit
<1>2. TypeOK /\ PairInv(p, c) /\ [Next]_vars => TypeOK' /\ PairInv(p, c)'
  BY TypeStep, PairStep
<1>3. TypeOK /\ PairInv(p, c) => SlotOwned
  BY PairImpliesFifo
<1>4. QED
  BY <1>1, <1>2, <1>3, PTL DEF Spec

-----------------------------------------------------------------------------
(***************************************************************************)
(* The ring of one pusher and one popper implements BoundedFifo.           *)
(***************************************************************************)
(* The counts of Queue.tla, for one pusher and one popper. *)
SameTickets(p, c) == Written = WrittenBy(p) /\ Consumed = ReadBy(c)

LEMMA PairContents ==
  ASSUME NEW p, NEW c, Pushers = {p}, Poppers = {c}, TypeOK
  PROVE  SameTickets(p, c)
<1>1. At(Pushers, {"push_write"}) = IF pc[p] = "push_write" THEN {p} ELSE {}
  BY DEF At
<1>2. At(Poppers, {"pop_read"}) = IF pc[c] = "pop_read" THEN {c} ELSE {}
  BY DEF At
<1>3. Cardinality({p}) = 1 /\ Cardinality({c}) = 1 /\ Cardinality({}) = 0
  BY FS_Singleton, FS_EmptySet
<1>4. Cardinality(At(Pushers, {"push_write"})) = IF pc[p] = "push_write" THEN 1 ELSE 0
  BY <1>1, <1>3
<1>5. Cardinality(At(Poppers, {"pop_read"})) = IF pc[c] = "pop_read" THEN 1 ELSE 0
  BY <1>2, <1>3
<1>6. QED
  BY <1>4, <1>5 DEF SameTickets, TypeOK, Written, Consumed, WrittenBy, ReadBy

(* Append and Tail, recognised by what they do to each position. *)
LEMMA TailIsRest ==
  ASSUME NEW S, NEW q \in Seq(S), NEW r \in Seq(S), Len(q) > 0, Len(r) = Len(q) - 1,
         \A i \in 1 .. Len(r) : r[i] = q[i + 1]
  PROVE  r = Tail(q)
<1>1. Tail(q) \in Seq(S) /\ Len(Tail(q)) = Len(q) - 1
  OBVIOUS
<1>2. \A i \in 1 .. Len(r) : Tail(q)[i] = q[i+1]
  OBVIOUS
<1>3. QED
  BY <1>1, <1>2, SeqEqual

LEMMA AppendIsLonger ==
  ASSUME NEW S, NEW q \in Seq(S), NEW r \in Seq(S), NEW x \in S, Len(r) = Len(q) + 1,
         \A i \in 1 .. Len(q) : r[i] = q[i], r[Len(q) + 1] = x
  PROVE  r = Append(q, x)
<1>1. Append(q, x) \in Seq(S) /\ Len(Append(q, x)) = Len(q) + 1
  OBVIOUS
<1>2. \A i \in 1 .. Len(r) : Append(q, x)[i] = r[i]
  OBVIOUS
<1>3. QED
  BY <1>1, <1>2, SeqEqual
(* The slots of the window spell out the unread part of the history. *)
ContentsInv ==
  /\ Contents \in Seq(Item \cup {NoItem})
  /\ Len(Contents) = Len(sent) - Len(received)
  /\ \A i \in 1 .. Len(sent) - Len(received) : Contents[i] = sent[Len(received) + i]

LEMMA ContentsAreUnread ==
  ASSUME NEW p, NEW c, Pushers = {p}, Poppers = {c}, TypeOK, PairInv(p, c)
  PROVE  ContentsInv
<1>1. /\ Len(sent) = Written /\ Len(received) = Consumed
      /\ Len(sent) = WrittenBy(p) /\ Len(received) = ReadBy(c)
      /\ Len(sent) \in Nat /\ Len(received) \in Nat /\ Len(received) <= Len(sent)
  BY PairContents, Window DEF PairInv, PairHistory, TypeOK, SameTickets
<1>2. ASSUME NEW i \in 1 .. Len(sent) - Len(received)
      PROVE  /\ Contents[i] = sent[Len(received) + i]
             /\ Contents[i] \in Item \cup {NoItem}
  <2>1. Len(received) + i \in Len(received) + 1 .. Len(sent)
    BY <1>1
  <2>2. items[((Len(received) + i) - 1) % Capacity] = sent[Len(received) + i]
    BY <1>1, <2>1 DEF PairInv, PairHistory
  <2>3. Contents[i] = items[(Len(received) + i - 1) % Capacity]
    BY <1>1 DEF Contents
  <2>4. sent[Len(received) + i] \in Item \cup {NoItem}
    BY <1>1, <2>1 DEF TypeOK
  <2>5. QED
    BY <2>2, <2>3, <2>4
<1>3. Contents = [i \in 1 .. Len(sent) - Len(received) |-> Contents[i]]
  BY <1>1 DEF Contents
<1>4. Len(sent) - Len(received) \in Nat
  BY <1>1
<1>5. QED
  BY <1>2, <1>3, <1>4 DEF ContentsInv

(* A step that changes neither the tickets read and written nor the slots  *)
(* is a stutter of the abstract queue.                                     *)
LEMMA ContentsKept ==
  ASSUME UNCHANGED <<items, received>>, Written' = Written, Consumed' = Consumed
  PROVE  UNCHANGED <<Contents, received>>
  BY DEF Contents

LEMMA RefinementStep ==
  ASSUME NEW p, NEW c, Pushers = {p}, Poppers = {c},
         TypeOK, TypeOK', PairInv(p, c), ContentsInv, ContentsInv',
         SameTickets(p, c), SameTickets(p, c)', [Next]_vars
  PROVE  [Abstract!Next]_<<Contents, received>>
<1> DEFINE U == Item \cup {NoItem}
<1>a. /\ p # c /\ p \in Pushers /\ c \in Poppers
      /\ p \in Threads /\ c \in Threads /\ Capacity \in Nat
  BY ThreadAssumption, CapacityAssumption DEF Threads
<1>b. /\ pc \in [Threads -> PC] /\ pc' \in [Threads -> PC]
      /\ head_index \in Nat /\ tail_index \in Nat
      /\ head_index' \in Nat /\ tail_index' \in Nat
      /\ sent \in Seq(U) /\ received \in Seq(U)
      /\ item \in [Threads -> U] /\ items \in [Slots -> U] /\ index \in [Threads -> Slots]
  BY DEF TypeOK
<1>c. /\ Written = WrittenBy(p) /\ Consumed = ReadBy(c)
      /\ Written' = WrittenBy(p)' /\ Consumed' = ReadBy(c)'
  BY DEF SameTickets
<1>1. CASE PushWrite(p)
  <2>1. /\ pc[p] = "push_write" /\ item[p] \in Item
        /\ sent' = Append(sent, item[p]) /\ received' = received
        /\ Len(sent') = Len(sent) + 1 /\ Len(sent) \in Nat /\ Len(received) \in Nat
    BY <1>b, <1>1 DEF PushWrite, Goto, PairInv, PairTickets
  <2>2. Len(sent) - Len(received) < Capacity /\ Len(received) <= Len(sent)
    BY <1>a, <2>1, Window DEF PairInv, PairHistory
  <2>3. Len(Contents) < Capacity /\ Len(Contents') = Len(Contents) + 1
    BY <1>b, <2>1, <2>2 DEF ContentsInv
  <2>4. \A i \in 1 .. Len(Contents) : Contents'[i] = Contents[i]
    <3>1. TAKE i \in 1 .. Len(Contents)
    <3>a. /\ i \in 1 .. Len(sent') - Len(received') /\ i \in 1 .. Len(sent) - Len(received)
          /\ Len(received') = Len(received)
      BY <2>1, <2>2 DEF ContentsInv
    <3>2. Contents'[i] = sent'[Len(received) + i] /\ Contents[i] = sent[Len(received) + i]
      BY <3>a DEF ContentsInv
    <3>3. sent'[Len(received) + i] = sent[Len(received) + i]
      BY <1>b, <2>1, <2>2 DEF ContentsInv
    <3>4. QED
      BY <3>2, <3>3
  <2>5. Contents'[Len(Contents) + 1] = item[p]
    <3>a. /\ Len(Contents) + 1 \in 1 .. Len(sent') - Len(received')
          /\ Len(received') = Len(received)
      BY <2>1, <2>2 DEF ContentsInv
    <3>1. Contents'[Len(Contents) + 1] = sent'[Len(received) + (Len(Contents) + 1)]
      BY <3>a DEF ContentsInv
    <3>2. Len(received) + (Len(Contents) + 1) = Len(sent) + 1
      BY <1>b, <2>2 DEF ContentsInv
    <3>3. sent'[Len(sent) + 1] = item[p]
      BY <1>b, <2>1
    <3>4. QED
      BY <3>1, <3>2, <3>3
  <2>6. Contents' = Append(Contents, item[p])
    <3>1. Contents \in Seq(U) /\ Contents' \in Seq(U) /\ item[p] \in U
      BY <2>1 DEF ContentsInv
    <3>2. QED
      BY <2>3, <2>4, <2>5, <3>1, AppendIsLonger
  <2>7. QED
    BY <2>1, <2>3, <2>6 DEF Abstract!Next, Abstract!Push
<1>2. CASE PopRead(c)
  <2>1. /\ pc[c] = "pop_read" /\ sent' = sent
        /\ received' = Append(received, items[index[c]])
        /\ items[index[c]] \in U
        /\ Len(received') = Len(received) + 1
    BY <1>a, <1>b, <1>2 DEF PopRead, Goto
  <2>2. /\ Len(received) < Len(sent) /\ Len(received) \in Nat /\ Len(sent) \in Nat
        /\ Len(received) = ReadBy(c) /\ Len(sent) = WrittenBy(p)
    BY <1>a, <1>b, <2>1, Window DEF PairInv, PairHistory
  <2>3. Len(Contents) > 0 /\ Len(Contents') = Len(Contents) - 1
    BY <1>b, <2>1, <2>2 DEF ContentsInv
  <2>4. \A i \in 1 .. Len(Contents') : Contents'[i] = Contents[i + 1]
    <3>1. TAKE i \in 1 .. Len(Contents')
    <3>2. Contents'[i] = sent'[Len(received') + i]
      BY <2>1, <2>2 DEF ContentsInv
    <3>3. Contents[i + 1] = sent[Len(received) + (i + 1)]
      BY <2>1, <2>2, <2>3 DEF ContentsInv
    <3>4. Len(received') + i = Len(received) + (i + 1)
      BY <2>1, <2>2
    <3>5. QED
      BY <2>1, <3>2, <3>3, <3>4
  <2>5. Contents' = Tail(Contents)
    BY <2>3, <2>4, TailIsRest DEF ContentsInv
  <2>6. items[index[c]] = Head(Contents)
    <3>1. index[c] = ReadBy(c) % Capacity
      BY <2>1 DEF PairInv, PairTickets, ReadBy
    <3>2. items[((ReadBy(c) + 1) - 1) % Capacity] = sent[ReadBy(c) + 1]
      BY <2>2 DEF PairInv, PairHistory
    <3>3. (ReadBy(c) + 1) - 1 = ReadBy(c)
      BY <2>2
    <3>4. Head(Contents) = sent[Len(received) + 1]
      BY <2>2, <2>3 DEF ContentsInv
    <3>5. QED
      BY <2>2, <3>1, <3>2, <3>3, <3>4
  <2>7. QED
    BY <2>1, <2>3, <2>5, <2>6 DEF Abstract!Next, Abstract!Pop
<1>3. ASSUME UNCHANGED <<items, received>>, WrittenBy(p)' = WrittenBy(p),
             ReadBy(c)' = ReadBy(c)
      PROVE  UNCHANGED <<Contents, received>>
  BY <1>c, <1>3, ContentsKept
<1>4. ASSUME NEW x \in Item, PushAcquire(p, x) PROVE UNCHANGED <<Contents, received>>
  BY <1>a, <1>b, <1>3, <1>4 DEF PushAcquire, Goto, WrittenBy, ReadBy
<1>5. CASE PushClaim(p)
  BY <1>a, <1>b, <1>3, <1>5 DEF PushClaim, Goto, WrittenBy, ReadBy
<1>6. CASE PushRelease(p)
  BY <1>a, <1>b, <1>3, <1>6 DEF PushRelease, Goto, WrittenBy, ReadBy
<1>7. CASE PopAcquire(c)
  BY <1>a, <1>b, <1>3, <1>7 DEF PopAcquire, Goto, WrittenBy, ReadBy
<1>8. CASE PopClaim(c)
  BY <1>a, <1>b, <1>3, <1>8 DEF PopClaim, Goto, WrittenBy, ReadBy
<1>9. CASE PopRelease(c)
  BY <1>a, <1>b, <1>3, <1>9 DEF PopRelease, Goto, WrittenBy, ReadBy
<1>10. CASE UNCHANGED <<ring, pc, received>>
  BY <1>3, <1>10 DEF ring, WrittenBy, ReadBy
<1>11. QED
  BY <1>1, <1>2, <1>4, <1>5, <1>6, <1>7, <1>8, <1>9, <1>10
  DEF Next, PushStep, PopStep, TryPushRefused, TryPopRefused, Drained, vars, locals

LEMMA RefinementInit ==
  ASSUME NEW p, NEW c, Pushers = {p}, Poppers = {c}, Init, TypeOK, PairInv(p, c)
  PROVE  Abstract!Init
<1>1. ContentsInv
  BY ContentsAreUnread
<1>2. sent = <<>> /\ received = <<>>
  BY DEF Init
<1>3. Len(Contents) = 0
  BY <1>1, <1>2 DEF ContentsInv
<1>4. Contents = <<>>
  BY <1>1, <1>3, EmptySeq DEF ContentsInv
<1>5. QED
  BY <1>2, <1>4 DEF Abstract!Init

(* The ring with one pusher and one popper implements the bounded FIFO     *)
(* queue of BoundedFifo: a push takes effect when it writes its slot, a    *)
(* pop when it reads one.                                                  *)
THEOREM PairImplementsFifo ==
  ASSUME NEW p, NEW c, Pushers = {p}, Poppers = {c}
  PROVE  Spec => ImplementsFifo
<1>1. Init => TypeOK /\ PairInv(p, c)
  BY TypeInit, PairInit
<1>2. TypeOK /\ PairInv(p, c) /\ [Next]_vars => TypeOK' /\ PairInv(p, c)'
  BY TypeStep, PairStep
<1>3. TypeOK /\ PairInv(p, c) => ContentsInv
  BY ContentsAreUnread
<1>7. TypeOK => SameTickets(p, c)
  BY PairContents
<1>4. Init /\ TypeOK /\ PairInv(p, c) => Abstract!Init
  BY RefinementInit
<1>5. (TypeOK /\ TypeOK' /\ PairInv(p, c) /\ ContentsInv /\ ContentsInv'
         /\ SameTickets(p, c) /\ SameTickets(p, c)' /\ [Next]_vars)
        => [Abstract!Next]_(Abstract!fifoVars)
  BY RefinementStep DEF Abstract!fifoVars
<1>6. QED
  BY <1>1, <1>2, <1>3, <1>4, <1>5, <1>7, PTL DEF Spec, ImplementsFifo, Abstract!Spec
=============================================================================
