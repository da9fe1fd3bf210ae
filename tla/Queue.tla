-------------------------------- MODULE Queue --------------------------------
(***************************************************************************)
(* queue.c: a bounded queue of pointers on a ring of Capacity slots.  Two  *)
(* counting semaphores hold back a pusher when the ring is full and a      *)
(* popper when it is empty; the slot is chosen by an atomic increment of   *)
(* tail_index or head_index.  No lock covers the four steps of a call, so  *)
(* each is an action of its own: take a token, claim a slot, access the    *)
(* slot, give the other token back.                                        *)
(*                                                                         *)
(* The LIFO operation, dequeue, is only used by trace.c, with a mutex held *)
(* across the whole call.  It is not part of this module.                  *)
(***************************************************************************)
EXTENDS Integers, Sequences, FiniteSets

CONSTANTS Pushers,    \* threads that call queue_push and queue_try_push
          Poppers,    \* threads that call queue_pop and queue_try_pop
          Item,       \* the pointers pushed
          NoItem,     \* what a slot holds before its first write
          Capacity,   \* capacity given to queue_create
          MaxPushes   \* bound: no push starts once this many items are in

ASSUME CapacityAssumption == Capacity \in Nat \ {0}
ASSUME ThreadAssumption == /\ Pushers \cap Poppers = {}
                           /\ IsFiniteSet(Pushers \cup Poppers)
ASSUME ItemAssumption == NoItem \notin Item
ASSUME BoundAssumption == MaxPushes \in Nat

Threads == Pushers \cup Poppers
Slots == 0 .. Capacity - 1

VARIABLES used_items,  \* count of the semaphore poppers wait on
          free_items,  \* count of the semaphore pushers wait on
          items,       \* the ring
          head_index,  \* number of slots claimed by poppers so far
          tail_index,  \* number of slots claimed by pushers so far
          pc,          \* where each thread stands in its call
          index,       \* each thread's local "index"
          item,        \* each thread's local "item"
          refused,     \* threads whose last try call found no token
          sent,        \* history: items in the order they were written
          received     \* history: items in the order they were read

ring == <<used_items, free_items, items, head_index, tail_index>>
locals == <<pc, index, item, refused>>
vars == <<ring, locals, sent, received>>

PC == {"idle", "push_claim", "push_write", "push_release",
       "pop_claim", "pop_read", "pop_release"}

(* ReleaseSemaphore leaves a semaphore at its maximum unchanged. *)
Release(count) == IF count < Capacity THEN count + 1 ELSE count

(* Faulty variant: the free semaphore starts one too high. *)
InitOneTooMany ==
  /\ used_items = 0 /\ head_index = 0 /\ tail_index = 0
  /\ free_items = Capacity + 1
  /\ items = [i \in Slots |-> NoItem]
  /\ pc = [t \in Threads |-> "idle"]
  /\ index = [t \in Threads |-> 0]
  /\ item = [t \in Threads |-> NoItem]
  /\ refused = {} /\ sent = <<>> /\ received = <<>>

Init == /\ used_items = 0
        /\ free_items = Capacity
        /\ items = [i \in Slots |-> NoItem]
        /\ head_index = 0
        /\ tail_index = 0
        /\ pc = [t \in Threads |-> "idle"]
        /\ index = [t \in Threads |-> 0]
        /\ item = [t \in Threads |-> NoItem]
        /\ refused = {}
        /\ sent = <<>>
        /\ received = <<>>

Goto(t, from, to) == /\ pc[t] = from
                     /\ pc' = [pc EXCEPT ![t] = to]

-----------------------------------------------------------------------------
(* queue_push and the successful queue_try_push. *)

(* Faulty variant: the answer of semaphore_try_acquire is ignored. *)
PushAcquireRegardless(t, x) ==
  /\ Goto(t, "idle", "push_claim")
  /\ Len(sent) < MaxPushes
  /\ free_items' = IF free_items > 0 THEN free_items - 1 ELSE 0
  /\ item' = [item EXCEPT ![t] = x]
  /\ refused' = refused \ {t}
  /\ UNCHANGED <<used_items, items, head_index, tail_index, index, sent, received>>

PushAcquire(t, x) ==
  /\ Goto(t, "idle", "push_claim")
  /\ Len(sent) < MaxPushes
  /\ free_items > 0
  /\ free_items' = free_items - 1
  /\ item' = [item EXCEPT ![t] = x]
  /\ refused' = refused \ {t}
  /\ UNCHANGED <<used_items, items, head_index, tail_index, index, sent, received>>

(* Faulty variant: the ticket is not reduced modulo the capacity. *)
PushClaimNoModulo(t) ==
  /\ Goto(t, "push_claim", "push_write")
  /\ index' = [index EXCEPT ![t] = tail_index]
  /\ tail_index' = tail_index + 1
  /\ UNCHANGED <<used_items, free_items, items, head_index, item, refused, sent, received>>

PushClaim(t) ==
  /\ Goto(t, "push_claim", "push_write")
  /\ index' = [index EXCEPT ![t] = tail_index % Capacity]
  /\ tail_index' = tail_index + 1
  /\ UNCHANGED <<used_items, free_items, items, head_index, item, refused, sent, received>>

PushWrite(t) ==
  /\ Goto(t, "push_write", "push_release")
  /\ items' = [items EXCEPT ![index[t]] = item[t]]
  /\ sent' = Append(sent, item[t])
  /\ UNCHANGED <<used_items, free_items, head_index, tail_index, index, item, refused, received>>

(* Faulty variant: the item is not announced. *)
PushReleaseNothing(t) ==
  /\ Goto(t, "push_release", "idle")
  /\ UNCHANGED <<ring, index, item, refused, sent, received>>

PushRelease(t) ==
  /\ Goto(t, "push_release", "idle")
  /\ used_items' = Release(used_items)
  /\ UNCHANGED <<free_items, items, head_index, tail_index, index, item, refused, sent, received>>

(* Faulty variant: try_push gives up with a slot to spare. *)
TryPushRefusedEarly(t) ==
  /\ pc[t] = "idle"
  /\ free_items <= 1
  /\ refused' = refused \cup {t}
  /\ UNCHANGED <<ring, pc, index, item, sent, received>>

(* queue_try_push finding no free token: returns false. *)
TryPushRefused(t) ==
  /\ pc[t] = "idle"
  /\ free_items = 0
  /\ refused' = refused \cup {t}
  /\ UNCHANGED <<ring, pc, index, item, sent, received>>

-----------------------------------------------------------------------------
(* queue_pop and the successful queue_try_pop. *)

PopAcquire(t) ==
  /\ Goto(t, "idle", "pop_claim")
  /\ used_items > 0
  /\ used_items' = used_items - 1
  /\ refused' = refused \ {t}
  /\ UNCHANGED <<free_items, items, head_index, tail_index, index, item, sent, received>>

(* Faulty variant: the slot comes from the incremented head_index. *)
PopClaimNext(t) ==
  /\ Goto(t, "pop_claim", "pop_read")
  /\ index' = [index EXCEPT ![t] = (head_index + 1) % Capacity]
  /\ head_index' = head_index + 1
  /\ UNCHANGED <<used_items, free_items, items, tail_index, item, refused, sent, received>>

PopClaim(t) ==
  /\ Goto(t, "pop_claim", "pop_read")
  /\ index' = [index EXCEPT ![t] = head_index % Capacity]
  /\ head_index' = head_index + 1
  /\ UNCHANGED <<used_items, free_items, items, tail_index, item, refused, sent, received>>

PopRead(t) ==
  /\ Goto(t, "pop_read", "pop_release")
  /\ item' = [item EXCEPT ![t] = items[index[t]]]
  /\ received' = Append(received, items[index[t]])
  /\ UNCHANGED <<ring, index, refused, sent>>

(* Faulty variant: the slot is never handed back. *)
PopReleaseNothing(t) ==
  /\ Goto(t, "pop_release", "idle")
  /\ UNCHANGED <<ring, index, item, refused, sent, received>>

PopRelease(t) ==
  /\ Goto(t, "pop_release", "idle")
  /\ free_items' = Release(free_items)
  /\ UNCHANGED <<used_items, items, head_index, tail_index, index, item, refused, sent, received>>

(* queue_try_pop finding no used token: returns NULL. *)
TryPopRefused(t) ==
  /\ pc[t] = "idle"
  /\ used_items = 0
  /\ refused' = refused \cup {t}
  /\ UNCHANGED <<ring, pc, index, item, sent, received>>

-----------------------------------------------------------------------------
PushStep(t) == PushClaim(t) \/ PushWrite(t) \/ PushRelease(t)
PopStep(t) == PopClaim(t) \/ PopRead(t) \/ PopRelease(t)

(* The bound on pushes is reached and everything pushed has been popped. *)
Drained == /\ Len(sent) >= MaxPushes
           /\ used_items = 0
           /\ \A t \in Threads : pc[t] = "idle"
           /\ UNCHANGED vars

Next == \/ \E t \in Pushers : \/ \E x \in Item : PushAcquire(t, x)
                              \/ PushStep(t)
                              \/ TryPushRefused(t)
        \/ \E t \in Poppers : \/ PopAcquire(t)
                              \/ PopStep(t)
                              \/ TryPopRefused(t)
        \/ Drained

(* A running thread finishes the call it is in, and every popper is a loop *)
(* that comes back for the next item (render_thread_func, send_thread,     *)
(* file_thread_func, comp_thread_func).  Nobody has to push.               *)
Fairness == /\ \A t \in Pushers : WF_vars(PushStep(t))
            /\ \A t \in Poppers : WF_vars(PopStep(t)) /\ SF_vars(PopAcquire(t))

Spec == Init /\ [][Next]_vars /\ Fairness

-----------------------------------------------------------------------------
At(S, L) == {t \in S : pc[t] \in L}

(* Types: in particular every index a thread computes addresses the ring.  *)
TypeOK ==
  /\ used_items \in 0 .. Capacity
  /\ free_items \in 0 .. Capacity
  /\ items \in [Slots -> Item \cup {NoItem}]
  /\ head_index \in Nat
  /\ tail_index \in Nat
  /\ pc \in [Threads -> PC]
  /\ index \in [Threads -> Slots]
  /\ item \in [Threads -> Item \cup {NoItem}]
  /\ refused \in SUBSET Threads
  /\ sent \in Seq(Item \cup {NoItem})
  /\ received \in Seq(Item \cup {NoItem})

(* The two semaphores are two views of one set of Capacity slots: every    *)
(* slot is free, used, or in the hands of exactly one call, so a release   *)
(* never meets a full semaphore and no token is ever lost or made up.      *)
TokensConserved ==
  used_items + free_items + Cardinality(At(Threads, PC \ {"idle"})) = Capacity

(* FIFO: what has been popped is the beginning of what has been pushed, in *)
(* the same order (queue.h: "Pop an item off a queue (FIFO order)").       *)
Fifo == /\ Len(received) <= Len(sent)
        /\ \A i \in 1 .. Len(received) : received[i] = sent[i]

(* A slot being written is touched by no other call: the plain loads and   *)
(* stores of items[index] never race.                                      *)
SlotOwned ==
  \A s, t \in Threads :
    s # t /\ pc[s] = "push_write" /\ pc[t] \in {"push_write", "pop_read"}
      => index[s] # index[t]

(* Whatever a pop returns was pushed, and no push is returned twice.       *)
Count(seq, x) == Cardinality({i \in DOMAIN seq : seq[i] = x})
NothingInvented ==
  \A x \in Item \cup {NoItem} : Count(received, x) <= Count(sent, x)

(* A try call gives up only for a real reason: when queue_try_push returns *)
(* false every slot holds an unread item or is in the hands of another     *)
(* call, and when queue_try_pop returns NULL every unread item is.         *)
RefusalsJustified ==
  [][\A t \in refused' \ refused :
       LET unread == Len(sent) - Len(received)
           busy == Cardinality(At(Threads, PC \ {"idle"}))
       IN  /\ t \in Pushers => unread + busy >= Capacity
           /\ t \in Poppers => unread <= busy]_vars

(* Every item written into the ring reaches a popper.                      *)
EveryItemArrives ==
  \A n \in 1 .. MaxPushes + Cardinality(Pushers) :
    (Len(sent) >= n) ~> (Len(received) >= n)

-----------------------------------------------------------------------------
(* Refinement: the slots between the last one read and the last one        *)
(* written, in ring order, are a bounded FIFO queue.                       *)
Written == tail_index - Cardinality(At(Pushers, {"push_write"}))
Consumed == head_index - Cardinality(At(Poppers, {"pop_read"}))
Contents == [i \in 1 .. Written - Consumed |-> items[(Consumed + i - 1) % Capacity]]

Abstract == INSTANCE BoundedFifo WITH queue <- Contents
ImplementsFifo == Abstract!Spec
=============================================================================
