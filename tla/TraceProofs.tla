----------------------------- MODULE TraceProofs -----------------------------
(***************************************************************************)
(* Proofs about Trace.tla, for every set of threads, capacity and number   *)
(* of calls and captures.                                                  *)
(***************************************************************************)
EXTENDS Trace, SequenceTheorems, FiniteSetTheorems, TLAPS

(* Where a thread holds the mutex.                                         *)
Locked == {"record", "queue_push", "dequeue"}

TypeInv ==
  /\ \E S : event_buff \in Seq(S)
  /\ pc \in [Thread -> {"idle", "push", "pop"} \cup Locked]
  /\ capturing \in BOOLEAN
  /\ used_items \in Nat /\ str_size \in Nat /\ traced \in 0 .. EventCapacity

MutexInv == \A t \in Thread : pc[t] \in Locked <=> mutex = t

(* Calls that were counted as traced and have not recorded their event;    *)
(* an event that is recorded and not yet on the queue.                     *)
Promised == {t \in Thread : pc[t] = "record" \/ (MayBeTraced /\ pc[t] = "push")}
Queueing == IF \E t \in Thread : pc[t] = "queue_push" THEN 1 ELSE 0

(* A traced duration has two events in the end: those that are recorded,   *)
(* one for each that is open, two for each that is promised.               *)
CountInv ==
  /\ IsFiniteSet(Promised)
  /\ Len(event_buff) + used_items + Queueing + 2 * Cardinality(Promised) <= 2 * traced

(* While trace_capture_stop reads the events nothing is recorded.          *)
StopInv ==
  /\ main # "idle" => ~capturing /\ \A t \in Thread : pc[t] \notin Locked
  /\ main = "write" => str_size = Len(event_buff)
  /\ written \in Nat /\ written <= str_size + 1 /\ str_size <= Len(event_buff)

IInv == TypeInv /\ MutexInv /\ CountInv /\ StopInv

-----------------------------------------------------------------------------
LEMMA Parts ==
  ASSUME IInv
  PROVE  /\ Len(event_buff) \in Nat /\ IsFiniteSet(Promised) /\ Cardinality(Promised) \in Nat
         /\ Queueing \in {0, 1} /\ EventCapacity \in Nat \ {0}
         /\ pc \in [Thread -> {"idle", "push", "pop"} \cup Locked]
         /\ used_items \in Nat /\ traced \in Nat /\ str_size \in Nat /\ written \in Nat
         /\ Len(event_buff) + used_items + Queueing + 2 * Cardinality(Promised) <= 2 * traced
         /\ \A t \in Thread : pc[t] \in Locked <=> mutex = t
<1>1. Len(event_buff) \in Nat
  BY LenProperties DEF IInv, TypeInv
<1>2. Cardinality(Promised) \in Nat
  BY FS_CardinalityType DEF IInv, CountInv
<1>3. QED
  BY <1>1, <1>2, TraceAssumption DEF IInv, TypeInv, MutexInv, CountInv, StopInv, Queueing

LEMMA Numbers ==
  ASSUME IInv
  PROVE  /\ Len(event_buff) \in Nat /\ used_items \in Nat /\ Queueing \in {0, 1}
         /\ Cardinality(Promised) \in Nat /\ traced \in Nat
         /\ Len(event_buff) + used_items + Queueing + 2 * Cardinality(Promised) <= 2 * traced
  BY Parts

(* One event more.                                                         *)
LEMMA Records ==
  ASSUME TypeInv, NEW e, event_buff' = Append(event_buff, e)
  PROVE  (\E S : event_buff \in Seq(S))' /\ Len(event_buff') = Len(event_buff) + 1
<1>1. PICK S : event_buff \in Seq(S)
  BY DEF TypeInv
<1>2. event_buff \in Seq(S \cup {e})
  BY <1>1, SeqMonotonic
<1>3. event_buff' \in Seq(S \cup {e}) /\ Len(event_buff') = Len(event_buff) + 1
  BY <1>2, AppendProperties
<1>4. QED
  BY <1>3

(* The step of one thread ("t"), whose place changes from "a" to "b".      *)
Goes(t, b) == pc' = [pc EXCEPT ![t] = b]

LEMMA PushCounts ==
  ASSUME IInv, NEW t \in Thread, Push(t)
  PROVE  IInv'
<1> USE DEF Locked
<1>1. /\ pc[t] = "idle" /\ Goes(t, "push") /\ pc \in [Thread -> {"idle", "push", "pop"} \cup Locked]
      /\ UNCHANGED <<capturing, event_buff, used_items, mutex, main, str_size, written>>
      /\ traced' = IF MayBeTraced THEN traced + 1 ELSE traced
      /\ MayBeTraced => traced < EventCapacity
      /\ MayBeTraced' = MayBeTraced
  BY Parts DEF Push, Goes, event_queue, stopping, MayBeTraced
<1>2. TypeInv'
  BY <1>1, Parts DEF TypeInv, IInv, Goes
<1>3. MutexInv' /\ StopInv'
  BY <1>1 DEF IInv, MutexInv, StopInv, Goes
<1>4. Queueing' = Queueing
  BY <1>1 DEF Queueing, Goes
<1>5. t \notin Promised /\ Promised' = IF MayBeTraced THEN Promised \cup {t} ELSE Promised
  BY <1>1 DEF Promised, Goes
<1>6. IsFiniteSet(Promised') /\ Cardinality(Promised')
        = IF MayBeTraced THEN Cardinality(Promised) + 1 ELSE Cardinality(Promised)
  BY <1>5, Parts, FS_AddElement
<1>7. CountInv'
  <2>1. CASE MayBeTraced
    <3>1. /\ traced' = traced + 1 /\ Cardinality(Promised') = Cardinality(Promised) + 1
          /\ Len(event_buff') = Len(event_buff) /\ used_items' = used_items
      BY <2>1, <1>1, <1>6
    <3>2. QED
      BY <3>1, <1>4, <1>6, Numbers DEF CountInv
  <2>2. CASE ~MayBeTraced
    BY <2>2, <1>1, <1>4, <1>5, Parts DEF CountInv
  <2>3. QED
    BY <2>1, <2>2
<1>8. QED
  BY <1>2, <1>3, <1>7 DEF IInv

LEMMA EntersCounts ==
  ASSUME IInv, NEW t \in Thread, PushEnters(t) \/ PopEnters(t) \/ Pop(t)
  PROVE  IInv'
<1> USE DEF Locked
<1>1. /\ UNCHANGED <<capturing, event_buff, used_items, main, str_size, written, traced>>
      /\ pc \in [Thread -> {"idle", "push", "pop"} \cup Locked]
      /\ \/ pc[t] = "push" /\ capturing /\ Goes(t, "record") /\ mutex = NoThread /\ mutex' = t
         \/ pc[t] = "push" /\ ~capturing /\ Goes(t, "idle") /\ UNCHANGED mutex
         \/ pc[t] = "pop" /\ capturing /\ Goes(t, "dequeue") /\ mutex = NoThread /\ mutex' = t
         \/ pc[t] = "pop" /\ ~capturing /\ Goes(t, "idle") /\ UNCHANGED mutex
         \/ pc[t] = "idle" /\ Goes(t, "pop") /\ UNCHANGED mutex
  BY Parts DEF PushEnters, PopEnters, Pop, Enters, Goes, event_queue, stopping, counters
<1>2. TypeInv'
  BY <1>1 DEF TypeInv, IInv, Goes
<1>3. MutexInv'
  BY <1>1, TraceAssumption DEF IInv, MutexInv, Goes
<1>4. StopInv'
  BY <1>1 DEF IInv, StopInv, Goes
<1>5. Queueing' = Queueing /\ Promised' \subseteq Promised
  BY <1>1 DEF Queueing, Promised, Goes, MayBeTraced
<1>6. /\ IsFiniteSet(Promised') /\ Cardinality(Promised') <= Cardinality(Promised)
      /\ Cardinality(Promised') \in Nat
  BY <1>5, Parts, FS_Subset, FS_CardinalityType
<1>7. CountInv'
  BY <1>1, <1>5, <1>6, Numbers DEF CountInv
<1>8. QED
  BY <1>2, <1>3, <1>4, <1>7 DEF IInv

LEMMA RecordsCounts ==
  ASSUME IInv, NEW t \in Thread, PushRecords(t)
  PROVE  IInv'
<1> USE DEF Locked
<1>1. /\ pc[t] = "record" /\ mutex = t /\ Goes(t, "queue_push") /\ main = "idle"
      /\ pc \in [Thread -> {"idle", "push", "pop"} \cup Locked]
      /\ UNCHANGED <<capturing, used_items, mutex, main, str_size, written, traced>>
      /\ (\E S : event_buff \in Seq(S))' /\ Len(event_buff') = Len(event_buff) + 1
  BY Parts, Records DEF PushRecords, Goes, event_queue, stopping, counters, IInv, StopInv
<1>2. TypeInv'
  BY <1>1 DEF TypeInv, IInv, Goes
<1>3. MutexInv' /\ StopInv'
  BY <1>1, Parts DEF IInv, MutexInv, StopInv, Goes
<1>4. Queueing = 0 /\ Queueing' = 1
  BY <1>1, Parts DEF Queueing, Goes
<1>5. t \in Promised /\ Promised' = Promised \ {t}
  BY <1>1 DEF Promised, Goes, MayBeTraced
<1>6. IsFiniteSet(Promised') /\ Cardinality(Promised') = Cardinality(Promised) - 1
  BY <1>5, Parts, FS_RemoveElement
<1>7. CountInv'
  BY <1>1, <1>4, <1>6, Numbers DEF CountInv
<1>8. QED
  BY <1>2, <1>3, <1>7 DEF IInv

LEMMA QueuesCounts ==
  ASSUME IInv, NEW t \in Thread, PushQueues(t)
  PROVE  IInv'
<1> USE DEF Locked
<1>1. /\ pc[t] = "queue_push" /\ mutex = t /\ mutex' = NoThread /\ Goes(t, "idle")
      /\ pc \in [Thread -> {"idle", "push", "pop"} \cup Locked] /\ used_items' = used_items + 1
      /\ UNCHANGED <<capturing, event_buff, main, str_size, written, traced>>
  BY Parts DEF PushQueues, Goes, stopping, counters
<1>2. TypeInv'
  BY <1>1, Parts DEF TypeInv, IInv, Goes
<1>3. MutexInv' /\ StopInv'
  BY <1>1, TraceAssumption DEF IInv, MutexInv, StopInv, Goes
<1>4. Queueing = 1 /\ Queueing' = 0
  BY <1>1, Parts DEF Queueing, Goes
<1>5. Promised' = Promised
  BY <1>1 DEF Promised, Goes, MayBeTraced
<1>6. CountInv'
  BY <1>1, <1>4, <1>5, Numbers, Parts DEF CountInv
<1>7. QED
  BY <1>2, <1>3, <1>6 DEF IInv

LEMMA PopRecordsCounts ==
  ASSUME IInv, NEW t \in Thread, PopRecords(t)
  PROVE  IInv'
<1> USE DEF Locked
<1>1. /\ pc[t] = "dequeue" /\ mutex = t /\ mutex' = NoThread /\ Goes(t, "idle") /\ main = "idle"
      /\ pc \in [Thread -> {"idle", "push", "pop"} \cup Locked]
      /\ used_items > 0 /\ used_items' = used_items - 1
      /\ UNCHANGED <<capturing, main, str_size, written, traced>>
      /\ (\E S : event_buff \in Seq(S))' /\ Len(event_buff') = Len(event_buff) + 1
  BY Parts, Records DEF PopRecords, Goes, stopping, counters, IInv, StopInv
<1>2. TypeInv'
  BY <1>1, Parts DEF TypeInv, IInv, Goes
<1>3. MutexInv' /\ StopInv'
  BY <1>1, Parts, TraceAssumption DEF IInv, MutexInv, StopInv, Goes
<1>4. Queueing' = Queueing /\ Promised' = Promised
  BY <1>1 DEF Queueing, Promised, Goes, MayBeTraced
<1>5. CountInv'
  BY <1>1, <1>4, Parts DEF CountInv
<1>6. QED
  BY <1>2, <1>3, <1>5 DEF IInv

(* Captures: what a stopped capture had promised is not recorded any more. *)
LEMMA CaptureCounts ==
  ASSUME QuietStop, IInv, CaptureStart \/ CaptureStop \/ StopMeasures \/ StopWrites
  PROVE  IInv'
<1> USE DEF Locked
<1>1. UNCHANGED <<event_buff, used_items, mutex, pc, traced>>
  BY DEF CaptureStart, CaptureStop, StopMeasures, StopWrites, event_queue, counters
<1>2. TypeInv'
  BY <1>1, Parts
  DEF TypeInv, IInv, CaptureStart, CaptureStop, Stop, StopMeasures, StopWrites, stopping
<1>3. MutexInv' /\ Queueing' = Queueing
  BY <1>1 DEF IInv, MutexInv, Queueing
<1>4. Promised' \subseteq Promised
  BY <1>1
  DEF Promised, CaptureStart, CaptureStop, Stop, StopMeasures, StopWrites, MayBeTraced, Quiet
<1>5. StopInv'
  <2>1. CASE CaptureStart
    BY <1>1, <2>1 DEF IInv, StopInv, CaptureStart, stopping
  <2>2. CASE CaptureStop
    BY <1>1, <2>2 DEF IInv, StopInv, CaptureStop, Stop, Quiet
  <2>3. CASE StopMeasures
    BY <1>1, <2>3, Parts DEF IInv, StopInv, StopMeasures
  <2>4. CASE StopWrites
    BY <1>1, <2>4, Parts DEF IInv, StopInv, StopWrites
  <2>5. QED
    BY <2>1, <2>2, <2>3, <2>4
<1>6. IsFiniteSet(Promised') /\ Cardinality(Promised') <= Cardinality(Promised)
  BY <1>4, Parts, FS_Subset
<1>7. CountInv'
  <2>1. Cardinality(Promised') \in Nat
    BY <1>6, FS_CardinalityType
  <2>2. QED
    BY <1>1, <1>3, <1>6, <2>1, Parts DEF CountInv
<1>8. QED
  BY <1>2, <1>3, <1>5, <1>7 DEF IInv

(* If captures are only stopped while no thread is inside a push or a pop, *)
(* what trace_capture_stop writes in its second pass is what it measured   *)
(* in its first and the one byte of the terminator; and at most            *)
(* EventCapacity traced durations never overflow event_buff, which nothing *)
(* checks.  Captures may be started at any time.                           *)
THEOREM EventsAlwaysFit == QuietStop => (Spec => []EventsFit)
<1> SUFFICES ASSUME QuietStop PROVE Spec => []EventsFit
  OBVIOUS
<1>1. Init => IInv
  <2> SUFFICES ASSUME Init PROVE IInv
    OBVIOUS
  <2>1. /\ event_buff = <<>> /\ event_buff \in Seq({}) /\ Len(event_buff) = 0 /\ written = 0
    BY EmptySeq DEF Init
  <2>2. Promised = {} /\ Queueing = 0
    BY DEF Init, Promised, Queueing
  <2>3. IsFiniteSet(Promised) /\ Cardinality(Promised) = 0
    BY <2>2, FS_EmptySet
  <2>4. TypeInv
    <3>1. (\E S : event_buff \in Seq(S)) /\ pc = [t \in Thread |-> "idle"]
      BY <2>1 DEF Init
    <3>2. 0 \in 0 .. EventCapacity
      BY TraceAssumption
    <3>3. pc \in [Thread -> {"idle", "push", "pop"} \cup Locked]
      BY <3>1
    <3>4. QED
      BY <3>1, <3>2, <3>3 DEF Init, TypeInv
  <2>5. MutexInv
    BY TraceAssumption DEF Init, MutexInv, Locked
  <2>6. CountInv
    <3>1. used_items = 0 /\ traced = 0
      BY DEF Init
    <3>2. QED
      BY <2>1, <2>2, <2>3, <3>1 DEF CountInv
  <2>7. StopInv
    <3>1. main = "idle" /\ str_size = 0
      BY DEF Init
    <3>2. QED
      BY <2>1, <3>1 DEF StopInv
  <2>8. QED
    BY <2>4, <2>5, <2>6, <2>7 DEF IInv
<1>2. IInv /\ [Next]_vars => IInv'
  <2> SUFFICES ASSUME IInv, [Next]_vars PROVE IInv'
    OBVIOUS
  <2>1. CASE UNCHANGED vars
    BY <2>1 DEF IInv, TypeInv, MutexInv, CountInv, StopInv, Promised, Queueing, MayBeTraced, vars,
            event_queue, stopping, counters
  <2>2. ASSUME NEW t \in Thread, Push(t) \/ Pop(t) \/ InCall(t) PROVE IInv'
    BY <2>2, PushCounts, EntersCounts, RecordsCounts, QueuesCounts, PopRecordsCounts DEF InCall
  <2>3. QED
    BY <2>1, <2>2, CaptureCounts DEF Next, Done
<1>3. IInv => EventsFit
  <2> SUFFICES ASSUME IInv PROVE EventsFit
    OBVIOUS
  <2>1. traced <= EventCapacity /\ written <= str_size + 1
    BY Parts DEF IInv, TypeInv, StopInv
  <2>2. QED
    BY <2>1, Parts DEF EventsFit
<1>4. QED
  BY <1>1, <1>2, <1>3, PTL DEF Spec
-----------------------------------------------------------------------------
(***************************************************************************)
(* WellNested.  The queue holds the begin events of the open durations,    *)
(* oldest first: dequeue takes from the end that queue_push adds to, so    *)
(* head_index never moves and tail_index is the number of items.           *)
(***************************************************************************)
Events == [ph : {"B", "E"}, duration : Nat, tid : Thread]
Pushing == {"push", "record"}
Used == 0 .. used_items - 1

NestTypes ==
  /\ event_buff \in Seq(Events)
  /\ items \in [0 .. EventCapacity - 1 -> Nat]
  /\ used_items \in 0 .. EventCapacity /\ tail_index = used_items
  /\ pc \in [Thread -> {"idle", "push", "pop"} \cup Locked]
  /\ open \in [Thread -> Seq(Nat)] /\ pushes \in Nat
  /\ \A t \in Thread : pc[t] \in Pushing => open[t] # <<>>

(* Every push has a duration of its own.                                   *)
Numbered ==
  /\ \A n \in DOMAIN event_buff : event_buff[n].duration <= pushes
  /\ \A t \in Thread : pc[t] \in Pushing =>
       /\ Current(t) <= pushes
       /\ \A n \in DOMAIN event_buff : event_buff[n].duration # Current(t)
  /\ \A t, u \in Thread : pc[t] \in Pushing /\ pc[u] \in Pushing /\ t # u =>
       Current(t) # Current(u)
  /\ \A j, k \in DOMAIN event_buff :
       /\ event_buff[j].ph = "B" /\ event_buff[k].ph = "B"
       /\ event_buff[j].duration = event_buff[k].duration
       => j = k

(* What is on the queue, with the event that is recorded and not yet on    *)
(* it, is what is open now.                                                *)
Open(k) == OpenUntil(k, Len(event_buff) + 1)
OnQueue ==
  /\ \A p \in Used : items[p] \in 1 .. Len(event_buff) /\ Open(items[p])
  /\ \A p, q \in Used : p < q => items[p] < items[q]
  /\ \A k \in 1 .. Len(event_buff) : Open(k) =>
       (\E p \in Used : items[p] = k) \/ (Queueing = 1 /\ k = Len(event_buff))
  /\ Queueing = 1 => /\ Len(event_buff) > 0 /\ Open(Len(event_buff))
                     /\ \A p \in Used : items[p] # Len(event_buff)

(* WellNested, of one end event.                                           *)
Nested(n) ==
  \E k \in 1 .. n - 1 :
    /\ Ends(n, k) /\ OpenUntil(k, n)
    /\ \A l \in k + 1 .. n - 1 :
         event_buff[l].tid = event_buff[n].tid => ~OpenUntil(l, n)

NestInv == NestTypes /\ MutexInv /\ Numbered /\ OnQueue /\ WellNested

-----------------------------------------------------------------------------
LEMMA NestParts ==
  ASSUME NestInv
  PROVE  /\ event_buff \in Seq(Events) /\ Len(event_buff) \in Nat
         /\ DOMAIN event_buff = 1 .. Len(event_buff)
         /\ \A n \in 1 .. Len(event_buff) : event_buff[n] \in Events
         /\ used_items \in 0 .. EventCapacity /\ used_items \in Nat /\ tail_index = used_items
         /\ EventCapacity \in Nat \ {0} /\ Queueing \in {0, 1}
         /\ items \in [0 .. EventCapacity - 1 -> Nat]
         /\ pc \in [Thread -> {"idle", "push", "pop"} \cup Locked]
         /\ open \in [Thread -> Seq(Nat)] /\ pushes \in Nat
         /\ \A t \in Thread : pc[t] \in Pushing => open[t] # <<>>
         /\ \A t \in Thread : pc[t] \in Locked <=> mutex = t
<1>1. /\ Len(event_buff) \in Nat /\ DOMAIN event_buff = 1 .. Len(event_buff)
      /\ \A n \in 1 .. Len(event_buff) : event_buff[n] \in Events
  BY LenProperties, ElementOfSeq DEF NestInv, NestTypes
<1>2. QED
  BY <1>1, TraceAssumption DEF NestInv, NestTypes, MutexInv, Queueing

(* What a thread inside a push is about.                                   *)
LEMMA CurrentIsNat ==
  ASSUME NestInv, NEW t \in Thread, open[t] # <<>>
  PROVE  Current(t) \in Nat
<1>1. open[t] \in Seq(Nat)
  BY NestParts
<1>2. Len(open[t]) \in 1 .. Len(open[t])
  BY <1>1, EmptySeq, LenProperties
<1>3. QED
  BY <1>1, <1>2, ElementOfSeq DEF Current

(* One event more leaves what was open before it open, but for what it     *)
(* ends itself.                                                            *)
LEMMA OneMore ==
  ASSUME event_buff \in Seq(Events), NEW N, N = Len(event_buff), NEW e \in Events,
         event_buff' = Append(event_buff, e)
  PROVE  /\ N \in Nat /\ event_buff' \in Seq(Events) /\ Len(event_buff') = N + 1
         /\ DOMAIN event_buff' = 1 .. N + 1 /\ DOMAIN event_buff = 1 .. N
         /\ \A n \in 1 .. N : event_buff'[n] = event_buff[n]
         /\ event_buff'[N + 1] = e
         /\ \A k \in 1 .. N, n \in 1 .. N + 1 : OpenUntil(k, n)' <=> OpenUntil(k, n)
         /\ \A k \in 1 .. N : Open(k)' <=> Open(k) /\ ~Ends(N + 1, k)'
         /\ Open(N + 1)' <=> e.ph = "B"
<1>1. /\ N \in Nat /\ event_buff' \in Seq(Events) /\ Len(event_buff') = N + 1
      /\ DOMAIN event_buff' = 1 .. N + 1 /\ DOMAIN event_buff = 1 .. N
      /\ \A n \in 1 .. N : event_buff'[n] = event_buff[n]
      /\ event_buff'[N + 1] = e
  BY AppendProperties, LenProperties
<1>2. \A j, k \in 1 .. N : Ends(j, k)' <=> Ends(j, k)
  BY <1>1 DEF Ends
<1>3. ASSUME NEW k \in 1 .. N, NEW n \in 1 .. N + 1
      PROVE  OpenUntil(k, n)' <=> OpenUntil(k, n)
  <2>1. \A j \in k + 1 .. n - 1 : j \in 1 .. N
    BY <1>1
  <2>2. \A j \in k + 1 .. n - 1 : Ends(j, k)' <=> Ends(j, k)
    BY <1>2, <2>1
  <2>3. QED
    BY <1>1, <2>2 DEF OpenUntil
<1>4. ASSUME NEW k \in 1 .. N PROVE Open(k)' <=> Open(k) /\ ~Ends(N + 1, k)'
  <2>1. Open(k)' <=> OpenUntil(k, N + 2)'
    <3>1. Len(event_buff') + 1 = N + 2
      BY <1>1
    <3>2. QED
      BY <3>1 DEF Open, OpenUntil
  <2>2. OpenUntil(k, N + 2)' <=> OpenUntil(k, N + 1)' /\ ~Ends(N + 1, k)'
    <3>1. k + 1 .. N + 2 - 1 = (k + 1 .. N + 1 - 1) \cup {N + 1}
      BY <1>1
    <3>2. QED
      BY <3>1 DEF OpenUntil
  <2>3. OpenUntil(k, N + 1)' <=> Open(k)
    BY <1>1, <1>3 DEF Open
  <2>4. QED
    BY <2>1, <2>2, <2>3
<1>5. Open(N + 1)' <=> e.ph = "B"
  BY <1>1 DEF Open, OpenUntil
<1>6. QED
  BY <1>1, <1>3, <1>4, <1>5

(* It leaves the end events before it as nested as they were.              *)
LEMMA NestedKept ==
  ASSUME NestInv, NEW N, N = Len(event_buff), NEW e \in Events,
         event_buff' = Append(event_buff, e), e.ph = "E" => Nested(N + 1)'
  PROVE  WellNested'
<1>1. /\ N \in Nat /\ DOMAIN event_buff' = 1 .. N + 1 /\ DOMAIN event_buff = 1 .. N
      /\ \A n \in 1 .. N : event_buff'[n] = event_buff[n]
      /\ event_buff'[N + 1] = e
      /\ \A k \in 1 .. N, n \in 1 .. N + 1 : OpenUntil(k, n)' <=> OpenUntil(k, n)
  BY NestParts, OneMore
<1>2. ASSUME NEW n \in 1 .. N, event_buff'[n].ph = "E" PROVE Nested(n)'
  <2>1. Nested(n)
    BY <1>1, <1>2 DEF NestInv, WellNested, Nested
  <2>2. PICK k \in 1 .. n - 1 :
          /\ Ends(n, k) /\ OpenUntil(k, n)
          /\ \A l \in k + 1 .. n - 1 :
               event_buff[l].tid = event_buff[n].tid => ~OpenUntil(l, n)
    BY <2>1 DEF Nested
  <2>3. n \in 1 .. N + 1 /\ k \in 1 .. N /\ \A l \in k + 1 .. n - 1 : l \in 1 .. N
    BY <1>1
  <2>4. Ends(n, k)'
    BY <1>1, <2>2, <2>3 DEF Ends
  <2>5. OpenUntil(k, n)'
    BY <1>1, <2>2, <2>3
  <2>6. \A l \in k + 1 .. n - 1 :
          event_buff'[l].tid = event_buff'[n].tid => ~OpenUntil(l, n)'
    BY <1>1, <2>2, <2>3
  <2>7. QED
    BY <2>4, <2>5, <2>6 DEF Nested
<1>3. ASSUME NEW n \in 1 .. N + 1, event_buff'[n].ph = "E" PROVE Nested(n)'
  <2>1. CASE n \in 1 .. N
    BY <1>2, <1>3, <2>1
  <2>2. CASE n = N + 1
    BY <1>1, <1>3, <2>2
  <2>3. QED
    BY <1>1, <2>1, <2>2
<1>4. QED
  BY <1>1, <1>3 DEF WellNested, Nested

(* An event that begins a duration is the last that is open.               *)
LEMMA PushRecordsNested ==
  ASSUME NestInv, NEW t \in Thread, PushRecords(t)
  PROVE  NestInv'
<1> USE DEF Locked, Pushing
<1>0. PICK N : N = Len(event_buff)
  OBVIOUS
<1>1. PICK e : e = Event("B", Current(t), t)
  OBVIOUS
<1>2. /\ pc[t] = "record" /\ mutex = t /\ Goes(t, "queue_push") /\ mutex' = mutex
      /\ event_buff' = Append(event_buff, e)
      /\ UNCHANGED <<items, used_items, tail_index, open, pushes>>
  BY <1>1, NestParts DEF PushRecords, Goes, event_queue, stopping, counters
<1>3. Current(t) \in Nat /\ Current(t)' = Current(t)
  BY <1>2, NestParts, CurrentIsNat DEF Current
<1>4. e \in Events /\ e.ph = "B" /\ e.duration = Current(t)
  BY <1>1, <1>3 DEF Event, Events
<1>5. /\ N \in Nat /\ event_buff' \in Seq(Events) /\ Len(event_buff') = N + 1
      /\ DOMAIN event_buff' = 1 .. N + 1 /\ DOMAIN event_buff = 1 .. N
      /\ \A n \in 1 .. N : event_buff'[n] = event_buff[n]
      /\ event_buff'[N + 1] = e
      /\ \A k \in 1 .. N : Open(k)' <=> Open(k) /\ ~Ends(N + 1, k)'
      /\ Open(N + 1)'
  BY <1>0, <1>2, <1>4, NestParts, OneMore
<1>6. \A k \in 1 .. N : Open(k)' <=> Open(k)
  BY <1>4, <1>5 DEF Ends
<1>7. Queueing = 0 /\ Queueing' = 1
  BY <1>2, NestParts DEF Queueing, Goes
<1>8. NestTypes' /\ MutexInv'
  BY <1>2, <1>5, NestParts DEF NestTypes, MutexInv, Goes
<1>9. Numbered'
  <2>1. \A u \in Thread : Current(u)' = Current(u)
    BY <1>2 DEF Current
  <2>2. \A u \in Thread : pc'[u] \in Pushing => pc[u] \in Pushing /\ u # t
    BY <1>2, NestParts DEF Goes
  <2>3. /\ Current(t) <= pushes
        /\ \A n \in 1 .. N : event_buff[n].duration # Current(t)
    BY <1>2, <1>5 DEF NestInv, Numbered
  <2>4. \A n \in 1 .. N + 1 : n \in 1 .. N \/ n = N + 1
    BY <1>5
  <2>5. \A n \in 1 .. N + 1 : event_buff'[n].duration <= pushes'
    BY <1>2, <1>4, <1>5, <2>3, <2>4 DEF NestInv, Numbered
  <2>6. ASSUME NEW u \in Thread, pc'[u] \in Pushing
        PROVE  /\ Current(u)' <= pushes'
               /\ \A n \in 1 .. N + 1 : event_buff'[n].duration # Current(u)'
    <3>1. /\ Current(u) <= pushes /\ Current(u) # Current(t)
          /\ \A n \in 1 .. N : event_buff[n].duration # Current(u)
      BY <1>2, <1>5, <2>2, <2>6 DEF NestInv, Numbered
    <3>2. QED
      BY <1>2, <1>4, <1>5, <2>1, <2>4, <3>1
  <2>7. ASSUME NEW j \in 1 .. N + 1, NEW k \in 1 .. N + 1,
               event_buff'[j].ph = "B", event_buff'[k].ph = "B",
               event_buff'[j].duration = event_buff'[k].duration
        PROVE  j = k
    <3>1. CASE j \in 1 .. N /\ k \in 1 .. N
      BY <1>5, <2>7, <3>1 DEF NestInv, Numbered
    <3>2. CASE j = N + 1 \/ k = N + 1
      BY <1>4, <1>5, <2>3, <2>4, <2>7, <3>2
    <3>3. QED
      BY <2>4, <3>1, <3>2
  <2>8. \A u, v \in Thread : pc'[u] \in Pushing /\ pc'[v] \in Pushing /\ u # v =>
          Current(u)' # Current(v)'
    BY <2>1, <2>2 DEF NestInv, Numbered
  <2>9. QED
    BY <1>5, <2>5, <2>6, <2>7, <2>8 DEF Numbered
<1>10. OnQueue'
  <2>1. Used' = Used /\ \A p \in Used : items'[p] = items[p]
    BY <1>2 DEF Used
  <2>2. \A p \in Used : items[p] \in 1 .. N /\ Open(items[p])
    BY <1>0 DEF NestInv, OnQueue
  <2>3. \A p \in Used : items'[p] \in 1 .. N + 1 /\ items'[p] # N + 1 /\ Open(items[p])'
    BY <1>5, <1>6, <2>1, <2>2
  <2>4. \A p, q \in Used : p < q => items'[p] < items'[q]
    BY <2>1 DEF NestInv, OnQueue
  <2>5. ASSUME NEW k \in 1 .. N + 1, Open(k)'
        PROVE  (\E p \in Used : items'[p] = k) \/ k = N + 1
    <3>1. CASE k \in 1 .. N
      BY <1>0, <1>6, <1>7, <2>1, <2>5, <3>1 DEF NestInv, OnQueue
    <3>2. QED
      BY <1>5, <3>1
  <2>6. QED
    BY <1>5, <1>7, <2>1, <2>3, <2>4, <2>5 DEF OnQueue
<1>11. WellNested'
  BY <1>0, <1>2, <1>4, NestedKept
<1>12. QED
  BY <1>8, <1>9, <1>10, <1>11 DEF NestInv

(* An index below the capacity is its own place in the ring.               *)
LEMMA OwnPlace ==
  ASSUME NEW n \in Nat, NEW c \in Nat \ {0}, n < c
  PROVE  n % c = n
<1>1. /\ n = c * (n \div c) + (n % c)
      /\ n \div c \in Int /\ n % c \in 0 .. c - 1
  OBVIOUS
<1>2. n \div c = 0
  <2> DEFINE q == n \div c
  <2>1. q \in Int /\ c * q < c /\ c * q > -c
    BY <1>1
  <2> HIDE DEF q
  <2>2. ASSUME q >= 1 PROVE FALSE
    BY <2>1, <2>2
  <2>3. ASSUME q <= -1 PROVE FALSE
    BY <2>1, <2>3
  <2>4. QED
    BY <2>1, <2>2, <2>3 DEF q
<1>3. QED
  BY <1>1, <1>2

(* The same event goes on the queue: its index, in the next place.         *)
LEMMA PushQueuesNested ==
  ASSUME NestInv, NEW t \in Thread, PushQueues(t)
  PROVE  NestInv'
<1> USE DEF Locked, Pushing
<1>0. PICK N : N = Len(event_buff)
  OBVIOUS
<1>1. /\ pc[t] = "queue_push" /\ mutex = t /\ mutex' = NoThread /\ Goes(t, "idle")
      /\ used_items < EventCapacity /\ used_items' = used_items + 1
      /\ tail_index' = tail_index + 1 /\ tail_index % EventCapacity = used_items
      /\ items' = [items EXCEPT ![tail_index % EventCapacity] = N]
      /\ UNCHANGED <<event_buff, open, pushes>>
  <2>1. PushQueues(t) /\ tail_index \in Nat /\ tail_index = used_items
    BY NestParts
  <2>2. tail_index % EventCapacity = used_items
    BY <2>1, NestParts, OwnPlace DEF PushQueues
  <2>3. QED
    BY <1>0, <2>1, <2>2, NestParts DEF PushQueues, Goes, stopping, counters
<1>2. Queueing = 1 /\ Queueing' = 0
  BY <1>1, NestParts DEF Queueing, Goes
<1>3. /\ items'[used_items] = N /\ \A p \in Used : items'[p] = items[p]
      /\ items' \in [0 .. EventCapacity - 1 -> Nat]
  <2>1. items' = [items EXCEPT ![used_items] = N] /\ N \in Nat
    BY <1>0, <1>1, NestParts
  <2>2. used_items \in 0 .. EventCapacity - 1
    BY <1>1, NestParts
  <2>3. QED
    BY <2>1, <2>2, NestParts DEF Used
<1>4. MutexInv'
  BY <1>1, NestParts, TraceAssumption DEF MutexInv, Goes
<1>5. NestTypes'
  <2>1. pc' \in [Thread -> {"idle", "push", "pop"} \cup Locked]
    BY <1>1, NestParts DEF Goes
  <2>2. \A u \in Thread : pc'[u] \in Pushing => open'[u] # <<>>
    BY <1>1, NestParts DEF Goes
  <2>3. used_items' \in 0 .. EventCapacity /\ tail_index' = used_items'
    <3>1. used_items \in Nat /\ tail_index = used_items /\ EventCapacity \in Nat
      BY NestParts
    <3>2. /\ used_items < EventCapacity /\ used_items' = used_items + 1
          /\ tail_index' = tail_index + 1
      BY <1>1
    <3>3. QED
      BY <3>1, <3>2
  <2>4. QED
    BY <1>1, <1>3, <2>1, <2>2, <2>3, NestParts DEF NestTypes
<1>6. Numbered'
  <2>1. \A u \in Thread : pc'[u] \in Pushing => pc[u] \in Pushing
    BY <1>1, NestParts DEF Goes
  <2>2. QED
    BY <1>1, <2>1 DEF NestInv, Numbered, Current
<1>7. OnQueue'
  <2>0. \A k : Open(k)' <=> Open(k)
    BY <1>1 DEF Open, OpenUntil, Ends
  <2>1. /\ used_items \in Nat /\ used_items \notin Used
        /\ used_items \in Used'
        /\ \A p \in Used : p \in Used' /\ p \in Nat /\ p < used_items
        /\ \A p \in Used' : p \in Used \/ p = used_items
    <3>1. used_items \in Nat /\ used_items' = used_items + 1
      BY <1>1, NestParts
    <3>2. QED
      BY <3>1 DEF Used
  <2>2. /\ N \in 1 .. N /\ Open(N)
        /\ \A p \in Used : items[p] \in 1 .. N /\ items[p] # N /\ Open(items[p])
    BY <1>0, <1>2, NestParts DEF NestInv, OnQueue
  <2>3. \A p \in Used' : items'[p] \in 1 .. N /\ Open(items[p])'
    BY <1>3, <2>0, <2>1, <2>2
  <2>4. ASSUME NEW p \in Used', NEW q \in Used', p < q PROVE items'[p] < items'[q]
    <3>1. p \in Used
      BY <2>1, <2>4
    <3>2. CASE q \in Used
      BY <1>3, <2>4, <3>1, <3>2 DEF NestInv, OnQueue
    <3>3. CASE q = used_items
      BY <1>0, <1>3, <2>2, <3>1, <3>3, NestParts
    <3>4. QED
      BY <2>1, <3>2, <3>3
  <2>5. ASSUME NEW k \in 1 .. N, Open(k)' PROVE \E p \in Used' : items'[p] = k
    <3>1. (\E p \in Used : items[p] = k) \/ k = N
      BY <1>0, <2>0, <2>5 DEF NestInv, OnQueue
    <3>2. QED
      BY <1>3, <2>1, <3>1
  <2>6. Len(event_buff)' = N
    BY <1>0, <1>1
  <2>7. QED
    BY <1>2, <2>3, <2>4, <2>5, <2>6 DEF OnQueue
<1>8. WellNested'
  BY <1>1 DEF NestInv, WellNested, Ends, OpenUntil
<1>9. QED
  BY <1>4, <1>5, <1>6, <1>7, <1>8 DEF NestInv

(* An event that ends a duration takes the newest index off the queue,     *)
(* after which nothing has begun that is still open.                       *)
LEMMA PopRecordsNested ==
  ASSUME NestInv, NEW t \in Thread, PopRecords(t)
  PROVE  NestInv'
<1> USE DEF Locked, Pushing
<1>0. PICK N : N = Len(event_buff)
  OBVIOUS
<1>1. PICK m : m = items[Newest]
  OBVIOUS
<1>2. PICK e : e = [event_buff[m] EXCEPT !.ph = "E"]
  OBVIOUS
<1>3. /\ pc[t] = "dequeue" /\ mutex = t /\ mutex' = NoThread /\ Goes(t, "idle")
      /\ used_items > 0 /\ used_items' = used_items - 1 /\ tail_index' = tail_index - 1
      /\ event_buff' = Append(event_buff, e)
      /\ UNCHANGED <<items, open, pushes>>
  BY <1>1, <1>2, NestParts DEF PopRecords, Goes, stopping, counters
<1>4. Queueing = 0 /\ Queueing' = 0
  BY <1>3, NestParts DEF Queueing, Goes
<1>5. /\ m = items[used_items - 1] /\ m \in 1 .. N /\ Open(m) /\ N \in Nat
      /\ used_items - 1 \in Used /\ \A p \in Used : p \in Nat /\ p <= used_items - 1
  <2>1. Newest = used_items - 1
    BY <1>3, NestParts, OwnPlace DEF Newest
  <2>2. used_items - 1 \in Used /\ \A p \in Used : p \in Nat /\ p <= used_items - 1
    BY <1>3, NestParts DEF Used
  <2>3. QED
    BY <1>0, <1>1, <2>1, <2>2, NestParts DEF NestInv, OnQueue
<1>6. /\ e \in Events /\ e.ph = "E" /\ event_buff[m].ph = "B"
      /\ e.duration = event_buff[m].duration /\ e.tid = event_buff[m].tid
  <2>1. event_buff[m] \in Events
    BY <1>0, <1>5, NestParts
  <2>2. QED
    BY <1>2, <1>5, <2>1 DEF Events, Open, OpenUntil
<1>7. /\ event_buff' \in Seq(Events) /\ Len(event_buff') = N + 1
      /\ DOMAIN event_buff' = 1 .. N + 1 /\ DOMAIN event_buff = 1 .. N
      /\ \A n \in 1 .. N : event_buff'[n] = event_buff[n]
      /\ event_buff'[N + 1] = e
      /\ \A k \in 1 .. N, n \in 1 .. N + 1 : OpenUntil(k, n)' <=> OpenUntil(k, n)
      /\ \A k \in 1 .. N : Open(k)' <=> Open(k) /\ ~Ends(N + 1, k)'
      /\ ~Open(N + 1)'
  <2>1. e.ph # "B"
    BY <1>6
  <2>2. QED
    BY <1>0, <1>3, <1>6, <2>1, NestParts, OneMore
<1>8. \A k \in 1 .. N : Ends(N + 1, k)' <=> event_buff[k].ph = "B" /\ k = m
  BY <1>5, <1>6, <1>7 DEF Ends, NestInv, Numbered
<1>9. \A k \in 1 .. N : Open(k)' <=> Open(k) /\ k # m
  BY <1>6, <1>7, <1>8
<1>10. MutexInv'
  BY <1>3, NestParts, TraceAssumption DEF MutexInv, Goes
<1>11. NestTypes'
  <2>1. pc' \in [Thread -> {"idle", "push", "pop"} \cup Locked]
    BY <1>3, NestParts DEF Goes
  <2>2. \A u \in Thread : pc'[u] \in Pushing => open'[u] # <<>>
    BY <1>3, NestParts DEF Goes
  <2>3. used_items' \in 0 .. EventCapacity /\ tail_index' = used_items'
    BY <1>3, NestParts
  <2>4. QED
    BY <1>3, <1>7, <2>1, <2>2, <2>3, NestParts DEF NestTypes
<1>12. Numbered'
  <2>1. \A u \in Thread : (pc'[u] \in Pushing => pc[u] \in Pushing) /\ Current(u)' = Current(u)
    BY <1>3, NestParts DEF Goes, Current
  <2>2. \A n \in 1 .. N + 1 : \E k \in 1 .. N : event_buff'[n].duration = event_buff[k].duration
    <3>1. \A n \in 1 .. N + 1 : n \in 1 .. N \/ n = N + 1
      BY <1>5
    <3>2. QED
      BY <1>5, <1>6, <1>7, <3>1
  <2>3. \A n \in 1 .. N + 1 : event_buff'[n].ph = "B" =>
          n \in 1 .. N /\ event_buff'[n] = event_buff[n]
    BY <1>5, <1>6, <1>7
  <2>4. \A n \in 1 .. N + 1 : event_buff'[n].duration <= pushes'
    BY <1>3, <1>7, <2>2 DEF NestInv, Numbered
  <2>5. ASSUME NEW u \in Thread, pc'[u] \in Pushing
        PROVE  /\ Current(u)' <= pushes'
               /\ \A n \in 1 .. N + 1 : event_buff'[n].duration # Current(u)'
    BY <1>3, <1>7, <2>1, <2>2, <2>5 DEF NestInv, Numbered
  <2>6. \A u, v \in Thread : pc'[u] \in Pushing /\ pc'[v] \in Pushing /\ u # v =>
          Current(u)' # Current(v)'
    BY <2>1 DEF NestInv, Numbered
  <2>7. \A j, k \in 1 .. N + 1 :
          /\ event_buff'[j].ph = "B" /\ event_buff'[k].ph = "B"
          /\ event_buff'[j].duration = event_buff'[k].duration
          => j = k
    BY <1>7, <2>3 DEF NestInv, Numbered
  <2>8. QED
    BY <1>7, <2>4, <2>5, <2>6, <2>7 DEF Numbered
<1>13. OnQueue'
  <2>1. /\ \A p \in Used' : p \in Used /\ p < used_items - 1
        /\ \A p \in Used : p \in Used' \/ p = used_items - 1
    BY <1>3, NestParts DEF Used
  <2>2. ASSUME NEW p \in Used' PROVE items'[p] \in 1 .. N + 1 /\ Open(items[p])'
    <3>1. /\ items[p] \in 1 .. N /\ Open(items[p]) /\ items[p] < m /\ items' = items
      BY <1>0, <1>3, <1>5, <2>1 DEF NestInv, OnQueue
    <3>2. QED
      BY <1>5, <1>9, <3>1
  <2>3. \A p, q \in Used' : p < q => items'[p] < items'[q]
    BY <1>3, <2>1 DEF NestInv, OnQueue
  <2>4. ASSUME NEW k \in 1 .. N + 1, Open(k)' PROVE \E p \in Used' : items'[p] = k
    <3>1. k \in 1 .. N /\ Open(k) /\ k # m
      BY <1>5, <1>7, <1>9, <2>4
    <3>2. PICK p \in Used : items[p] = k
      BY <1>0, <1>4, <3>1 DEF NestInv, OnQueue
    <3>3. p \in Used' /\ items'[p] = k
      BY <1>3, <1>5, <2>1, <3>1, <3>2
    <3>4. QED
      BY <3>3
  <2>5. QED
    BY <1>4, <1>7, <2>2, <2>3, <2>4 DEF OnQueue
<1>14. Nested(N + 1)'
  <2>1. Ends(N + 1, m)' /\ OpenUntil(m, N + 1)'
    <3>1. OpenUntil(m, N + 1) /\ N + 1 \in 1 .. N + 1
      BY <1>0, <1>5 DEF Open
    <3>2. QED
      BY <1>5, <1>6, <1>7, <1>8, <3>1
  <2>2. ASSUME NEW l \in m + 1 .. N, OpenUntil(l, N + 1)' PROVE FALSE
    <3>1. l \in 1 .. N /\ N + 1 \in 1 .. N + 1
      BY <1>5
    <3>2. Open(l)
      BY <1>0, <1>7, <2>2, <3>1 DEF Open
    <3>3. PICK p \in Used : items[p] = l
      BY <1>0, <1>4, <3>1, <3>2 DEF NestInv, OnQueue
    <3>4. items[p] <= m
      BY <1>5, <3>1, <3>3 DEF NestInv, OnQueue
    <3>5. QED
      BY <1>5, <3>1, <3>3, <3>4
  <2>3. m \in 1 .. (N + 1) - 1 /\ (N + 1) - 1 = N
    BY <1>5
  <2>4. QED
    BY <2>1, <2>2, <2>3 DEF Nested
<1>15. WellNested'
  BY <1>0, <1>3, <1>6, <1>14, NestedKept
<1>16. QED
  BY <1>10, <1>11, <1>12, <1>13, <1>15 DEF NestInv

(* The steps that record nothing.                                          *)
LEMMA CallsNested ==
  ASSUME NestInv, NEW t \in Thread, Push(t) \/ Pop(t) \/ PushEnters(t) \/ PopEnters(t)
  PROVE  NestInv'
<1> USE DEF Locked, Pushing
<1>1. UNCHANGED <<event_buff, items, used_items, tail_index>>
  BY DEF Push, Pop, PushEnters, PopEnters, event_queue
<1>2. \/ pc[t] = "push" /\ Goes(t, "record") /\ mutex = NoThread /\ mutex' = t
      \/ pc[t] = "pop" /\ Goes(t, "dequeue") /\ mutex = NoThread /\ mutex' = t
      \/ /\ pc[t] \in {"push", "pop", "idle"} /\ UNCHANGED mutex
         /\ Goes(t, "idle") \/ Goes(t, "push") \/ Goes(t, "pop")
  BY DEF Push, Pop, PushEnters, PopEnters, Enters, Goes
<1>3. \/ /\ pc[t] = "idle" /\ Goes(t, "push")
         /\ open' = [open EXCEPT ![t] = Append(@, pushes + 1)] /\ pushes' = pushes + 1
      \/ /\ pc[t] = "idle" /\ open[t] # <<>> /\ Goes(t, "pop") /\ pushes' = pushes
         /\ open' = [open EXCEPT ![t] = SubSeq(@, 1, Len(@) - 1)]
      \/ /\ open' = open /\ pushes' = pushes /\ pc[t] \in {"push", "pop"}
         /\ (Goes(t, "record") /\ pc[t] = "push") \/ Goes(t, "dequeue") \/ Goes(t, "idle")
  BY DEF Push, Pop, PushEnters, PopEnters, Enters, Goes, counters
<1>4. Queueing' = Queueing
  BY <1>2, NestParts DEF Queueing, Goes
<1>5. MutexInv'
  BY <1>2, NestParts, TraceAssumption DEF MutexInv, Goes
<1>6. open[t] \in Seq(Nat) /\ pushes \in Nat /\ pushes + 1 \in Nat
  BY NestParts
<1>7. /\ Append(open[t], pushes + 1) \in Seq(Nat) /\ Append(open[t], pushes + 1) # <<>>
      /\ SubSeq(open[t], 1, Len(open[t]) - 1) \in Seq(Nat)
      /\ Append(open[t], pushes + 1)[Len(Append(open[t], pushes + 1))] = pushes + 1
  <2>1. /\ Append(open[t], pushes + 1) \in Seq(Nat) /\ Append(open[t], pushes + 1) # <<>>
        /\ SubSeq(open[t], 1, Len(open[t]) - 1) \in Seq(Nat)
    <3>1. Append(open[t], pushes + 1) \in Seq(Nat) /\ Append(open[t], pushes + 1) # <<>>
      BY <1>6, AppendProperties, EmptySeq
    <3>2. Len(open[t]) - 1 \in Int /\ Len(open[t]) - 1 <= Len(open[t])
      BY <1>6, LenProperties
    <3>3. SubSeq(open[t], 1, Len(open[t]) - 1) \in Seq(Nat)
      BY <1>6, <3>2, LenProperties, SubSeqProperties
    <3>4. QED
      BY <3>1, <3>3
  <2>2. /\ Len(Append(open[t], pushes + 1)) = Len(open[t]) + 1
        /\ Append(open[t], pushes + 1)[Len(open[t]) + 1] = pushes + 1
    BY <1>6, AppendProperties, LenProperties
  <2>3. QED
    BY <2>1, <2>2
<1>8. /\ open' \in [Thread -> Seq(Nat)] /\ pushes' \in Nat /\ pushes <= pushes'
      /\ \A u \in Thread \ {t} : open'[u] = open[u] /\ pc'[u] = pc[u]
  <2>1. pushes' \in Nat /\ pushes <= pushes'
    BY <1>3, <1>6
  <2>2. open' \in [Thread -> Seq(Nat)]
    BY <1>3, <1>7, NestParts
  <2>3. \A u \in Thread \ {t} : open'[u] = open[u]
    BY <1>3, NestParts
  <2>4. \A u \in Thread \ {t} : pc'[u] = pc[u]
    BY <1>2, NestParts DEF Goes
  <2>5. QED
    BY <2>1, <2>2, <2>3, <2>4
<1>9. NestTypes'
  <2>1. pc' \in [Thread -> {"idle", "push", "pop"} \cup Locked]
    BY <1>2, NestParts DEF Goes
  <2>2. pc'[t] \in Pushing => open'[t] # <<>>
    BY <1>2, <1>3, <1>7, NestParts DEF Goes
  <2>3. QED
    BY <1>1, <1>8, <2>1, <2>2, NestParts DEF NestTypes
<1>10. Numbered'
  <2>1. pc'[t] \in Pushing =>
          \/ Current(t)' = pushes + 1 /\ pushes' = pushes + 1
          \/ pc[t] \in Pushing /\ Current(t)' = Current(t) /\ pushes' = pushes
    BY <1>3, <1>7, NestParts DEF Goes, Current
  <2>2. \A u \in Thread \ {t} :
          (pc'[u] \in Pushing => pc[u] \in Pushing) /\ Current(u)' = Current(u)
    BY <1>8 DEF Current
  <2>3. \A u \in Thread : pc[u] \in Pushing => Current(u) \in Nat /\ Current(u) <= pushes
    BY NestParts, CurrentIsNat DEF NestInv, Numbered
  <2>4. \A n \in DOMAIN event_buff :
          event_buff[n].duration \in Nat /\ event_buff[n].duration <= pushes
    BY NestParts DEF NestInv, Numbered, Events
  <2>5. \A n \in DOMAIN event_buff : event_buff[n].duration <= pushes'
    BY <1>6, <1>8, <2>4
  <2>6. ASSUME NEW u \in Thread, pc'[u] \in Pushing
        PROVE  /\ Current(u)' <= pushes'
               /\ \A n \in DOMAIN event_buff : event_buff[n].duration # Current(u)'
    <3>1. CASE pc[u] \in Pushing /\ Current(u)' = Current(u)
      BY <1>6, <1>8, <2>3, <3>1 DEF NestInv, Numbered
    <3>2. CASE Current(u)' = pushes + 1 /\ pushes' = pushes + 1
      BY <1>6, <2>4, <3>2
    <3>3. QED
      BY <2>1, <2>2, <2>6, <3>1, <3>2
  <2>7. ASSUME NEW u \in Thread, NEW v \in Thread, pc'[u] \in Pushing, pc'[v] \in Pushing, u # v
        PROVE  Current(u)' # Current(v)'
    <3>1. CASE u # t /\ v # t
      BY <2>2, <2>7, <3>1 DEF NestInv, Numbered
    <3>2. CASE u = t
      BY <1>6, <2>1, <2>2, <2>3, <2>7, <3>2 DEF NestInv, Numbered
    <3>3. CASE v = t
      BY <1>6, <2>1, <2>2, <2>3, <2>7, <3>3 DEF NestInv, Numbered
    <3>4. QED
      BY <3>1, <3>2, <3>3
  <2>8. \A j, k \in DOMAIN event_buff :
          /\ event_buff[j].ph = "B" /\ event_buff[k].ph = "B"
          /\ event_buff[j].duration = event_buff[k].duration
          => j = k
    BY DEF NestInv, Numbered
  <2>9. event_buff' = event_buff
    BY <1>1
  <2>10. QED
    BY <2>5, <2>6, <2>7, <2>8, <2>9 DEF Numbered
<1>11. OnQueue' /\ WellNested'
  <2>1. Used' = Used
    BY <1>1 DEF Used
  <2>2. OnQueue'
    BY <1>1, <1>4, <2>1 DEF NestInv, OnQueue, Open, OpenUntil, Ends
  <2>3. WellNested'
    BY <1>1 DEF NestInv, WellNested, OpenUntil, Ends
  <2>4. QED
    BY <2>2, <2>3
<1>12. QED
  BY <1>5, <1>9, <1>10, <1>11 DEF NestInv

(* However the threads interleave, and however captures are started and    *)
(* stopped between their calls or in the middle of one (no hypothesis), an *)
(* event that ends a duration is about the duration begun last of those    *)
(* that the thread it names still has open.                                *)
THEOREM AlwaysWellNested == Spec => []WellNested
<1>1. Init => NestInv
  <2> SUFFICES ASSUME Init PROVE NestInv
    OBVIOUS
  <2>1. /\ event_buff = <<>> /\ event_buff \in Seq(Events) /\ Len(event_buff) = 0
        /\ DOMAIN event_buff = {} /\ 1 .. Len(event_buff) = {}
    BY DEF Init
  <2>2. Queueing = 0 /\ used_items = 0 /\ tail_index = 0 /\ pushes = 0
    BY DEF Init, Queueing
  <2>3. MutexInv
    BY TraceAssumption DEF Init, MutexInv, Locked
  <2>4. NestTypes
    <3>1. items \in [0 .. EventCapacity - 1 -> Nat] /\ 0 \in 0 .. EventCapacity
      BY TraceAssumption DEF Init, Nothing
    <3>2. pc \in [Thread -> {"idle", "push", "pop"} \cup Locked]
      BY DEF Init
    <3>3. open \in [Thread -> Seq(Nat)] /\ \A t \in Thread : pc[t] \notin Pushing
      BY DEF Init, Pushing
    <3>4. QED
      BY <2>1, <2>2, <3>1, <3>2, <3>3 DEF NestTypes
  <2>5. Numbered
    <3>1. \A t \in Thread : pc[t] \notin Pushing
      BY DEF Init, Pushing
    <3>2. QED
      BY <2>1, <3>1 DEF Numbered
  <2>6. OnQueue
    <3>1. Used = {}
      BY <2>2 DEF Used
    <3>2. QED
      BY <2>1, <2>2, <3>1 DEF OnQueue
  <2>7. WellNested
    BY <2>1 DEF WellNested
  <2>8. QED
    BY <2>3, <2>4, <2>5, <2>6, <2>7 DEF NestInv
<1>2. NestInv /\ [Next]_vars => NestInv'
  <2> SUFFICES ASSUME NestInv, [Next]_vars PROVE NestInv'
    OBVIOUS
  <2>1. ASSUME UNCHANGED <<event_buff, event_queue, mutex, pc, open, pushes>> PROVE NestInv'
    <3>1. NestTypes' /\ MutexInv' /\ Queueing' = Queueing /\ Used' = Used
      BY <2>1 DEF NestInv, NestTypes, MutexInv, Queueing, Used, event_queue
    <3>2. Numbered'
      BY <2>1 DEF NestInv, Numbered, Current
    <3>3. OnQueue' /\ WellNested'
      BY <2>1, <3>1 DEF NestInv, OnQueue, Open, WellNested, OpenUntil, Ends, event_queue
    <3>4. QED
      BY <3>1, <3>2, <3>3 DEF NestInv
  <2>2. CASE UNCHANGED vars
    BY <2>1, <2>2 DEF vars, counters
  <2>3. CASE CaptureStart \/ CaptureStop \/ StopMeasures \/ StopWrites
    BY <2>1, <2>3 DEF CaptureStart, CaptureStop, StopMeasures, StopWrites, counters
  <2>4. ASSUME NEW t \in Thread, Push(t) \/ Pop(t) \/ InCall(t) PROVE NestInv'
    BY <2>4, CallsNested, PushRecordsNested, PushQueuesNested, PopRecordsNested DEF InCall
  <2>5. QED
    BY <2>2, <2>3, <2>4 DEF Next, Done
<1>3. NestInv => WellNested
  BY DEF NestInv
<1>4. QED
  BY <1>1, <1>2, <1>3, PTL DEF Spec
=============================================================================
