-------------------------------- MODULE Trace --------------------------------
(***************************************************************************)
(* trace.c: threads push and pop durations under a mutex; the main thread  *)
(* starts and stops a capture without it.  While capturing, every push and *)
(* pop adds an event to a buffer that is never emptied.  The events that   *)
(* begin a duration also go on a queue, of which "dequeue" (queue.c) takes *)
(* the newest: one stack of open durations for all the threads.            *)
(*                                                                         *)
(* A duration is a number of its own, in place of its name.  Each thread   *)
(* pops what it has pushed; open is what it has open by its own account.   *)
(*                                                                         *)
(* trace.c does not say when a capture may be started or stopped.          *)
(* QuietStart and QuietStop say of the program that it does so with no     *)
(* call running, and starts with no duration open; what happens otherwise  *)
(* is checked with FALSE.                                                  *)
(***************************************************************************)
EXTENDS Integers, Sequences

CONSTANTS Thread,
          NoThread,
          EventCapacity,
          MaxPushes,      \* bound: calls of trace_duration_push over a run
          MaxCaptures,    \* bound: calls of trace_capture_start over a run
          QuietStart,     \* captures are only started while no call is running
                          \* and no duration is open
          QuietStop       \* captures are only stopped while no call is running

ASSUME TraceAssumption == /\ NoThread \notin Thread
                          /\ EventCapacity \in Nat \ {0}
                          /\ MaxPushes \in Nat /\ MaxCaptures \in Nat
                          /\ QuietStart \in BOOLEAN /\ QuietStop \in BOOLEAN

VARIABLES capturing,
          event_buff,    \* the events recorded so far
          items,         \* event_queue: its ring,
          tail_index,    \* the next place to push to,
          used_items,    \* and how many of its places are used
          mutex,
          pc,            \* per thread: where it is
          open,          \* ghost, per thread: its open durations
          main,          \* the main thread: where it is
          str_size,      \* the memory trace_capture_stop has made for the file,
          written,       \* what it has written there, with an event as one byte
          pushes,        \* counters, for the bounds
          traced,
          captures

event_queue == <<items, tail_index, used_items>>
stopping == <<main, str_size, written>>
counters == <<pushes, traced, captures>>
vars == <<capturing, event_buff, event_queue, mutex, pc, open, stopping, counters>>

Nothing == 0
Event(ph, duration, tid) == [ph |-> ph, duration |-> duration, tid |-> tid]
Quiet == \A t \in Thread : pc[t] = "idle"
Current(t) == open[t][Len(open[t])]

Init == /\ capturing = FALSE
        /\ event_buff = <<>>
        /\ items = [i \in 0 .. EventCapacity - 1 |-> Nothing]
        /\ tail_index = 0
        /\ used_items = 0
        /\ mutex = NoThread
        /\ pc = [t \in Thread |-> "idle"]
        /\ open = [t \in Thread |-> <<>>]
        /\ main = "idle"
        /\ str_size = 0
        /\ written = 0
        /\ pushes = 0 /\ traced = 0 /\ captures = 0

-----------------------------------------------------------------------------
(* trace_duration_push.  At most EventCapacity durations are traced: what  *)
(* trace_create asks of its callers (trace.h:8).  If a capture may start   *)
(* at any time, any push may be traced.                                    *)
MayBeTraced == capturing \/ ~QuietStart

Push(t) ==
  /\ pc[t] = "idle" /\ pushes < MaxPushes
  /\ MayBeTraced => traced < EventCapacity
  /\ pushes' = pushes + 1
  /\ traced' = IF MayBeTraced THEN traced + 1 ELSE traced
  /\ open' = [open EXCEPT ![t] = Append(@, pushes + 1)]
  /\ pc' = [pc EXCEPT ![t] = "push"]
  /\ UNCHANGED <<capturing, event_buff, event_queue, mutex, stopping, captures>>

(* Faulty variant: the flag is not tested. *)
EntersUntested(t, call, next) ==
  /\ pc[t] = call /\ mutex = NoThread
  /\ pc' = [pc EXCEPT ![t] = next] /\ mutex' = t

(* Lock, and test the flag. *)
Enters(t, call, next) ==
  /\ pc[t] = call /\ mutex = NoThread
  /\ IF capturing THEN pc' = [pc EXCEPT ![t] = next] /\ mutex' = t
                  ELSE pc' = [pc EXCEPT ![t] = "idle"] /\ UNCHANGED mutex

PushEnters(t) ==
  /\ Enters(t, "push", "record")
  /\ UNCHANGED <<capturing, event_buff, event_queue, open, stopping, counters>>

PushRecords(t) ==
  /\ pc[t] = "record"
  /\ event_buff' = Append(event_buff, Event("B", Current(t), t))
  /\ pc' = [pc EXCEPT ![t] = "queue_push"]
  /\ UNCHANGED <<capturing, event_queue, mutex, open, stopping, counters>>

(* queue_push blocks on a full queue, with the mutex held. *)
PushQueues(t) ==
  /\ pc[t] = "queue_push"
  /\ used_items < EventCapacity
  /\ items' = [items EXCEPT ![tail_index % EventCapacity] = Len(event_buff)]
  /\ tail_index' = tail_index + 1
  /\ used_items' = used_items + 1
  /\ mutex' = NoThread
  /\ pc' = [pc EXCEPT ![t] = "idle"]
  /\ UNCHANGED <<capturing, event_buff, open, stopping, counters>>

-----------------------------------------------------------------------------
(* trace_duration_pop. *)

Pop(t) ==
  /\ pc[t] = "idle" /\ open[t] # <<>>
  /\ open' = [open EXCEPT ![t] = SubSeq(@, 1, Len(@) - 1)]
  /\ pc' = [pc EXCEPT ![t] = "pop"]
  /\ UNCHANGED <<capturing, event_buff, event_queue, mutex, stopping, counters>>

PopEnters(t) ==
  /\ Enters(t, "pop", "dequeue")
  /\ UNCHANGED <<capturing, event_buff, event_queue, open, stopping, counters>>

(* Faulty variant: the oldest, as queue_pop would take. *)
Oldest == 0
Newest == (tail_index - 1) % EventCapacity

(* dequeue blocks on an empty queue, with the mutex held.  The event gets  *)
(* the name and the thread of the duration it was given.                   *)
PopRecords(t) ==
  /\ pc[t] = "dequeue"
  /\ used_items > 0
  /\ tail_index' = tail_index - 1
  /\ used_items' = used_items - 1
  /\ event_buff' = Append(event_buff, [event_buff[items[Newest]] EXCEPT !.ph = "E"])
  /\ mutex' = NoThread
  /\ pc' = [pc EXCEPT ![t] = "idle"]
  /\ UNCHANGED <<capturing, items, open, stopping, counters>>

-----------------------------------------------------------------------------
(* trace_capture_start and trace_capture_stop. *)

CaptureStart ==
  /\ main = "idle" /\ ~capturing
  /\ captures < MaxCaptures
  /\ QuietStart => Quiet /\ \A t \in Thread : open[t] = <<>>
  /\ capturing' = TRUE
  /\ captures' = captures + 1
  /\ UNCHANGED <<event_buff, event_queue, mutex, pc, open, stopping, pushes, traced>>

(* Faulty variant: the flag is left for the end of the capture. *)
StopLate == UNCHANGED capturing
Stop == capturing' = FALSE

CaptureStop ==
  /\ main = "idle" /\ capturing
  /\ QuietStop => Quiet
  /\ Stop
  /\ main' = "measure"
  /\ UNCHANGED <<event_buff, event_queue, mutex, pc, open, str_size, written, counters>>

(* The first pass over the buffer, which adds up the size of the text.     *)
StopMeasures ==
  /\ main = "measure"
  /\ str_size' = Len(event_buff)
  /\ main' = "write"
  /\ UNCHANGED <<capturing, event_buff, event_queue, mutex, pc, open, written, counters>>

(* The second pass, into memory of that size, and fs_write of it.  Each    *)
(* snprintf ends with a NUL that the next one overwrites; the last stays.  *)
StopWrites ==
  /\ main = "write"
  /\ written' = Len(event_buff) + 1
  /\ main' = "idle"
  /\ UNCHANGED <<capturing, event_buff, event_queue, mutex, pc, open, str_size, counters>>

(* Every thread is done. *)
Done == /\ Quiet /\ main = "idle"
        /\ pushes = MaxPushes \/ (MayBeTraced /\ traced = EventCapacity)
        /\ UNCHANGED vars

InCall(t) == PushEnters(t) \/ PushRecords(t) \/ PushQueues(t) \/ PopEnters(t) \/ PopRecords(t)

Next == \/ \E t \in Thread : Push(t) \/ Pop(t) \/ InCall(t)
        \/ CaptureStart \/ CaptureStop \/ StopMeasures \/ StopWrites
        \/ Done

(* A thread inside a call goes on when it can, and one that waits for the  *)
(* mutex gets it in the end.  No thread has to make a call.                *)
Fairness == \A t \in Thread : SF_vars(InCall(t))

Spec == Init /\ [][Next]_vars /\ Fairness

-----------------------------------------------------------------------------
(* Event j ends the duration that event k begins; and that duration is     *)
(* open until event n.                                                     *)
Ends(j, k) ==
  /\ event_buff[j].ph = "E" /\ event_buff[k].ph = "B"
  /\ event_buff[j].duration = event_buff[k].duration
  /\ event_buff[j].tid = event_buff[k].tid
OpenUntil(k, n) == event_buff[k].ph = "B" /\ \A j \in k + 1 .. n - 1 : ~Ends(j, k)

(* What the trace format needs of a file (homework3.md:53-61, where the    *)
(* durations of different threads do not nest): an end event is about the  *)
(* duration begun last of those its thread still has open.  However the    *)
(* threads interleave on the one stack, and across captures started and    *)
(* stopped at any time, the events are nested thread by thread.            *)
WellNested ==
  \A n \in DOMAIN event_buff : event_buff[n].ph = "E" =>
    \E k \in 1 .. n - 1 :
      /\ Ends(n, k) /\ OpenUntil(k, n)
      /\ \A l \in k + 1 .. n - 1 :
           event_buff[l].tid = event_buff[n].tid => ~OpenUntil(l, n)

(* If captures are stopped quietly: what trace_capture_stop writes is what *)
(* it has measured and one byte, the NUL that it writes past the end of    *)
(* its memory (trace.c:154, 131), where heap_alloc has put the callstack;  *)
(* and the events fit event_buff.  Neither is looked at under the mutex    *)
(* nor checked.                                                            *)
EventsFit ==
  /\ written <= str_size + 1
  /\ Len(event_buff) <= 2 * EventCapacity

(* What is written stays in the memory that was allocated for it.          *)
NoByteBeyond == written <= str_size

(* If captures are started quietly, a push or a pop comes back: neither    *)
(* waits in vain for room or for an item in the queue while it holds the   *)
(* mutex.                                                                  *)
DurationCallsReturn == \A t \in Thread : pc[t] # "idle" ~> pc[t] = "idle"

(* "End tracing the currently active duration on the current thread."      *)
(* (trace.h:17): the last event of a thread that has popped is about it.   *)
OwnDurationEnded ==
  [][\A t \in Thread : pc[t] = "dequeue" /\ pc'[t] = "idle" =>
       event_buff'[Len(event_buff')].tid = t]_vars
===============================================================================
