---------------------------------- MODULE Fs ----------------------------------
(***************************************************************************)
(* fs.c: asynchronous file reads and writes.  The client (the main thread) *)
(* creates work objects and queues them; the file thread does the I/O, the *)
(* compression thread the packing and unpacking.  A compressed read goes   *)
(* file -> comp, a compressed write comp -> file: the two queues feed each *)
(* other, so each has one popper and two pushers.  They are rings as in    *)
(* queue.c, and a push is two steps: a pusher that has claimed a slot can  *)
(* be overtaken by the other, and the popper then reads what the slot      *)
(* happens to hold.  A NULL in a queue stops its thread.                   *)
(*                                                                         *)
(* Nothing in fs.c keeps pushers apart.  TakesTurns says of the client     *)
(* that it does, QuietDestroy that it lets its compressed works end before *)
(* it calls fs_destroy; what happens otherwise is checked with FALSE.      *)
(*                                                                         *)
(* File contents and buffers are abstracted to the size of the data, the   *)
(* one thing the compression header has to carry.                          *)
(***************************************************************************)
EXTENDS Integers, Sequences, FiniteSets

CONSTANTS Path,          \* file names
          CompressedPath,\* those read and written with use_compression
          QueueCapacity, \* queue_capacity given to fs_create
          MaxInFlight,   \* bound: works the client keeps undone at a time
          MaxWorks,      \* bound: works created over a run
          MaxSize,       \* bound: largest file
          ByteRange,     \* values of the one header byte (256 in the code)
          UpperRange,    \* values of the other bytes of an int (2^24 in the code)
          UpperBytes,    \* those of them that the stack may hold
          TakesTurns,    \* the client never pushes to a queue the other worker
                         \* may push to as well
          QuietDestroy   \* the client calls fs_destroy with no compressed work undone

ASSUME PathAssumption == CompressedPath \subseteq Path
ASSUME CapacityAssumption == QueueCapacity \in Nat \ {0}
ASSUME BoundsAssumption == /\ MaxInFlight \in Nat \ {0}
                           /\ MaxWorks \in Nat
                           /\ MaxSize \in Nat \ {0}
                           /\ ByteRange \in Nat \ {0}
ASSUME MemoryAssumption == UpperRange \in Nat /\ UpperBytes \subseteq 0 .. UpperRange - 1
ASSUME ClientAssumption == TakesTurns \in BOOLEAN /\ QuietDestroy \in BOOLEAN

Work == 1 .. MaxWorks
Null == 0                      \* the NULL pushed by fs_destroy
Unwritten == -1                \* a slot of a queue as heap_alloc leaves it
Slots == 0 .. QueueCapacity - 1
NoSlot == -1
Data == 1 .. MaxSize
NoFile == 0
Torn == -1                     \* a file whose WriteFile failed half way
Garbage == -2                  \* what a failed decompression leaves behind

VARIABLES file_queue,
          comp_queue,
          work,         \* the work objects, in order of creation
          file_thread,  \* what each worker is doing, on which work, and the
          comp_thread,  \* slot it has claimed if it is half way through a push
          client,       \* the same of the main thread
          disk,         \* per path: data stored there
          seen          \* history: what the file thread read for a work

queues == <<file_queue, comp_queue>>
vars == <<queues, work, file_thread, comp_thread, client, disk, seen>>

Issued == DOMAIN work
Op(w) == work[w].op
Compressed(w) == work[w].path \in CompressedPath
Undone == {w \in Issued : work[w].status = "issued"}

Doing(pc, w) == [pc |-> pc, work |-> w, at |-> NoSlot]
Ready == Doing("ready", Null)

NewQueue == [items |-> [i \in Slots |-> Unwritten], head_index |-> 0, tail_index |-> 0,
             used_items |-> 0, free_items |-> QueueCapacity]

Init == /\ file_queue = NewQueue
        /\ comp_queue = NewQueue
        /\ work = <<>>
        /\ file_thread = Ready
        /\ comp_thread = Ready
        /\ client = Ready
        /\ disk = [p \in Path |-> NoFile]
        /\ seen = <<>>

-----------------------------------------------------------------------------
(* queue_push: a thread waits for a free item and takes the next index ... *)
Claim(thread, queue) ==
  /\ thread.at = NoSlot
  /\ queue.free_items > 0
  /\ queue' = [queue EXCEPT !.free_items = @ - 1, !.tail_index = @ + 1]
  /\ thread' = [thread EXCEPT !.at = queue.tail_index % QueueCapacity]

(* ... then stores its work there and says that there is one item more.    *)
Store(thread, queue) ==
  /\ thread.at # NoSlot
  /\ queue' = [queue EXCEPT !.items[thread.at] = thread.work, !.used_items = @ + 1]

(* What the one popper does with an item.  With a slot nobody has written, *)
(* or one whose work was freed, anything can happen: a NULL ends it, other *)
(* addresses crash the program.  That is not followed further.             *)
Takes(item) ==
  CASE item = Unwritten -> {Doing("exited", Null), Doing("crashed", Null)}
    [] item = Null -> {Doing("exited", Null)}
    [] OTHER -> {Doing(IF work[item].status = "freed" THEN "crashed" ELSE "run", item)}

(* queue_pop, in one step: a queue has a single popper.                    *)
Pop(thread, queue) ==
  /\ thread = Ready
  /\ queue.used_items > 0
  /\ queue' = [queue EXCEPT !.used_items = @ - 1, !.head_index = @ + 1, !.free_items = @ + 1]
  /\ thread' \in Takes(queue.items[queue.head_index % QueueCapacity])

-----------------------------------------------------------------------------
(* The client. *)

NewWork(op, path, payload) ==
  /\ client = Ready
  /\ Len(work) < MaxWorks
  /\ Cardinality(Undone) < MaxInFlight
  /\ work' = Append(work, [op |-> op, path |-> path, payload |-> payload,
                           result |-> "ok", status |-> "issued"])
  /\ seen' = Append(seen, NoFile)
  /\ UNCHANGED <<queues, file_thread, comp_thread, disk>>

(* A compressed write ends in file_queue and a compressed read in          *)
(* comp_queue: the client that takes turns starts a push of its own only   *)
(* when the worker has none to do.                                         *)
CompressedAll(op) == \A w \in Undone : Compressed(w) => Op(w) = op

(* fs_read and fs_write up to their queue_push. *)
Read(path) ==
  /\ TakesTurns => CompressedAll("read")
  /\ NewWork("read", path, NoFile)
  /\ client' = Doing("push_file", Len(work) + 1)

Write(path, data) ==
  /\ TakesTurns => CompressedAll(IF path \in CompressedPath THEN "write" ELSE "read")
  /\ NewWork("write", path, data)
  /\ client' = Doing(IF path \in CompressedPath THEN "push_comp" ELSE "push_file",
                     Len(work) + 1)

(* The queue_push that ends fs_read and fs_write, or that tells a worker   *)
(* to stop.                                                                *)
ClaimFile ==
  /\ client.pc \in {"push_file", "stop_file"}
  /\ Claim(client, file_queue)
  /\ UNCHANGED <<comp_queue, work, file_thread, comp_thread, disk, seen>>

ClaimComp ==
  /\ client.pc \in {"push_comp", "stop_comp"}
  /\ Claim(client, comp_queue)
  /\ UNCHANGED <<file_queue, work, file_thread, comp_thread, disk, seen>>

PushFile ==
  /\ client.pc = "push_file"
  /\ Store(client, file_queue)
  /\ client' = Ready
  /\ UNCHANGED <<comp_queue, work, file_thread, comp_thread, disk, seen>>

PushComp ==
  /\ client.pc = "push_comp"
  /\ Store(client, comp_queue)
  /\ client' = Ready
  /\ UNCHANGED <<file_queue, work, file_thread, comp_thread, disk, seen>>

(* fs_work_wait and the getters; fs_work_destroy waits too, then frees. *)
Wait(w) ==
  /\ client \in {Ready, Doing("closed", Null)}
  /\ work[w].status # "freed"
  /\ client' = Doing(IF client = Ready THEN "wait" ELSE "closed", w)
  /\ UNCHANGED <<queues, work, file_thread, comp_thread, disk, seen>>

AfterWait == IF client.pc = "wait" THEN Ready ELSE Doing("closed", Null)

WaitReturns(frees) ==
  /\ client.pc \in {"wait", "closed"} /\ client.work # Null
  /\ work[client.work].status = "done"
  /\ work' = IF frees THEN [work EXCEPT ![client.work].status = "freed"] ELSE work
  /\ client' = AfterWait
  /\ UNCHANGED <<queues, file_thread, comp_thread, disk, seen>>

(* fs_destroy, which may be called with works undone.                      *)
StopFile ==
  /\ client = Ready
  /\ QuietDestroy => \A w \in Undone : ~Compressed(w)
  /\ client' = Doing("stop_file", Null)
  /\ UNCHANGED <<queues, work, file_thread, comp_thread, disk, seen>>

PushStopFile ==
  /\ client.pc = "stop_file"
  /\ Store(client, file_queue)
  /\ client' = Doing("stop_comp", Null)
  /\ UNCHANGED <<comp_queue, work, file_thread, comp_thread, disk, seen>>

(* Faulty variant: only the file thread is told to stop. *)
PushStopCompForgotten ==
  /\ client.pc = "stop_comp"
  /\ client' = Doing("join_file", Null)
  /\ UNCHANGED <<queues, work, file_thread, comp_thread, disk, seen>>

PushStopComp ==
  /\ client.pc = "stop_comp"
  /\ Store(client, comp_queue)
  /\ client' = Doing("join_file", Null)
  /\ UNCHANGED <<file_queue, work, file_thread, comp_thread, disk, seen>>

(* Faulty variant: file_queue is destroyed without thread_destroy first. *)
JoinFileAtOnce ==
  /\ client.pc = "join_file"
  /\ client' = Doing("join_comp", Null)
  /\ UNCHANGED <<queues, work, file_thread, comp_thread, disk, seen>>

JoinFile ==
  /\ client.pc = "join_file" /\ file_thread.pc = "exited"
  /\ client' = Doing("join_comp", Null)
  /\ UNCHANGED <<queues, work, file_thread, comp_thread, disk, seen>>

JoinComp ==
  /\ client.pc = "join_comp" /\ comp_thread.pc = "exited"
  /\ client' = Doing("closed", Null)
  /\ UNCHANGED <<queues, work, file_thread, comp_thread, disk, seen>>

-----------------------------------------------------------------------------
(* What the workers do to a work object.  Signalling is their last access. *)

(* Faulty variant: an error return that forgets event_signal. *)
FailsSilently(w) == work' = [work EXCEPT ![w].result = "error"]

Fails(w) == work' = [work EXCEPT ![w].result = "error", ![w].status = "done"]
Succeeds(w, payload) == work' = [work EXCEPT ![w].payload = payload, ![w].status = "done"]
StillInHand(w, payload) == work' = [work EXCEPT ![w].payload = payload]

(* file_thread_func *)
FilePop ==
  /\ Pop(file_thread, file_queue)
  /\ UNCHANGED <<comp_queue, work, comp_thread, client, disk, seen>>

(* file_read and file_write leaving with an error: the path does not       *)
(* convert, the file does not open, has no size or does not read.          *)
FileError ==
  /\ file_thread.pc = "run"
  /\ Fails(file_thread.work)
  /\ file_thread' = Ready
  /\ UNCHANGED <<queues, comp_thread, client, disk, seen>>

(* Faulty variant: a compressed read is signalled before it is unpacked. *)
FileReadSignalsEarly ==
  LET w == file_thread.work
      stored == disk[work[w].path]
  IN  /\ file_thread.pc = "run" /\ Op(w) = "read"
      /\ stored # NoFile
      /\ seen' = [seen EXCEPT ![w] = stored]
      /\ Succeeds(w, stored)
      /\ file_thread' = IF Compressed(w) THEN Doing("push", w) ELSE Ready
      /\ UNCHANGED <<queues, comp_thread, client, disk>>

FileRead ==
  LET w == file_thread.work
      stored == disk[work[w].path]
  IN  /\ file_thread.pc = "run" /\ Op(w) = "read"
      /\ stored # NoFile
      /\ seen' = [seen EXCEPT ![w] = stored]
      /\ IF Compressed(w)
           THEN StillInHand(w, stored) /\ file_thread' = Doing("push", w)
           ELSE Succeeds(w, stored) /\ file_thread' = Ready
      /\ UNCHANGED <<queues, comp_thread, client, disk>>

FileClaim ==
  /\ file_thread.pc = "push"
  /\ Claim(file_thread, comp_queue)
  /\ UNCHANGED <<file_queue, work, comp_thread, client, disk, seen>>

FilePush ==
  /\ file_thread.pc = "push"
  /\ Store(file_thread, comp_queue)
  /\ file_thread' = Ready
  /\ UNCHANGED <<file_queue, work, comp_thread, client, disk, seen>>

FileWrite ==
  LET w == file_thread.work
  IN  /\ file_thread.pc = "run" /\ Op(w) = "write"
      /\ \/ /\ disk' = [disk EXCEPT ![work[w].path] = work[w].payload]
            /\ Succeeds(w, work[w].payload)
         \/ /\ disk' = [disk EXCEPT ![work[w].path] = Torn]
            /\ Fails(w)
      /\ file_thread' = Ready
      /\ UNCHANGED <<queues, comp_thread, client, seen>>

(* comp_thread_func *)
CompPop ==
  /\ Pop(comp_thread, comp_queue)
  /\ UNCHANGED <<file_queue, work, file_thread, client, disk, seen>>

(* Faulty variant: the largest index of the data instead of its size. *)
HeaderLastIndex(data) == (data - 1) % ByteRange

(* The header of a packed file: one byte of the size of the data. *)
Header(data) == data % ByteRange

(* LZ4_decompress_safe into a buffer of "room" bytes, which fails if that  *)
(* is too little, or negative.                                             *)
Unpack(data, room) == IF data \in Data /\ data <= room THEN data ELSE Garbage

(* A signed int, from its one lower byte and its upper ones.               *)
Signed(upper, byte) ==
  (IF 2 * upper < UpperRange THEN upper ELSE upper - UpperRange) * ByteRange + byte

(* One byte is copied from the header into dst_buff_size, a signed int     *)
(* whose other bytes are whatever the stack held.  That the decompression  *)
(* failed is not looked at: the work is signalled with result 0.           *)
CompRead ==
  LET w == comp_thread.work
  IN  /\ comp_thread.pc = "run" /\ Op(w) = "read"
      /\ \E upper \in UpperBytes :
           Succeeds(w, Unpack(work[w].payload, Signed(upper, Header(work[w].payload))))
      /\ comp_thread' = Ready
      /\ UNCHANGED <<queues, file_thread, client, disk, seen>>

CompWrite ==
  /\ comp_thread.pc = "run" /\ Op(comp_thread.work) = "write"
  /\ comp_thread' = Doing("push", comp_thread.work)
  /\ UNCHANGED <<queues, work, file_thread, client, disk, seen>>

CompClaim ==
  /\ comp_thread.pc = "push"
  /\ Claim(comp_thread, file_queue)
  /\ UNCHANGED <<comp_queue, work, file_thread, client, disk, seen>>

CompPush ==
  /\ comp_thread.pc = "push"
  /\ Store(comp_thread, file_queue)
  /\ comp_thread' = Ready
  /\ UNCHANGED <<comp_queue, work, file_thread, client, disk, seen>>

-----------------------------------------------------------------------------
FileStep == FilePop \/ FileError \/ FileRead \/ FileClaim \/ FilePush \/ FileWrite
CompStep == CompPop \/ CompRead \/ CompWrite \/ CompClaim \/ CompPush

(* The client inside a call of fs.c. *)
ClientStep == \/ ClaimFile \/ ClaimComp \/ PushFile \/ PushComp
              \/ \E frees \in BOOLEAN : WaitReturns(frees)
              \/ PushStopFile \/ PushStopComp \/ JoinFile \/ JoinComp

(* The program has destroyed its file system and all of its works. *)
Finished == /\ client = Doing("closed", Null)
            /\ \A w \in Issued : work[w].status = "freed"
            /\ UNCHANGED vars

Next == \/ \E path \in Path : Read(path) \/ \E data \in Data : Write(path, data)
        \/ \E w \in Issued : Wait(w)
        \/ StopFile
        \/ ClientStep
        \/ FileStep
        \/ CompStep
        \/ Finished

(* Running threads run; the client is only obliged to finish a call that   *)
(* is not blocked, never to make another one.                              *)
Fairness == WF_vars(FileStep) /\ WF_vars(CompStep) /\ WF_vars(ClientStep)

Spec == Init /\ [][Next]_vars /\ Fairness

-----------------------------------------------------------------------------
(* What a queue still has to hand out, in order.                           *)
Waiting(queue) ==
  [i \in 1 .. queue.used_items |->
     queue.items[(queue.head_index + i - 1) % QueueCapacity]]

Hand(thread, pcs) == IF thread.pc \in pcs THEN {thread.work} ELSE {}
TimesIn(q, w) == Cardinality({i \in DOMAIN q : q[i] = w})

(* The places a work object can be in: a queue, or the hands of a thread.  *)
Places(w) ==
  TimesIn(Waiting(file_queue), w) + TimesIn(Waiting(comp_queue), w)
    + Cardinality({t \in {"file", "comp", "client"} :
                     w \in CASE t = "file" -> Hand(file_thread, {"run", "push"})
                             [] t = "comp" -> Hand(comp_thread, {"run", "push"})
                             [] t = "client" -> Hand(client, {"push_file", "push_comp"})})

(* If the client takes turns and destroys quietly: a work that is not done *)
(* is in exactly one place, and once its event is raised, after which its  *)
(* owner may free it, it is in none.  No worker drops a work, keeps one it *)
(* has signalled, queues it twice, or takes a slot that was not written.   *)
EveryWorkInOnePlace ==
  /\ \A w \in Issued : Places(w) = IF work[w].status = "issued" THEN 1 ELSE 0
  /\ "crashed" \notin {file_thread.pc, comp_thread.pc}

(* If the client takes turns and destroys quietly: when fs_destroy frees a *)
(* queue, nothing is left in it and the thread at its other end will not   *)
(* push to it any more.                                                    *)
DestroyedQueuesUnused ==
  /\ client.pc \in {"join_comp", "closed"} =>
       file_queue.used_items = 0 /\ comp_thread.pc \notin {"run", "push"}
  /\ client.pc = "closed" => comp_queue.used_items = 0

(* A read that succeeds delivers the data that was stored in the file.     *)
(* homework2.md: "compressed read/write works correctly".  For that the    *)
(* client has to take turns, the size has to fit the header's byte, and    *)
(* the stack's three bytes must not make it negative.                      *)
ReadsIntact ==
  \A w \in Issued :
    work[w].status = "done" /\ Op(w) = "read" /\ work[w].result = "ok" /\ seen[w] \in Data
      => work[w].payload = seen[w]

(* Every work that is queued gets done (fs.h: "File at the specified path  *)
(* will be read in full", "will be written in full"), if the client takes  *)
(* turns: the queues then do not fill up in a circle, and no worker is     *)
(* stopped by a slot that was not written yet.                             *)
EveryWorkCompletes == \A w \in Work : w \in Undone ~> w \notin Undone

(* fs_destroy returns, with whatever plain works are queued in front of    *)
(* the NULL (QuietDestroy leaves no compressed ones).                      *)
DestroyReturns == (client.pc = "stop_file") ~> (client.pc = "closed")
=============================================================================
