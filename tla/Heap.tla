--------------------------------- MODULE Heap ---------------------------------
(***************************************************************************)
(* heap.c on top of tlsf.c.  Every operation is one step: it is done under *)
(* the heap's mutex, except heap_destroy, which nothing runs beside.  The  *)
(* mutex is Win32's: the thread that holds it may lock it again.  Every    *)
(* block has room for the callstack of its allocation behind the caller's  *)
(* bytes, and heap_destroy reports, from those, the blocks still in use.   *)
(***************************************************************************)
EXTENDS Tlsf

CONSTANTS Thread,
          NoThread,
          Size,            \* sizes that callers ask for
          Align,           \* alignments that callers ask for
          grow_increment,
          ArenaSpan,       \* distance of the addresses VirtualAlloc returns
          MaxArenas,       \* arenas that VirtualAlloc can still give
          MaxAllocs        \* bound: calls of heap_alloc over a run

callstack_size == 2 * Word   \* sizeof(callstack_t): 11 words, here two
arena_header == 2 * Word     \* sizeof(arena_t)

ArenaSize(size) == Max({grow_increment, size * 2}) + arena_header
SystemSize(size) == ArenaSize(size) + pool_overhead

(* tlsf.c has no list for a block of block_size_max bytes, which an arena  *)
(* of that size would begin with.                                          *)
ASSUME HeapAssumption == /\ NoThread \notin Thread
                         /\ grow_increment \in Nat /\ ArenaSpan \in Nat /\ ArenaSpan % Word = 0
                         /\ \A align \in Align : align \in Nat /\ \E n \in 0 .. align : align = 2 ^ n
                         /\ \A size \in Size : /\ size \in Nat /\ SystemSize(size) <= ArenaSpan
                                               /\ AcceptsPool(ArenaSize(size))
                                               /\ PoolSize(ArenaSize(size)) < block_size_max

VARIABLES tlsf,      \* the control structure and the block headers
          arena,     \* the list of arenas, the newest first
          mutex,     \* the thread that holds the mutex
          live,      \* ghost: what callers hold, with its size and callstack
          created,   \* heap_destroy has not been called
          leaks,     \* what check_pool reports
          allocs     \* counter, for the bound

fate == <<created, leaks>>
heapvars == <<tlsf, arena, mutex, live, fate, allocs>>

HeapInit == /\ tlsf = control_construct
            /\ arena = <<>>
            /\ mutex = NoThread
            /\ live = <<>>
            /\ created = TRUE
            /\ leaks = {}
            /\ allocs = 0

(* The mutex is free, or this thread has it from an allocation that failed. *)
CanLock(t) == mutex \in {NoThread, t}

(* Faulty variant: no room for the callstack. *)
FromTlsfUnpadded(h, size, align) == tlsf_memalign(h, align, size)

FromTlsf(h, size, align) == tlsf_memalign(h, align, size + callstack_size)

(* The callstack goes right behind the caller's bytes. *)
Give(p, size) ==
  live' = [q \in DOMAIN live \cup {p} |->
             IF q = p THEN [size |-> size, callstack |-> p + size] ELSE live[q]]

heap_alloc(t, size, align) ==
  LET got == FromTlsf(tlsf, size, align)
  IN  /\ created /\ allocs < MaxAllocs /\ CanLock(t)
      /\ got.ptr # NULL
      /\ tlsf' = got.h
      /\ Give(got.ptr, size)
      /\ allocs' = allocs + 1
      /\ UNCHANGED <<arena, mutex, fate>>

(* tlsf has no block: one more arena, and a second try, which may fail.    *)
heap_alloc_grows(t, size, align) ==
  LET base == ArenaSpan * (Len(arena) + 1)
      grown == tlsf_add_pool(tlsf, base + arena_header, ArenaSize(size))
      got == FromTlsf(grown, size, align)
  IN  /\ created /\ allocs < MaxAllocs /\ CanLock(t)
      /\ FromTlsf(tlsf, size, align).ptr = NULL
      /\ Len(arena) < MaxArenas
      /\ arena' = <<[base |-> base, pool |-> base + arena_header,
                     bytes |-> SystemSize(size)]>> \o arena
      /\ tlsf' = got.h
      /\ IF got.ptr # NULL THEN Give(got.ptr, size) ELSE UNCHANGED live
      /\ allocs' = allocs + 1
      /\ UNCHANGED <<mutex, fate>>

(* VirtualAlloc fails: heap_alloc returns NULL with the mutex locked.      *)
heap_alloc_fails(t, size, align) ==
  /\ created /\ allocs < MaxAllocs /\ CanLock(t)
  /\ FromTlsf(tlsf, size, align).ptr = NULL
  /\ Len(arena) = MaxArenas
  /\ mutex' = t
  /\ allocs' = allocs + 1
  /\ UNCHANGED <<tlsf, arena, live, fate>>

heap_free(t, p) ==
  /\ created /\ CanLock(t)
  /\ p \in DOMAIN live
  /\ tlsf' = tlsf_free(tlsf, p)
  /\ live' = [q \in DOMAIN live \ {p} |-> live[q]]
  /\ UNCHANGED <<arena, mutex, fate, allocs>>

(* The blocks of an arena that are in use. *)
UsedBlocks(a) ==
  LET walk == tlsf_walk_pool(tlsf, arena[a].pool)
  IN  {walk[n] : n \in {m \in DOMAIN walk : tlsf.hdr[walk[m]].free = 0}}

(* check_pool: the size it prints, and where it reads the callstack. *)
check_pool(b) ==
  [ptr |-> Ptr(b), size |-> tlsf.hdr[b].size - callstack_size,
   callstack |-> Ptr(b) + tlsf.hdr[b].size - callstack_size]

heap_destroy ==
  /\ created /\ created' = FALSE
  /\ leaks' = UNION {{check_pool(b) : b \in UsedBlocks(a)} : a \in DOMAIN arena}
  /\ arena' = <<>>
  /\ tlsf' = control_construct
  /\ mutex' = NoThread
  /\ UNCHANGED <<live, allocs>>

(* After heap_destroy there is no heap. *)
Over == ~created /\ UNCHANGED heapvars

HeapNext == \/ \E t \in Thread, size \in Size, align \in Align :
                 \/ heap_alloc(t, size, align)
                 \/ heap_alloc_grows(t, size, align)
                 \/ heap_alloc_fails(t, size, align)
            \/ \E t \in Thread : \E p \in DOMAIN live : heap_free(t, p)
            \/ heap_destroy \/ Over

HeapSpec == HeapInit /\ [][HeapNext]_heapvars

-----------------------------------------------------------------------------
(* tlsf.c's own checks hold between any two calls: bitmaps and lists agree, *)
(* no two free blocks are neighbours, every block is in the list of its    *)
(* size, and every block knows whether the one before it is free.          *)
TlsfChecks ==
  /\ tlsf_check(tlsf)
  /\ \A a \in DOMAIN arena : tlsf_check_pool(tlsf, arena[a].pool)

(* No memory is lost: the blocks of a pool tile it from its first byte to  *)
(* its sentinel, those in use are the ones callers hold, and every other   *)
(* one can be found in a free list.                                        *)
NoMemoryLost ==
  /\ created => {Ptr(b) : b \in UNION {UsedBlocks(a) : a \in DOMAIN arena}} = DOMAIN live
  /\ \A a \in DOMAIN arena :
       LET walk == tlsf_walk_pool(tlsf, arena[a].pool)
           last == walk[Len(walk)]
       IN  /\ arena[a].base + arena[a].bytes - Ptr(block_next(tlsf, last)) \in 0 .. Word - 1
           /\ \A n \in DOMAIN walk :
                tlsf.hdr[walk[n]].free = 1 =>
                  walk[n] \in FreeList(tlsf, mapping_insert(tlsf.hdr[walk[n]].size))

Bytes(a) == arena[a].base .. arena[a].base + arena[a].bytes - 1

Promise == INSTANCE Allocator WITH
  Request <- {<<size + callstack_size, align>> : size \in Size, align \in Align},
  held <- IF created THEN [p \in DOMAIN live |-> live[p].size + callstack_size] ELSE <<>>,
  space <- UNION {Bytes(a) : a \in DOMAIN arena},
  over <- ~created,
  report <- {leak.ptr : leak \in leaks}

(* Callers get aligned memory of the heap's that no other caller has, and  *)
(* heap_destroy reports every block that was not freed and no other.       *)
ImplementsAllocator == Promise!Spec

(* "Size of each leaked block is reported correctly (within 8 bytes of     *)
(* true size)", "Callstack of the allocation site of each leaked block is  *)
(* correctly reported" (src/docs/homework1.md:35-36): a word is 8 bytes,   *)
(* and a callstack is read from where heap_alloc has put it.               *)
LeakReportTrue ==
  ~created => \A leak \in leaks :
                /\ leak.size - live[leak.ptr].size <= Word
                /\ leak.callstack = live[leak.ptr].callstack
===============================================================================
