-------------------------------- MODULE Tlsf --------------------------------
(***************************************************************************)
(* tlsf.c: the allocator under the heap, as operators on a control         *)
(* structure                                                               *)
(*   [fl |-> first-level bitmap, sl |-> second-level bitmaps,              *)
(*    blocks |-> heads of the free lists, hdr |-> block headers]           *)
(* where hdr is the memory that holds a block_header_t: one record per     *)
(* address at which a block begins.  Addresses and sizes are numbers; a    *)
(* size field keeps its two flag bits as "free" and "prev_free".  What a   *)
(* caller may have written over, and memory never initialised, is Junk.    *)
(***************************************************************************)
EXTENDS Integers, Sequences, FiniteSetsExt

CONSTANTS ALIGN_SIZE_LOG2, SL_INDEX_COUNT_LOG2, FL_INDEX_MAX

Word == 2 ^ ALIGN_SIZE_LOG2
SL_INDEX_COUNT == 2 ^ SL_INDEX_COUNT_LOG2
FL_INDEX_SHIFT == SL_INDEX_COUNT_LOG2 + ALIGN_SIZE_LOG2
FL_INDEX_COUNT == FL_INDEX_MAX - FL_INDEX_SHIFT + 1
SMALL_BLOCK_SIZE == 2 ^ FL_INDEX_SHIFT

ASSUME TlsfAssumption == /\ ALIGN_SIZE_LOG2 \in Nat \ {0} /\ SL_INDEX_COUNT_LOG2 \in Nat
                         /\ FL_INDEX_MAX \in Nat /\ FL_INDEX_SHIFT <= FL_INDEX_MAX

FL == 0 .. FL_INDEX_COUNT - 1
SL == 0 .. SL_INDEX_COUNT - 1

header_size == 4 * Word       \* sizeof(block_header_t)
overhead == Word              \* block_header_overhead
block_size_min == 3 * Word
block_size_max == 2 ^ FL_INDEX_MAX
pool_overhead == 2 * overhead

block_null == 0
NULL == 0
Junk == -1

Ptr(b) == b + 2 * Word        \* block_to_ptr
Block(p) == p - 2 * Word      \* block_from_ptr
AlignUp(x, align) == ((x + align - 1) \div align) * align
AlignDown(x, align) == (x \div align) * align

-----------------------------------------------------------------------------
(* Blocks and their neighbours. *)

block_next(h, b) == Ptr(b) + h.hdr[b].size - overhead
LinkNext(h, b) == [h EXCEPT !.hdr[block_next(h, b)].prev_phys = b]
PrevFree(h, b) == [h EXCEPT !.hdr[b].prev_free = 1]

(* Faulty variant: the next block is not told. *)
MarkAsUsedAlone(h, b) == [h EXCEPT !.hdr[b].free = 0]

MarkAsFree(h, b) == [PrevFree(LinkNext(h, b), block_next(h, b)) EXCEPT !.hdr[b].free = 1]
MarkAsUsed(h, b) == [h EXCEPT !.hdr[block_next(h, b)].prev_free = 0, !.hdr[b].free = 0]

(* The caller's bytes: the links of the block, and the last word of it,    *)
(* where the next block's prev_phys_block is.                              *)
HandOver(h, b) == [h EXCEPT !.hdr[b].next = Junk, !.hdr[b].prev = Junk,
                            !.hdr[block_next(h, b)].prev_phys = Junk]

adjust_request_size(size, align) ==
  IF size > 0 /\ AlignUp(size, align) < block_size_max
    THEN Max({AlignUp(size, align), block_size_min}) ELSE 0

-----------------------------------------------------------------------------
(* The free lists. *)

fls(n) == CHOOSE k \in 0 .. n : 2 ^ k <= n /\ n < 2 ^ (k + 1)

mapping_insert(size) ==
  IF size < SMALL_BLOCK_SIZE
    THEN [fl |-> 0, sl |-> size \div (SMALL_BLOCK_SIZE \div SL_INDEX_COUNT)]
    ELSE [fl |-> fls(size) - (FL_INDEX_SHIFT - 1),
          sl |-> size \div 2 ^ (fls(size) - SL_INDEX_COUNT_LOG2) - SL_INDEX_COUNT]

mapping_search(size) ==
  mapping_insert(IF size >= SMALL_BLOCK_SIZE
                   THEN size + 2 ^ (fls(size) - SL_INDEX_COUNT_LOG2) - 1 ELSE size)

(* The list to take a block from: a set of one, or none. *)
search_suitable_block(h, at) ==
  LET here == {j \in h.sl[at.fl] : j >= at.sl}
      larger == {i \in h.fl : i > at.fl}
  IN  IF here # {} THEN {[fl |-> at.fl, sl |-> Min(here)]}
      ELSE IF larger # {} THEN {[fl |-> Min(larger), sl |-> Min(h.sl[Min(larger)])]}
      ELSE {}

remove_free_block(h, b, at) ==
  LET prev == h.hdr[b].prev
      next == h.hdr[b].next
      unlinked == [h EXCEPT !.hdr[next].prev = prev, !.hdr[prev].next = next]
      emptied == [unlinked EXCEPT !.sl[at.fl] = @ \ {at.sl},
                                  !.fl = IF h.sl[at.fl] \subseteq {at.sl}
                                           THEN @ \ {at.fl} ELSE @]
  IN  IF h.blocks[at.fl][at.sl] # b THEN unlinked
      ELSE [IF next = block_null THEN emptied ELSE unlinked
              EXCEPT !.blocks[at.fl][at.sl] = next]

block_remove(h, b) == remove_free_block(h, b, mapping_insert(h.hdr[b].size))

block_insert(h, b) ==
  LET at == mapping_insert(h.hdr[b].size)
      current == h.blocks[at.fl][at.sl]
  IN  [h EXCEPT !.hdr[b].next = current, !.hdr[b].prev = block_null,
                !.hdr[current].prev = b,
                !.blocks[at.fl][at.sl] = b,
                !.fl = @ \cup {at.fl}, !.sl[at.fl] = @ \cup {at.sl}]

-----------------------------------------------------------------------------
(* Splitting and merging. *)

block_can_split(h, b, size) == h.hdr[b].size >= header_size + size

Remaining(b, size) == Ptr(b) + size - overhead

(* The flags of the second block are whatever was in memory there. *)
block_split(h, b, size) ==
  LET r == Remaining(b, size)
      header == [size |-> h.hdr[b].size - (size + overhead), free |-> Junk,
                 prev_free |-> Junk, prev_phys |-> Junk, next |-> Junk, prev |-> Junk]
      cut == [h EXCEPT !.hdr = [c \in DOMAIN @ \cup {r} |-> IF c = r THEN header ELSE @[c]],
                       !.hdr[b].size = size]
  IN  MarkAsFree(cut, r)

block_absorb(h, prev, b) ==
  LET joined == [h EXCEPT !.hdr[prev].size = @ + h.hdr[b].size + overhead]
  IN  LinkNext([joined EXCEPT !.hdr = [c \in DOMAIN @ \ {b} |-> @[c]]], prev)

PrevOrSelf(h, b) == IF h.hdr[b].prev_free = 1 THEN h.hdr[b].prev_phys ELSE b

block_merge_prev(h, b) ==
  LET prev == h.hdr[b].prev_phys
  IN  IF h.hdr[b].prev_free = 1 THEN block_absorb(block_remove(h, prev), prev, b) ELSE h

block_merge_next(h, b) ==
  IF h.hdr[block_next(h, b)].free = 1
    THEN block_absorb(block_remove(h, block_next(h, b)), b, block_next(h, b)) ELSE h

(* Faulty variant: the rest is not put into a free list. *)
TrimUnlisted(h, b, size) ==
  LET r == Remaining(b, size)
  IN  IF block_can_split(h, b, size)
        THEN PrevFree(LinkNext(block_split(h, b, size), b), r) ELSE h

block_trim_free(h, b, size) ==
  LET r == Remaining(b, size)
  IN  IF block_can_split(h, b, size)
        THEN block_insert(PrevFree(LinkNext(block_split(h, b, size), b), r), r) ELSE h

(* The block to use, and the structure without the gap before it. *)
block_trim_free_leading(h, b, gap) ==
  LET r == Remaining(b, gap - overhead)
  IN  IF block_can_split(h, b, gap)
        THEN [block |-> r,
              h |-> block_insert(LinkNext(PrevFree(block_split(h, b, gap - overhead), r), b), b)]
        ELSE [block |-> b, h |-> h]

-----------------------------------------------------------------------------
(* The interface. *)

control_construct ==
  [fl |-> {}, sl |-> [i \in FL |-> {}],
   blocks |-> [i \in FL |-> [j \in SL |-> block_null]],
   hdr |-> [b \in {block_null} |->
              [size |-> 0, free |-> 0, prev_free |-> 0, prev_phys |-> NULL,
               next |-> block_null, prev |-> block_null]]]

(* What is left of the memory for the blocks; it is rejected when that is  *)
(* too little or too much.                                                 *)
PoolSize(bytes) == AlignDown(bytes - pool_overhead, Word)
AcceptsPool(bytes) == PoolSize(bytes) \in block_size_min .. block_size_max

tlsf_add_pool(h, mem, bytes) ==
  LET b == mem - overhead
      size == PoolSize(bytes)
      end == Ptr(b) + size - overhead
      header == [size |-> size, free |-> 1, prev_free |-> 0, prev_phys |-> Junk,
                 next |-> Junk, prev |-> Junk]
      sentinel == [header EXCEPT !.size = 0, !.free = 0, !.prev_free = 1, !.prev_phys = b]
      with == [h EXCEPT !.hdr = [c \in DOMAIN @ \cup {b, end} |->
                                   IF c = b THEN header ELSE IF c = end THEN sentinel ELSE @[c]]]
  IN  block_insert(with, b)

(* Where in a free block the caller's data begins, as an offset. *)
Gap(b, align) ==
  LET first == AlignUp(Ptr(b), align) - Ptr(b)
  IN  IF first = 0 \/ first >= header_size THEN first
      ELSE AlignUp(Ptr(b) + first + Max({header_size - first, align}), align) - Ptr(b)

(* The pointer is NULL when no block is large enough. *)
tlsf_memalign(h, align, size) ==
  LET adjust == adjust_request_size(size, Word)
      with_gap == adjust_request_size(adjust + align + header_size, align)
      aligned_size == IF adjust > 0 /\ align > Word THEN with_gap ELSE adjust
      at == mapping_search(aligned_size)
      lists == IF aligned_size = 0 \/ at.fl \notin FL THEN {}
               ELSE search_suitable_block(h, at)
      From(list) ==
        LET b == h.blocks[list.fl][list.sl]
            taken == remove_free_block(h, b, list)
            placed == IF Gap(b, align) > 0
                        THEN block_trim_free_leading(taken, b, Gap(b, align))
                        ELSE [block |-> b, h |-> taken]
            used == MarkAsUsed(block_trim_free(placed.h, placed.block, adjust), placed.block)
        IN  [h |-> HandOver(used, placed.block), ptr |-> Ptr(placed.block)]
  IN  IF lists = {} THEN [h |-> h, ptr |-> NULL] ELSE From(CHOOSE list \in lists : TRUE)

tlsf_free(h, ptr) ==
  LET freed == MarkAsFree(h, Block(ptr))
      b == PrevOrSelf(freed, Block(ptr))
  IN  block_insert(block_merge_next(block_merge_prev(freed, Block(ptr)), b), b)

(* tlsf_walk_pool: the blocks of a pool, up to its sentinel, or up to an   *)
(* address where there is none.                                            *)
IsBlock(h, b) == b \in DOMAIN h.hdr
IsLast(h, b) == IsBlock(h, b) /\ h.hdr[b].size = 0    \* block_is_last

tlsf_walk_pool(h, pool) ==
  LET N == Cardinality(DOMAIN h.hdr)
      at[n \in 0 .. N] ==
        IF n = 0 THEN pool - overhead
        ELSE LET b == at[n - 1] IN IF IsBlock(h, b) THEN block_next(h, b) ELSE b
      end == Min({n \in 0 .. N : ~IsBlock(h, at[n]) \/ IsLast(h, at[n])})
  IN  [n \in 1 .. IF IsLast(h, at[end]) THEN end ELSE end + 1 |-> at[n - 1]]

-----------------------------------------------------------------------------
(* The debugging utilities. *)

FreeList(h, at) ==
  LET N == Cardinality(DOMAIN h.hdr)
      reach[n \in 0 .. N] ==
        IF n = 0 THEN {h.blocks[at.fl][at.sl]}
        ELSE LET found == reach[n - 1]
             IN  found \cup {h.hdr[b].next : b \in found \ {block_null}}
  IN  reach[N] \ {block_null}

(* tlsf_check returns 0. *)
tlsf_check(h) ==
  \A i \in FL, j \in SL :
    LET list == FreeList(h, [fl |-> i, sl |-> j])
    IN  /\ j \in h.sl[i] => i \in h.fl
        /\ j \in h.sl[i] <=> list # {}
        /\ \A b \in list :
             /\ h.hdr[b].free = 1 /\ h.hdr[b].prev_free = 0
             /\ h.hdr[block_next(h, b)].free = 0 /\ h.hdr[block_next(h, b)].prev_free = 1
             /\ h.hdr[b].size >= block_size_min
             /\ mapping_insert(h.hdr[b].size) = [fl |-> i, sl |-> j]

(* tlsf_check_pool returns 0: integrity_walker finds every flag right. *)
tlsf_check_pool(h, pool) ==
  LET walk == tlsf_walk_pool(h, pool)
  IN  \A n \in DOMAIN walk :
        /\ walk[n] \in DOMAIN h.hdr
        /\ h.hdr[walk[n]].prev_free = IF n = 1 THEN 0 ELSE h.hdr[walk[n - 1]].free
=============================================================================
