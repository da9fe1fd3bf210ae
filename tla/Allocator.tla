------------------------------ MODULE Allocator ------------------------------
(***************************************************************************)
(* What the heap promises its callers: memory that is aligned, inside what *)
(* was got from the system and nobody else's, until it is freed; and, when *)
(* the heap is destroyed, a report of what was not freed and of nothing    *)
(* else (src/docs/homework1.md).                                           *)
(***************************************************************************)
EXTENDS Integers

CONSTANTS Request   \* pairs of a size and an alignment a caller may ask for

VARIABLES held,     \* address |-> size of what callers hold
          space,    \* the addresses the heap has got from the system
          over,     \* the heap has been destroyed
          report    \* addresses reported as leaked

fate == <<over, report>>
vars == <<held, space, fate>>

Region(address, size) == address .. address + size - 1

Init == held = <<>> /\ space = {} /\ over = FALSE /\ report = {}

(* The new address comes out of held', which says what was handed out. *)
Alloc(size, align) ==
  /\ ~over
  /\ space \subseteq space' /\ space' \subseteq Nat
  /\ \E a \in DOMAIN held' \ DOMAIN held :
       /\ a % align = 0
       /\ Region(a, size) \subseteq space'
       /\ \A b \in DOMAIN held : Region(a, size) \cap Region(b, held[b]) = {}
       /\ held' = [b \in DOMAIN held \cup {a} |-> IF b = a THEN size ELSE held[b]]
  /\ UNCHANGED fate

(* An allocation that fails may have grown the heap. *)
Refuse ==
  /\ ~over
  /\ space \subseteq space' /\ space' \subseteq Nat
  /\ UNCHANGED <<held, fate>>

Free(a) ==
  /\ ~over
  /\ held' = [b \in DOMAIN held \ {a} |-> held[b]]
  /\ UNCHANGED <<space, fate>>

Destroy ==
  /\ ~over
  /\ over' = TRUE
  /\ report' = DOMAIN held
  /\ held' = <<>>
  /\ space' = {}

Next == \/ \E r \in Request : Alloc(r[1], r[2])
        \/ Refuse \/ Destroy
        \/ \E a \in DOMAIN held : Free(a)

Spec == Init /\ [][Next]_vars

-----------------------------------------------------------------------------
(* No two callers have a byte in common, and every byte a caller has is one *)
(* the heap got from the system and has not given back.                    *)
Exclusive ==
  \A a \in DOMAIN held :
    /\ Region(a, held[a]) \subseteq space
    /\ \A b \in DOMAIN held \ {a} : Region(a, held[a]) \cap Region(b, held[b]) = {}
===============================================================================
