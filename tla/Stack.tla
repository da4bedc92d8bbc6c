------------------------------- MODULE Stack -------------------------------
(* The stack of src/mcf/mcf/stack.h: an array that grows by                *)
(* STACK_CACHE_SIZE places when it is full and gives them back when twice  *)
(* as many are unused.  gt_active of src/mcf/mcf/algorithm.c is a stack    *)
(* unless GOLDBERG_QUEUE is defined.                                       *)
EXTENDS Naturals, Sequences

CONSTANTS Element,            \* what the stack holds
          Garbage,            \* what fresh memory holds, no Element
          STACK_CACHE_SIZE,   \* 64 in the code
          MaxLength           \* bound on the number of elements

VARIABLES reserved, len, data,   \* struct name
          popped                 \* what pop returned last
vars == <<reserved, len, data, popped>>

contents == [i \in 1 .. len |-> data[i - 1]]

Init ==
  /\ reserved = STACK_CACHE_SIZE /\ len = 0
  /\ data = [i \in 0 .. reserved - 1 |-> Garbage]
  /\ popped = Garbage

(* Mutant of resized: fresh memory, nothing is kept.                       *)
resized_fresh(d, n) == IF DOMAIN d = 0 .. n - 1 THEN d ELSE [i \in 0 .. n - 1 |-> Garbage]

(* tal_resize keeps what fits.                                             *)
resized(d, n) == [i \in 0 .. n - 1 |-> IF i \in DOMAIN d THEN d[i] ELSE Garbage]

insert(element) ==
  /\ len < MaxLength
  /\ len' = len + 1
  /\ reserved' = IF len' >= reserved THEN reserved + STACK_CACHE_SIZE ELSE reserved
  /\ data' = [resized(data, reserved') EXCEPT ![len] = element]
  /\ UNCHANGED popped

(* So much is unused that some of it is given back.                        *)
spare(n) == n + 2 * STACK_CACHE_SIZE <= reserved

(* On an empty stack pop returns the first place, and no caller asks for   *)
(* it.                                                                     *)
pop ==
  /\ len > 0
  /\ popped' = data[len - 1]
  /\ len' = len - 1
  /\ reserved' = IF spare(len') THEN reserved - STACK_CACHE_SIZE ELSE reserved
  /\ data' = resized(data, reserved')

Next == (\E element \in Element : insert(element)) \/ pop

Spec == Init /\ [][Next]_vars
-----------------------------------------------------------------------------
(* The elements always fit, one place is free for the next, and less than  *)
(* two caches are held in reserve: memory follows the contents down.       *)
ReserveFollows == len < reserved /\ reserved < len + 2 * STACK_CACHE_SIZE

(* The stack is a stack: what comes out went in last.                      *)
Lifo == INSTANCE LifoStack WITH items <- contents
Implements == Lifo!Spec
=============================================================================
