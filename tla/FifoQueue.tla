----------------------------- MODULE FifoQueue -----------------------------
(* What a queue promises.                                                  *)
EXTENDS Sequences

CONSTANTS Element, Garbage
VARIABLES items, popped

Init == items = << >> /\ popped = Garbage

Insert == /\ \E e \in Element : items' = Append(items, e)
          /\ UNCHANGED popped

Pop == /\ items # << >>
       /\ popped' = Head(items) /\ items' = Tail(items)

Next == Insert \/ Pop

Spec == Init /\ [][Next]_<<items, popped>>
=============================================================================
