----------------------------- MODULE LifoStack -----------------------------
(* What a stack promises.                                                  *)
EXTENDS SequencesExt

CONSTANTS Element, Garbage
VARIABLES items, popped

Init == items = << >> /\ popped = Garbage

Insert == /\ \E e \in Element : items' = Append(items, e)
          /\ UNCHANGED popped

Pop == /\ items # << >>
       /\ popped' = Last(items) /\ items' = Front(items)

Next == Insert \/ Pop

Spec == Init /\ [][Next]_<<items, popped>>
=============================================================================
