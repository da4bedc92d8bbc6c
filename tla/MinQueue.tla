------------------------------ MODULE MinQueue ------------------------------
(* What the priority queue promises to the searches: a set of keys with a  *)
(* value each, from which a key of the least value leaves.  The value of a *)
(* key that has left is kept, the searches read it as a distance.          *)
EXTENDS Integers

CONSTANTS Key, Value, INFINITE
VARIABLES keys, value

Init == keys = {} /\ value \in [Key -> Value]

Reset == keys' = {} /\ value' = [k \in Key |-> INFINITE]

Update == \E k \in Key, v \in Value :
  keys' = keys \union {k} /\ value' = [value EXCEPT ![k] = v]

Pop == \E k \in keys :
  /\ \A other \in keys : value[k] <= value[other]
  /\ keys' = keys \ {k} /\ UNCHANGED value

Next == Reset \/ Update \/ Pop

Spec == Init /\ [][Next]_<<keys, value>>
=============================================================================
