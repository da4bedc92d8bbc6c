------------------------------- MODULE Queue -------------------------------
(* The queue of src/mcf/mcf/queue.h: a list of chunks, each an array of    *)
(* QUEUE_CACHE_SIZE elements that is filled from one end and emptied from  *)
(* the other.  A chunk is allocated when the last one is full and freed    *)
(* when it is empty.  The list is ccan/lqueue: enqueue at the back,        *)
(* dequeue at the front.                                                   *)
EXTENDS Naturals, SequencesExt

CONSTANTS Element,            \* what the queue holds
          Garbage,            \* what fresh memory holds, no Element
          QUEUE_CACHE_SIZE,   \* 64 in the code
          MaxLength           \* bound on the number of elements

VARIABLES chunks,     \* [begin, end, data], from the front to the back
          popped      \* what pop returned last, Garbage before that
vars == <<chunks, popped>>

Chunk == [begin : 0 .. QUEUE_CACHE_SIZE, end : 0 .. QUEUE_CACHE_SIZE,
          data : [0 .. QUEUE_CACHE_SIZE - 1 -> Element \union {Garbage}]]

TypeOK == chunks \in Seq(Chunk) /\ popped \in Element \union {Garbage}

(* The elements of a chunk, and of the queue, in their order.              *)
elements(qc) == [i \in 1 .. qc.end - qc.begin |-> qc.data[qc.begin + i - 1]]
contents == FlattenSeq([i \in DOMAIN chunks |-> elements(chunks[i])])

Init == chunks = << >> /\ popped = Garbage

(* A chunk as qcache_init_ leaves it, and after qcache_insert_.            *)
qcache_init ==
  [begin |-> 0, end |-> 0, data |-> [i \in 0 .. QUEUE_CACHE_SIZE - 1 |-> Garbage]]

qcache_empty(qc) == qc.begin = qc.end

qcache_full(qc) == qc.end = QUEUE_CACHE_SIZE

qcache_insert(qc, element) ==
  [qc EXCEPT !.data[qc.end] = element, !.end = @ + 1]

(* Mutant of qcache_pop: the chunk is taken for empty one element early.   *)
qcache_pop_early(qc) ==
  IF qc.begin + 2 >= qc.end
  THEN [qc EXCEPT !.begin = 0, !.end = 0] ELSE [qc EXCEPT !.begin = @ + 1]

qcache_pop(qc) ==
  IF qc.begin + 1 >= qc.end
  THEN [qc EXCEPT !.begin = 0, !.end = 0] ELSE [qc EXCEPT !.begin = @ + 1]

insert(element) ==
  /\ Len(contents) < MaxLength
  /\ chunks' =
       IF chunks # << >> /\ ~ qcache_full(Last(chunks))
       THEN [chunks EXCEPT ![Len(chunks)] = qcache_insert(@, element)]
       ELSE Append(chunks, qcache_insert(qcache_init, element))
  /\ UNCHANGED popped

(* The front chunk is freed when its last element was taken.  On an empty  *)
(* queue pop returns zeros, which no caller asks for.                      *)
pop ==
  /\ chunks # << >>
  /\ LET qc == Head(chunks)
         rest == qcache_pop(qc)
     IN  /\ popped' = qc.data[qc.begin]
         /\ chunks' = IF qcache_empty(rest) THEN Tail(chunks)
                      ELSE <<rest>> \o Tail(chunks)

Next == (\E element \in Element : insert(element)) \/ pop

Spec == Init /\ [][Next]_vars
-----------------------------------------------------------------------------
(* empty and front look at the list of chunks only: they are right because *)
(* no chunk of the list is empty and only the last one has room at its     *)
(* end.                                                                    *)
ChunksInUse ==
  \A i \in DOMAIN chunks :
    /\ chunks[i].begin < chunks[i].end
    /\ i > 1 => chunks[i].begin = 0
    /\ i < Len(chunks) => chunks[i].end = QUEUE_CACHE_SIZE

(* The queue is a queue: what comes out went in first.                     *)
Fifo == INSTANCE FifoQueue WITH items <- contents
Implements == Fifo!Spec
=============================================================================
