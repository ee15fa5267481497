--------------------------------- MODULE Fifo ---------------------------------
(***************************************************************************)
(* What put and get promise, in both versions of the bounded buffer of     *)
(* pthread/: a queue of at most CAPACITY values, from which every value is *)
(* taken once and in the order of the puts.                                *)
(***************************************************************************)
EXTENDS Naturals, Sequences

CONSTANTS CAPACITY, Values

VARIABLES queue, received

Init == queue = << >> /\ received = << >>

Put ==
  /\ Len(queue) < CAPACITY
  /\ \E v \in Values : queue' = Append(queue, v)
  /\ UNCHANGED received

Get ==
  /\ queue # << >>
  /\ queue' = Tail(queue)
  /\ received' = Append(received, Head(queue))

Next == Put \/ Get

Spec == Init /\ [][Next]_<<queue, received>>
===============================================================================
