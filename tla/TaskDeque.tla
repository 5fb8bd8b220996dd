------------------------------ MODULE TaskDeque ------------------------------
(***************************************************************************)
(* What a run queue promises (abstract specification).  A deque of tasks:  *)
(* one owner pushes and pops at the bottom, thieves steal from the top, no *)
(* task is lost, invented or handed out twice, and the deque never holds   *)
(* more than Capacity tasks.  Pop may answer "empty" only when the deque   *)
(* IS empty, because TaskGroup::wait_task parks the worker on that answer; *)
(* steal may answer "empty" at any time ("Permit false negative for        *)
(* performance considerations", work_stealing_queue.h:116), and push may   *)
(* answer "full" at any time (the caller retries).                         *)
(***************************************************************************)
EXTENDS Naturals, Sequences

CONSTANTS Owner,     \* the worker that owns the queue
          Thieves,   \* the workers that steal from it
          Values,    \* tasks
          Capacity,  \* capacity of the queue
          Nothing    \* answer of an operation that got no task

VARIABLES deque,     \* <<top, ..., bottom>>
          got        \* what the last operation of each worker returned

dvars == <<deque, got>>

Init == /\ deque = << >>
        /\ got = [w \in {Owner} \cup Thieves |-> Nothing]

Push(v) == /\ Len(deque) < Capacity
           /\ deque' = Append(deque, v)
           /\ UNCHANGED got

PopBottom == /\ deque # << >>
             /\ got' = [got EXCEPT ![Owner] = deque[Len(deque)]]
             /\ deque' = SubSeq(deque, 1, Len(deque) - 1)

PopEmpty == /\ deque = << >>
            /\ got' = [got EXCEPT ![Owner] = Nothing]
            /\ UNCHANGED deque

StealTop(w) == /\ deque # << >>
               /\ got' = [got EXCEPT ![w] = deque[1]]
               /\ deque' = Tail(deque)

StealNone(w) == /\ got' = [got EXCEPT ![w] = Nothing]
                /\ UNCHANGED deque

Next == \/ \E v \in Values : Push(v)
        \/ PopBottom
        \/ PopEmpty
        \/ \E w \in Thieves : StealTop(w) \/ StealNone(w)

Spec == Init /\ [][Next]_dvars
=============================================================================
