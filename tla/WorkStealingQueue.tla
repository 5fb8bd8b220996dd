-------------------------- MODULE WorkStealingQueue --------------------------
(***************************************************************************)
(* eabase::WorkStealingQueue (src/eabase/fiber/work_stealing_queue.h), the *)
(* run queue of a TaskGroup.  The owner runs push() and pop(), one at a    *)
(* time; any number of thieves run steal() in parallel.  Every access to   *)
(* _bottom, _top or the buffer is a step of its own.                       *)
(*                                                                         *)
(* Memory model.  Accesses separated by the seq_cst fences, and the CASes, *)
(* are sequentially consistent.  The loads of _top that no fence orders    *)
(* (the first load of push, pop and steal) may return a stale value: any   *)
(* value between the last one the worker saw and the current one.          *)
(***************************************************************************)
EXTENDS Naturals

CONSTANTS Owner,      \* the worker that owns the queue
          Thieves,    \* the workers that steal from it
          Values,     \* tasks
          Capacity,   \* argument of init()
          Nothing,    \* answer of an operation that got no task
          MaxBottom   \* bound of the model on _bottom

\* init() refuses a zero capacity and one that is not a power of 2; the mask
\* b & (_capacity - 1) is then b % Capacity.
ASSUME CapacityAssumption == /\ Capacity \in Nat \ {0}
                             /\ \E k \in 0..Capacity : Capacity = 2^k
ASSUME WorkersAssumption == Owner \notin Thieves
ASSUME ValuesAssumption == Nothing \notin Values
ASSUME BoundAssumption == MaxBottom \in Nat \ {0}

Workers == {Owner} \cup Thieves

VARIABLES bottom,   \* _bottom
          top,      \* _top
          buffer,   \* _buffer
          pc,       \* next step of each worker
          t,        \* each worker's local t, kept between calls: the last _top seen
          val,      \* push's x, pop's and steal's *val
          got       \* what the last operation returned

vars == <<bottom, top, buffer, pc, t, val, got>>

Slot(i) == i % Capacity

Init == /\ bottom = 1
        /\ top = 1
        /\ buffer \in [0..(Capacity - 1) -> {Nothing}]
        /\ pc = [w \in Workers |-> "idle"]
        /\ t = [w \in Workers |-> 1]
        /\ val = [w \in Workers |-> Nothing]
        /\ got = [w \in Workers |-> Nothing]

Goto(w, l) == pc' = [pc EXCEPT ![w] = l]
Return(w, r) == Goto(w, "idle") /\ got' = [got EXCEPT ![w] = r]

\* A load of _top that no fence orders.
LoadTop(w) == \E seen \in t[w]..top : t' = [t EXCEPT ![w] = seen]

-----------------------------------------------------------------------------
(* bool push(const T& x) *)

\* Mutant: the full check is off by one.
PushLoad_OffByOne(v) ==
    /\ pc[Owner] = "idle"
    /\ bottom < MaxBottom
    /\ LoadTop(Owner)
    /\ IF bottom > t'[Owner] + Capacity
       THEN Goto(Owner, "idle") /\ UNCHANGED val
       ELSE Goto(Owner, "pushWrite") /\ val' = [val EXCEPT ![Owner] = v]
    /\ UNCHANGED <<bottom, top, buffer, got>>

PushLoad(v) ==
    /\ pc[Owner] = "idle"
    /\ bottom < MaxBottom
    /\ LoadTop(Owner)
    /\ IF bottom >= t'[Owner] + Capacity
       THEN Goto(Owner, "idle") /\ UNCHANGED val
       ELSE Goto(Owner, "pushWrite") /\ val' = [val EXCEPT ![Owner] = v]
    /\ UNCHANGED <<bottom, top, buffer, got>>

PushWrite ==
    /\ pc[Owner] = "pushWrite"
    /\ buffer' = [buffer EXCEPT ![Slot(bottom)] = val[Owner]]
    /\ Goto(Owner, "pushStore")
    /\ UNCHANGED <<bottom, top, t, val, got>>

PushStore ==
    /\ pc[Owner] = "pushStore"
    /\ bottom' = bottom + 1
    /\ Goto(Owner, "idle")
    /\ UNCHANGED <<top, buffer, t, val, got>>

-----------------------------------------------------------------------------
(* bool pop(T* val) *)

\* Mutant: no fast check.
PopLoad_NoFastCheck ==
    /\ pc[Owner] = "idle"
    /\ LoadTop(Owner)
    /\ Goto(Owner, "popDec")
    /\ UNCHANGED <<bottom, top, buffer, val, got>>

\* The fast check.
PopLoad ==
    /\ pc[Owner] = "idle"
    /\ LoadTop(Owner)
    /\ IF t'[Owner] >= bottom
       THEN Return(Owner, Nothing)
       ELSE Goto(Owner, "popDec") /\ UNCHANGED got
    /\ UNCHANGED <<bottom, top, buffer, val>>

\* _bottom.store(newb), then the fence.
PopDec ==
    /\ pc[Owner] = "popDec"
    /\ bottom' = bottom - 1
    /\ Goto(Owner, "popReload")
    /\ UNCHANGED <<top, buffer, t, val, got>>

PopReload ==
    /\ pc[Owner] = "popReload"
    /\ t' = [t EXCEPT ![Owner] = top]
    /\ IF top > bottom
       THEN Goto(Owner, "popRestore") /\ got' = [got EXCEPT ![Owner] = Nothing]
       ELSE Goto(Owner, "popRead") /\ UNCHANGED got
    /\ UNCHANGED <<bottom, top, buffer, val>>

\* Mutant: pop() takes the last task without competing with steal().
PopRead_NoCas ==
    /\ pc[Owner] = "popRead"
    /\ val' = [val EXCEPT ![Owner] = buffer[Slot(bottom)]]
    /\ Return(Owner, val'[Owner])
    /\ UNCHANGED <<bottom, top, buffer, t>>

PopRead ==
    /\ pc[Owner] = "popRead"
    /\ val' = [val EXCEPT ![Owner] = buffer[Slot(bottom)]]
    /\ IF t[Owner] # bottom
       THEN Return(Owner, val'[Owner])
       ELSE Goto(Owner, "popCas") /\ UNCHANGED got
    /\ UNCHANGED <<bottom, top, buffer, t>>

\* The last element: compete with steal().
PopCas ==
    /\ pc[Owner] = "popCas"
    /\ IF top = t[Owner]
       THEN top' = top + 1 /\ got' = [got EXCEPT ![Owner] = val[Owner]]
       ELSE UNCHANGED top /\ got' = [got EXCEPT ![Owner] = Nothing]
    /\ Goto(Owner, "popRestore")
    /\ UNCHANGED <<bottom, buffer, t, val>>

PopRestore ==
    /\ pc[Owner] = "popRestore"
    /\ bottom' = bottom + 1
    /\ Goto(Owner, "idle")
    /\ UNCHANGED <<top, buffer, t, val, got>>

-----------------------------------------------------------------------------
(* bool steal(T* val) *)

StealLoadTop(w) ==
    /\ pc[w] = "idle"
    /\ LoadTop(w)
    /\ Goto(w, "stealCheck")
    /\ UNCHANGED <<bottom, top, buffer, val, got>>

StealCheck(w) ==
    /\ pc[w] = "stealCheck"
    /\ IF t[w] >= bottom
       THEN Return(w, Nothing)
       ELSE Goto(w, "stealLoop") /\ UNCHANGED got
    /\ UNCHANGED <<bottom, top, buffer, t, val>>

\* After the fence.
StealLoop(w) ==
    /\ pc[w] = "stealLoop"
    /\ IF t[w] >= bottom
       THEN Return(w, Nothing)
       ELSE Goto(w, "stealRead") /\ UNCHANGED got
    /\ UNCHANGED <<bottom, top, buffer, t, val>>

StealRead(w) ==
    /\ pc[w] = "stealRead"
    /\ val' = [val EXCEPT ![w] = buffer[Slot(t[w])]]
    /\ Goto(w, "stealCas")
    /\ UNCHANGED <<bottom, top, buffer, t, got>>

\* Mutant: a failed CAS retries with the same t.
StealCas_SameT(w) ==
    /\ pc[w] = "stealCas"
    /\ IF top = t[w]
       THEN top' = top + 1 /\ Return(w, val[w])
       ELSE Goto(w, "stealLoop") /\ UNCHANGED <<top, got>>
    /\ UNCHANGED <<bottom, buffer, t, val>>

\* A failed compare_exchange_strong leaves the current _top in t.
StealCas(w) ==
    /\ pc[w] = "stealCas"
    /\ IF top = t[w]
       THEN top' = top + 1 /\ Return(w, val[w]) /\ UNCHANGED t
       ELSE /\ t' = [t EXCEPT ![w] = top]
            /\ Goto(w, "stealLoop")
            /\ UNCHANGED <<top, got>>
    /\ UNCHANGED <<bottom, buffer, val>>

-----------------------------------------------------------------------------
OwnerStep == PushWrite \/ PushStore \/ PopDec \/ PopReload \/ PopRead
                \/ PopCas \/ PopRestore
ThiefStep(w) == StealCheck(w) \/ StealLoop(w) \/ StealRead(w) \/ StealCas(w)

Next == \/ \E v \in Values : PushLoad(v)
        \/ PopLoad
        \/ OwnerStep
        \/ \E w \in Thieves : StealLoadTop(w) \/ ThiefStep(w)

\* A worker inside a call keeps running; nobody is obliged to start one.
Fairness == WF_vars(OwnerStep) /\ \A w \in Thieves : WF_vars(ThiefStep(w))

Spec == Init /\ [][Next]_vars

FairSpec == Spec /\ Fairness

-----------------------------------------------------------------------------
OwnerLabels == {"idle", "pushWrite", "pushStore", "popDec", "popReload",
                "popRead", "popCas", "popRestore"}
ThiefLabels == {"idle", "stealCheck", "stealLoop", "stealRead", "stealCas"}

\* Types.  _bottom never falls below its initial 1 although pop() decrements it:
\* the fast check keeps an empty queue from being decremented.
TypeOK == /\ bottom \in 1..MaxBottom
          /\ top \in 1..MaxBottom
          /\ buffer \in [0..(Capacity - 1) -> Values \cup {Nothing}]
          /\ pc \in [Workers -> OwnerLabels \cup ThiefLabels]
          /\ pc[Owner] \in OwnerLabels
          /\ \A w \in Thieves : pc[w] \in ThiefLabels
          /\ t \in [Workers -> 1..MaxBottom]
          /\ val \in [Workers -> Values \cup {Nothing}]
          /\ got \in [Workers -> Values \cup {Nothing}]

\* Where the bottom of the queue is as far as the tasks in it are concerned:
\* while pop() holds _bottom decremented, the task at newb is still queued.
Bottom == IF pc[Owner] \in {"popReload", "popRead", "popCas", "popRestore"}
          THEN bottom + 1 ELSE bottom

\* The window [top, Bottom) never inverts and never exceeds the buffer, no
\* matter how pop()'s decrement of _bottom crosses the thieves' CASes.
WindowInv == top <= Bottom /\ Bottom <= top + Capacity

\* A worker never holds a _top from the future.
SeenInv == \A w \in Workers : t[w] <= top

\* What the owner knows at each label of push() and pop(): a push that passed
\* the full check still has room when it writes; a pop that saw more than one
\* task owns the slot at newb whatever the thieves do meanwhile; a pop that
\* lost the race for the last task leaves an empty queue.
OwnerInv ==
    LET l == pc[Owner] IN
    /\ l \in {"pushWrite", "pushStore"} => /\ bottom < top + Capacity
                                           /\ bottom < MaxBottom
                                           /\ val[Owner] \in Values
    /\ l = "pushStore" => buffer[Slot(bottom)] = val[Owner]
    /\ l = "popDec" => t[Owner] < bottom
    /\ l \in {"popReload", "popRead", "popCas", "popRestore"} => bottom < MaxBottom
    /\ l = "popRead" =>
        /\ t[Owner] <= bottom
        /\ t[Owner] < bottom =>
            /\ top <= bottom
            /\ \A w \in Thieves : pc[w] \in {"stealRead", "stealCas"} => t[w] < bottom
    /\ l = "popCas" => t[Owner] = bottom /\ val[Owner] = buffer[Slot(bottom)]
    /\ l = "popRestore" => top = bottom + 1

\* What a thief knows: a thief past the loop check aims at a slot inside the
\* window it saw, and if _top has not moved since, what it read from the
\* buffer is still there when its CAS succeeds (the owner cannot have reused
\* the slot).
ThiefInv ==
    \A w \in Thieves :
        /\ pc[w] \in {"stealRead", "stealCas"} => t[w] < Bottom
        /\ (pc[w] = "stealCas" /\ t[w] = top) => val[w] = buffer[Slot(t[w])]

\* Every queued slot holds a task.
QueuedInv == \A i \in top..(Bottom - 1) : buffer[Slot(i)] \in Values

\* The inductive invariant.
Inv == /\ TypeOK
       /\ WindowInv
       /\ SeenInv
       /\ OwnerInv
       /\ ThiefInv
       /\ QueuedInv

\* The tasks in the queue, from the top to the bottom.
Queued == [i \in 1..(Bottom - top) |-> buffer[Slot(top + i - 1)]]

Deque == INSTANCE TaskDeque WITH deque <- Queued

\* The queue is linearizable to a bounded deque: each task pushed is returned
\* by exactly one pop or steal, pops are LIFO and steals FIFO, and pop says
\* "empty" only of an empty queue.
ImplementsDeque == Deque!Spec

\* Every push, pop and steal that was started returns (a failed CAS makes a
\* steal retry with the _top that beat it, so it retries only while others
\* make progress).
CallsReturn == \A w \in Workers : pc[w] # "idle" ~> pc[w] = "idle"

=============================================================================
