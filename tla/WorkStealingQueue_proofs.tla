----------------------- MODULE WorkStealingQueue_proofs -----------------------
(***************************************************************************)
(* Inv is an inductive invariant of the work stealing queue, for every     *)
(* capacity, number of thieves, set of tasks and bound.                    *)
(***************************************************************************)
EXTENDS WorkStealingQueue, SequenceTheorems, TLAPS

\* Two distinct indices less than Capacity apart never share a slot of the
\* circular buffer.
LEMMA SlotInjective ==
  ASSUME NEW i \in Nat, NEW j \in Nat, i < j, j < i + Capacity
  PROVE  Slot(i) # Slot(j)
<1> DEFINE q == i \div Capacity
           r == j \div Capacity
<1>1. Capacity \in Nat /\ Capacity > 0
  BY CapacityAssumption
<1>2. /\ q \in Nat /\ r \in Nat
      /\ i = Capacity * q + (i % Capacity)
      /\ j = Capacity * r + (j % Capacity)
      /\ i % Capacity \in 0..(Capacity - 1)
      /\ j % Capacity \in 0..(Capacity - 1)
  BY <1>1
<1>3. SUFFICES ASSUME i % Capacity = j % Capacity PROVE FALSE
  BY DEF Slot
<1>4. j - i = Capacity * (r - q)
  BY <1>1, <1>2, <1>3
<1> HIDE DEF q, r
<1>5. r - q > 0
  BY <1>1, <1>2, <1>4
<1>6. Capacity * (r - q) >= Capacity
  BY <1>1, <1>2, <1>5
<1> QED
  BY <1>1, <1>2, <1>4, <1>6

\* A slot is an index of the buffer.
LEMMA SlotType ==
  ASSUME NEW i \in Nat
  PROVE  Slot(i) \in 0..(Capacity - 1)
BY CapacityAssumption DEF Slot


\* What the steps below use of the constants.
LEMMA Constants ==
  /\ Capacity \in Nat /\ Capacity > 0
  /\ MaxBottom \in Nat /\ MaxBottom > 0
  /\ Owner \in Workers
  /\ \A w \in Thieves : w \in Workers /\ w # Owner
BY CapacityAssumption, BoundAssumption, WorkersAssumption DEF Workers

\* The queue starts empty, in a state that satisfies the invariant.
LEMMA InitInv == Init => Inv
BY Constants
   DEF Init, Inv, TypeOK, WindowInv, SeenInv, OwnerInv, ThiefInv, QueuedInv,
       Bottom, OwnerLabels, ThiefLabels

\* Every step of push, pop and steal preserves the invariant.
LEMMA NextInv == Inv /\ [Next]_vars => Inv'
<1> SUFFICES ASSUME Inv, [Next]_vars PROVE Inv'
  OBVIOUS
<1> USE Constants DEF Inv
<1>0. Bottom \in 1..MaxBottom
  BY DEF TypeOK, OwnerInv, Bottom
<1>1. ASSUME NEW v \in Values, PushLoad(v) PROVE Inv'
  <2>0. /\ bottom' = bottom
        /\ top' = top
        /\ buffer' = buffer
        /\ Bottom' = Bottom
        /\ bottom < MaxBottom
        /\ t'[Owner] \in t[Owner]..top
        /\ pc'[Owner] = "idle" \/ (pc'[Owner] = "pushWrite" /\ bottom < t'[Owner] + Capacity /\ val'[Owner] = v)
        /\ \A u \in Thieves : pc'[u] = pc[u] /\ t'[u] = t[u] /\ val'[u] = val[u]
    BY <1>1 DEF PushLoad, Goto, Return, LoadTop, TypeOK, Bottom
  <2>1. TypeOK'
    BY <1>0, <2>0, <1>1 DEF TypeOK, OwnerLabels, ThiefLabels, PushLoad, Goto, Return, LoadTop
  <2>2. WindowInv'
    BY <1>0, <2>0 DEF TypeOK, WindowInv, OwnerInv
  <2>3. SeenInv'
    BY <1>0, <2>0 DEF TypeOK, SeenInv, Workers
  <2>4. OwnerInv'
    BY <1>0, <2>0 DEF TypeOK, OwnerInv, WindowInv, SeenInv
  <2>5. ThiefInv'
    BY <1>0, <2>0 DEF TypeOK, ThiefInv, WindowInv
  <2>6. QueuedInv'
    BY <1>0, <2>0 DEF TypeOK, QueuedInv, WindowInv
  <2> QED
    BY <2>1, <2>2, <2>3, <2>4, <2>5, <2>6
<1>2. CASE PopLoad
  <2>0. /\ bottom' = bottom
        /\ top' = top
        /\ buffer' = buffer
        /\ Bottom' = Bottom
        /\ t'[Owner] \in t[Owner]..top
        /\ pc'[Owner] = "idle" \/ (pc'[Owner] = "popDec" /\ t'[Owner] < bottom)
        /\ \A u \in Thieves : pc'[u] = pc[u] /\ t'[u] = t[u] /\ val'[u] = val[u]
    BY <1>2 DEF PopLoad, Goto, Return, LoadTop, TypeOK, Bottom
  <2>1. TypeOK'
    <3>1. t' \in [Workers -> 1..MaxBottom]
      BY <1>2, <2>0 DEF TypeOK, PopLoad, LoadTop
    <3>2. pc' \in [Workers -> OwnerLabels \cup ThiefLabels]
      BY <1>2 DEF TypeOK, PopLoad, Return, Goto, OwnerLabels
    <3>3. got' \in [Workers -> Values \cup {Nothing}]
      BY <1>2 DEF TypeOK, PopLoad, Return
    <3> QED
      BY <1>2, <2>0, <3>1, <3>2, <3>3 DEF TypeOK, PopLoad, OwnerLabels
  <2>2. WindowInv'
    BY <1>0, <2>0 DEF TypeOK, WindowInv, OwnerInv
  <2>3. SeenInv'
    BY <1>0, <2>0 DEF TypeOK, SeenInv, Workers
  <2>4. OwnerInv'
    BY <1>0, <2>0 DEF TypeOK, OwnerInv, WindowInv, SeenInv
  <2>5. ThiefInv'
    BY <1>0, <2>0 DEF TypeOK, ThiefInv, WindowInv
  <2>6. QueuedInv'
    BY <1>0, <2>0 DEF TypeOK, QueuedInv, WindowInv
  <2> QED
    BY <2>1, <2>2, <2>3, <2>4, <2>5, <2>6
<1>3. CASE PushWrite
  <2>0. /\ pc[Owner] = "pushWrite" /\ pc'[Owner] = "pushStore"
        /\ bottom' = bottom
        /\ top' = top
        /\ Bottom = bottom /\ Bottom' = bottom
        /\ t'[Owner] = t[Owner] /\ val'[Owner] = val[Owner]
        /\ buffer' = [buffer EXCEPT ![Slot(bottom)] = val[Owner]]
        /\ \A u \in Thieves : pc'[u] = pc[u] /\ t'[u] = t[u] /\ val'[u] = val[u]
    BY <1>3 DEF PushWrite, Goto, Return, LoadTop, TypeOK, Bottom
  <2>1. TypeOK'
    BY <1>0, <2>0, <1>3, SlotType DEF TypeOK, OwnerLabels, ThiefLabels, PushWrite, Goto, Return,
         LoadTop
  <2>2. WindowInv'
    BY <1>0, <2>0 DEF TypeOK, WindowInv, OwnerInv
  <2>3. SeenInv'
    BY <1>0, <2>0 DEF TypeOK, SeenInv, Workers
  <2>4. OwnerInv'
    BY <1>0, <2>0, SlotType DEF TypeOK, OwnerInv, WindowInv, SeenInv
  <2>5. ThiefInv'
    <3> SUFFICES ASSUME NEW u \in Thieves, pc[u] = "stealCas", t[u] = top
                 PROVE  val[u] = buffer'[Slot(top)]
      BY <2>0 DEF ThiefInv, TypeOK
    <3>1. top < bottom /\ bottom < top + Capacity
      BY <2>0 DEF ThiefInv, OwnerInv
    <3>2. Slot(top) # Slot(bottom)
      BY <3>1, SlotInjective DEF TypeOK
    <3> QED
      BY <2>0, <3>2, SlotType DEF ThiefInv, TypeOK
  <2>6. QueuedInv'
    <3> SUFFICES ASSUME NEW i \in top..(bottom - 1) PROVE buffer'[Slot(i)] \in Values
      BY <2>0 DEF QueuedInv
    <3>1. i \in Nat /\ bottom \in Nat /\ i < bottom /\ bottom < i + Capacity
      BY <2>0 DEF TypeOK, OwnerInv
    <3>2. Slot(i) # Slot(bottom)
      BY <3>1, SlotInjective
    <3> QED
      BY <2>0, <3>1, <3>2, SlotType DEF QueuedInv, TypeOK
  <2> QED
    BY <2>1, <2>2, <2>3, <2>4, <2>5, <2>6
<1>4. CASE PushStore
  <2>0. /\ pc[Owner] = "pushStore" /\ pc'[Owner] = "idle"
        /\ bottom' = bottom + 1
        /\ top' = top
        /\ buffer' = buffer
        /\ Bottom = bottom /\ Bottom' = bottom + 1
        /\ t'[Owner] = t[Owner]
        /\ \A u \in Thieves : pc'[u] = pc[u] /\ t'[u] = t[u] /\ val'[u] = val[u]
    BY <1>4 DEF PushStore, Goto, Return, LoadTop, TypeOK, Bottom
  <2>1. TypeOK'
    BY <1>0, <2>0, <1>4 DEF TypeOK, OwnerLabels, ThiefLabels, PushStore, Goto, Return, LoadTop,
         OwnerInv
  <2>2. WindowInv'
    BY <1>0, <2>0 DEF TypeOK, WindowInv, OwnerInv, OwnerInv
  <2>3. SeenInv'
    BY <1>0, <2>0 DEF TypeOK, SeenInv, Workers
  <2>4. OwnerInv'
    BY <1>0, <2>0 DEF TypeOK, OwnerInv, WindowInv, SeenInv
  <2>5. ThiefInv'
    BY <1>0, <2>0 DEF TypeOK, ThiefInv, WindowInv
  <2>6. QueuedInv'
    BY <1>0, <2>0 DEF TypeOK, QueuedInv, WindowInv, OwnerInv
  <2> QED
    BY <2>1, <2>2, <2>3, <2>4, <2>5, <2>6
<1>5. CASE PopDec
  <2>0. /\ pc[Owner] = "popDec" /\ pc'[Owner] = "popReload"
        /\ bottom' = bottom - 1
        /\ top' = top
        /\ buffer' = buffer
        /\ Bottom = bottom /\ Bottom' = bottom
        /\ t'[Owner] = t[Owner]
        /\ \A u \in Thieves : pc'[u] = pc[u] /\ t'[u] = t[u] /\ val'[u] = val[u]
    BY <1>5 DEF PopDec, Goto, Return, LoadTop, TypeOK, Bottom
  <2>1. TypeOK'
    BY <1>0, <2>0, <1>5 DEF TypeOK, OwnerLabels, ThiefLabels, PopDec, Goto, Return, LoadTop,
         OwnerInv
  <2>2. WindowInv'
    BY <1>0, <2>0 DEF TypeOK, WindowInv, OwnerInv
  <2>3. SeenInv'
    BY <1>0, <2>0 DEF TypeOK, SeenInv, Workers
  <2>4. OwnerInv'
    BY <1>0, <2>0 DEF TypeOK, OwnerInv, WindowInv, SeenInv
  <2>5. ThiefInv'
    BY <1>0, <2>0 DEF TypeOK, ThiefInv, WindowInv
  <2>6. QueuedInv'
    BY <1>0, <2>0 DEF TypeOK, QueuedInv, WindowInv
  <2> QED
    BY <2>1, <2>2, <2>3, <2>4, <2>5, <2>6
<1>6. CASE PopReload
  <2>0. /\ bottom' = bottom
        /\ top' = top
        /\ buffer' = buffer
        /\ pc[Owner] = "popReload"
        /\ t'[Owner] = top
        /\ Bottom = bottom + 1 /\ Bottom' = bottom + 1
        /\ (pc'[Owner] = "popRestore" /\ top > bottom) \/ (pc'[Owner] = "popRead" /\ top <= bottom)
        /\ \A u \in Thieves : pc'[u] = pc[u] /\ t'[u] = t[u] /\ val'[u] = val[u]
    <3>1. bottom \in Nat /\ top \in Nat
      BY DEF TypeOK
    <3>2. /\ pc[Owner] = "popReload"
          /\ pc' = [pc EXCEPT ![Owner] = IF top > bottom THEN "popRestore" ELSE "popRead"]
          /\ t' = [t EXCEPT ![Owner] = top]
          /\ UNCHANGED <<bottom, top, buffer, val>>
      BY <1>6, Zenon DEF PopReload, Goto
    <3>3. pc'[Owner] = IF top > bottom THEN "popRestore" ELSE "popRead"
      BY <3>2 DEF TypeOK
    <3>4. Bottom = bottom + 1 /\ Bottom' = bottom' + 1
      BY <3>2, <3>3 DEF Bottom
    <3>5. /\ t'[Owner] = top
          /\ \A u \in Thieves : pc'[u] = pc[u] /\ t'[u] = t[u] /\ val'[u] = val[u]
      BY <3>2 DEF TypeOK
    <3>6. (pc'[Owner] = "popRestore" /\ top > bottom) \/ (pc'[Owner] = "popRead" /\ top <= bottom)
      BY <3>1, <3>3
    <3> QED
      BY <3>2, <3>4, <3>5, <3>6
  <2>1. TypeOK'
    BY <1>0, <2>0, <1>6 DEF TypeOK, OwnerLabels, ThiefLabels, PopReload, Goto, Return, LoadTop
  <2>2. WindowInv'
    BY <1>0, <2>0 DEF TypeOK, WindowInv, OwnerInv
  <2>3. SeenInv'
    BY <1>0, <2>0 DEF TypeOK, SeenInv, Workers
  <2>4. OwnerInv'
    BY <1>0, <2>0 DEF TypeOK, OwnerInv, WindowInv, SeenInv, ThiefInv
  <2>5. ThiefInv'
    BY <1>0, <2>0 DEF TypeOK, ThiefInv, WindowInv
  <2>6. QueuedInv'
    BY <1>0, <2>0 DEF TypeOK, QueuedInv, WindowInv
  <2> QED
    BY <2>1, <2>2, <2>3, <2>4, <2>5, <2>6
<1>7. CASE PopRead
  <2>0. /\ bottom' = bottom
        /\ top' = top
        /\ buffer' = buffer
        /\ pc[Owner] = "popRead"
        /\ Bottom = bottom + 1
        /\ t'[Owner] = t[Owner]
        /\ val'[Owner] = buffer[Slot(bottom)]
        /\ \/ pc'[Owner] = "idle" /\ t[Owner] # bottom /\ Bottom' = bottom
           \/ pc'[Owner] = "popCas" /\ t[Owner] = bottom /\ Bottom' = bottom + 1
        /\ \A u \in Thieves : pc'[u] = pc[u] /\ t'[u] = t[u] /\ val'[u] = val[u]
    BY <1>7 DEF PopRead, Goto, Return, LoadTop, TypeOK, Bottom
  <2>1. TypeOK'
    <3>0. bottom \in Nat
      BY DEF TypeOK
    <3>1. buffer[Slot(bottom)] \in Values \cup {Nothing}
      BY <3>0, SlotType DEF TypeOK
    <3>2. val' \in [Workers -> Values \cup {Nothing}]
      BY <1>7, <3>1 DEF TypeOK, PopRead
    <3>3. got' \in [Workers -> Values \cup {Nothing}]
      BY <1>7, <2>0, <3>1 DEF TypeOK, PopRead, Return
    <3>4. pc' \in [Workers -> OwnerLabels \cup ThiefLabels]
      BY <1>7 DEF TypeOK, PopRead, Return, Goto, OwnerLabels
    <3> QED
      BY <1>7, <2>0, <3>2, <3>3, <3>4 DEF TypeOK, PopRead, OwnerLabels
  <2>2. WindowInv'
    BY <1>0, <2>0 DEF TypeOK, WindowInv, OwnerInv
  <2>3. SeenInv'
    BY <1>0, <2>0 DEF TypeOK, SeenInv, Workers
  <2>4. OwnerInv'
    BY <1>0, <2>0 DEF TypeOK, OwnerInv, WindowInv, SeenInv
  <2>5. ThiefInv'
    BY <1>0, <2>0 DEF TypeOK, ThiefInv, WindowInv, OwnerInv
  <2>6. QueuedInv'
    BY <1>0, <2>0 DEF TypeOK, QueuedInv, WindowInv, OwnerInv
  <2> QED
    BY <2>1, <2>2, <2>3, <2>4, <2>5, <2>6
<1>8. CASE PopCas
  <2>0. /\ pc[Owner] = "popCas" /\ pc'[Owner] = "popRestore"
        /\ bottom' = bottom
        /\ buffer' = buffer
        /\ Bottom = bottom + 1 /\ Bottom' = bottom + 1
        /\ t'[Owner] = t[Owner]
        /\ top' \in {top, top + 1} /\ (top = t[Owner] => top' = top + 1) /\ (top # t[Owner] => top' = top)
        /\ \A u \in Thieves : pc'[u] = pc[u] /\ t'[u] = t[u] /\ val'[u] = val[u]
    BY <1>8 DEF PopCas, Goto, Return, LoadTop, TypeOK, Bottom
  <2>1. TypeOK'
    BY <1>0, <2>0, <1>8 DEF TypeOK, OwnerLabels, ThiefLabels, PopCas, Goto, Return, LoadTop,
         OwnerInv
  <2>2. WindowInv'
    BY <1>0, <2>0 DEF TypeOK, WindowInv, OwnerInv
  <2>3. SeenInv'
    BY <1>0, <2>0 DEF TypeOK, SeenInv, Workers
  <2>4. OwnerInv'
    BY <1>0, <2>0 DEF TypeOK, OwnerInv, WindowInv, SeenInv
  <2>5. ThiefInv'
    BY <1>0, <2>0 DEF TypeOK, ThiefInv, WindowInv, OwnerInv, SeenInv
  <2>6. QueuedInv'
    BY <1>0, <2>0 DEF TypeOK, QueuedInv, WindowInv
  <2> QED
    BY <2>1, <2>2, <2>3, <2>4, <2>5, <2>6
<1>9. CASE PopRestore
  <2>0. /\ pc[Owner] = "popRestore" /\ pc'[Owner] = "idle"
        /\ bottom' = bottom + 1
        /\ top' = top
        /\ buffer' = buffer
        /\ Bottom = bottom + 1 /\ Bottom' = bottom + 1
        /\ t'[Owner] = t[Owner]
        /\ \A u \in Thieves : pc'[u] = pc[u] /\ t'[u] = t[u] /\ val'[u] = val[u]
    BY <1>9 DEF PopRestore, Goto, Return, LoadTop, TypeOK, Bottom
  <2>1. TypeOK'
    BY <1>0, <2>0, <1>9 DEF TypeOK, OwnerLabels, ThiefLabels, PopRestore, Goto, Return, LoadTop,
         OwnerInv
  <2>2. WindowInv'
    BY <1>0, <2>0 DEF TypeOK, WindowInv, OwnerInv
  <2>3. SeenInv'
    BY <1>0, <2>0 DEF TypeOK, SeenInv, Workers
  <2>4. OwnerInv'
    BY <1>0, <2>0 DEF TypeOK, OwnerInv, WindowInv, SeenInv
  <2>5. ThiefInv'
    BY <1>0, <2>0 DEF TypeOK, ThiefInv, WindowInv
  <2>6. QueuedInv'
    BY <1>0, <2>0 DEF TypeOK, QueuedInv, WindowInv
  <2> QED
    BY <2>1, <2>2, <2>3, <2>4, <2>5, <2>6
<1>10. ASSUME NEW w \in Thieves, StealLoadTop(w) PROVE Inv'
  <2>0. /\ bottom' = bottom
        /\ top' = top
        /\ buffer' = buffer
        /\ Bottom' = Bottom
        /\ t'[w] \in t[w]..top
        /\ pc'[w] = "stealCheck"
        /\ \A u \in Workers : u # w => pc'[u] = pc[u] /\ t'[u] = t[u] /\ val'[u] = val[u]
    BY <1>10 DEF StealLoadTop, Goto, Return, LoadTop, TypeOK, Bottom
  <2>1. TypeOK'
    BY <1>0, <2>0, <1>10 DEF TypeOK, OwnerLabels, ThiefLabels, StealLoadTop, Goto, Return, LoadTop
  <2>2. WindowInv'
    BY <1>0, <2>0 DEF TypeOK, WindowInv, OwnerInv
  <2>3. SeenInv'
    BY <1>0, <2>0 DEF TypeOK, SeenInv, Workers
  <2>4. OwnerInv'
    BY <1>0, <2>0 DEF TypeOK, OwnerInv, WindowInv, SeenInv
  <2>5. ThiefInv'
    BY <1>0, <2>0 DEF TypeOK, ThiefInv, WindowInv
  <2>6. QueuedInv'
    BY <1>0, <2>0 DEF TypeOK, QueuedInv, WindowInv
  <2> QED
    BY <2>1, <2>2, <2>3, <2>4, <2>5, <2>6
<1>11. ASSUME NEW w \in Thieves, StealCheck(w) PROVE Inv'
  <2>0. /\ bottom' = bottom
        /\ top' = top
        /\ buffer' = buffer
        /\ Bottom' = Bottom
        /\ t'[w] = t[w]
        /\ pc'[w] \in {"idle", "stealLoop"}
        /\ \A u \in Workers : u # w => pc'[u] = pc[u] /\ t'[u] = t[u] /\ val'[u] = val[u]
    BY <1>11 DEF StealCheck, Goto, Return, LoadTop, TypeOK, Bottom
  <2>1. TypeOK'
    BY <1>0, <2>0, <1>11 DEF TypeOK, OwnerLabels, ThiefLabels, StealCheck, Goto, Return, LoadTop
  <2>2. WindowInv'
    BY <1>0, <2>0 DEF TypeOK, WindowInv, OwnerInv
  <2>3. SeenInv'
    BY <1>0, <2>0 DEF TypeOK, SeenInv, Workers
  <2>4. OwnerInv'
    BY <1>0, <2>0 DEF TypeOK, OwnerInv, WindowInv, SeenInv
  <2>5. ThiefInv'
    BY <1>0, <2>0 DEF TypeOK, ThiefInv, WindowInv
  <2>6. QueuedInv'
    BY <1>0, <2>0 DEF TypeOK, QueuedInv, WindowInv
  <2> QED
    BY <2>1, <2>2, <2>3, <2>4, <2>5, <2>6
<1>12. ASSUME NEW w \in Thieves, StealLoop(w) PROVE Inv'
  <2>0. /\ bottom' = bottom
        /\ top' = top
        /\ buffer' = buffer
        /\ Bottom' = Bottom
        /\ t'[w] = t[w]
        /\ bottom <= Bottom
        /\ pc'[w] = "idle" \/ (pc'[w] = "stealRead" /\ t[w] < bottom)
        /\ \A u \in Workers : u # w => pc'[u] = pc[u] /\ t'[u] = t[u] /\ val'[u] = val[u]
    BY <1>12 DEF StealLoop, Goto, Return, LoadTop, TypeOK, Bottom
  <2>1. TypeOK'
    BY <1>0, <2>0, <1>12 DEF TypeOK, OwnerLabels, ThiefLabels, StealLoop, Goto, Return, LoadTop
  <2>2. WindowInv'
    BY <1>0, <2>0 DEF TypeOK, WindowInv, OwnerInv
  <2>3. SeenInv'
    BY <1>0, <2>0 DEF TypeOK, SeenInv, Workers
  <2>4. OwnerInv'
    BY <1>0, <2>0 DEF TypeOK, OwnerInv, WindowInv, SeenInv
  <2>5. ThiefInv'
    <3> SUFFICES ASSUME NEW u \in Thieves
                 PROVE  /\ pc'[u] \in {"stealRead", "stealCas"} => t'[u] < Bottom'
                        /\ (pc'[u] = "stealCas" /\ t'[u] = top') => val'[u] = buffer'[Slot(t'[u])]
      BY DEF ThiefInv
    <3>1. CASE u = w
      BY <1>0, <2>0, <3>1 DEF TypeOK
    <3>2. CASE u # w
      BY <2>0, <3>2 DEF ThiefInv
    <3> QED
      BY <3>1, <3>2
  <2>6. QueuedInv'
    BY <1>0, <2>0 DEF TypeOK, QueuedInv, WindowInv
  <2> QED
    BY <2>1, <2>2, <2>3, <2>4, <2>5, <2>6
<1>13. ASSUME NEW w \in Thieves, StealRead(w) PROVE Inv'
  <2>0. /\ bottom' = bottom
        /\ top' = top
        /\ buffer' = buffer
        /\ Bottom' = Bottom
        /\ t'[w] = t[w]
        /\ pc[w] = "stealRead" /\ pc'[w] = "stealCas"
        /\ val'[w] = buffer[Slot(t[w])]
        /\ \A u \in Workers : u # w => pc'[u] = pc[u] /\ t'[u] = t[u] /\ val'[u] = val[u]
    BY <1>13 DEF StealRead, Goto, Return, LoadTop, TypeOK, Bottom
  <2>1. TypeOK'
    <3>0. t[w] \in Nat
      BY DEF TypeOK
    <3>1. buffer[Slot(t[w])] \in Values \cup {Nothing}
      BY <3>0, SlotType DEF TypeOK
    <3>2. val' \in [Workers -> Values \cup {Nothing}]
      BY <1>13, <3>1 DEF TypeOK, StealRead
    <3> QED
      BY <1>13, <2>0, <3>2 DEF TypeOK, StealRead, Goto, ThiefLabels
  <2>2. WindowInv'
    BY <1>0, <2>0 DEF TypeOK, WindowInv, OwnerInv
  <2>3. SeenInv'
    BY <1>0, <2>0 DEF TypeOK, SeenInv, Workers
  <2>4. OwnerInv'
    BY <1>0, <2>0 DEF TypeOK, OwnerInv, WindowInv, SeenInv
  <2>5. ThiefInv'
    BY <1>0, <2>0 DEF TypeOK, ThiefInv, WindowInv
  <2>6. QueuedInv'
    BY <1>0, <2>0 DEF TypeOK, QueuedInv, WindowInv
  <2> QED
    BY <2>1, <2>2, <2>3, <2>4, <2>5, <2>6
<1>14. ASSUME NEW w \in Thieves, StealCas(w) PROVE Inv'
  <2>0. /\ bottom' = bottom
        /\ buffer' = buffer
        /\ pc[w] = "stealCas"
        /\ val'[w] = val[w]
        /\ Bottom' = Bottom
        /\ \/ top = t[w] /\ top' = top + 1 /\ pc'[w] = "idle" /\ t'[w] = t[w]
           \/ top # t[w] /\ top' = top /\ pc'[w] = "stealLoop" /\ t'[w] = top
        /\ \A u \in Workers : u # w => pc'[u] = pc[u] /\ t'[u] = t[u] /\ val'[u] = val[u]
    BY <1>14 DEF StealCas, Goto, Return, LoadTop, TypeOK, Bottom
  <2>1. TypeOK'
    <3>1. top' \in 1..MaxBottom
      BY <1>0, <2>0 DEF TypeOK, ThiefInv
    <3>2. t' \in [Workers -> 1..MaxBottom]
      BY <1>14 DEF TypeOK, StealCas
    <3>3. pc' \in [Workers -> OwnerLabels \cup ThiefLabels]
      BY <1>14 DEF TypeOK, StealCas, Return, Goto, ThiefLabels
    <3>4. got' \in [Workers -> Values \cup {Nothing}]
      BY <1>14 DEF TypeOK, StealCas, Return
    <3> QED
      BY <1>14, <2>0, <3>1, <3>2, <3>3, <3>4 DEF TypeOK, StealCas, ThiefLabels
  <2>2. WindowInv'
    BY <1>0, <2>0 DEF TypeOK, WindowInv, OwnerInv, ThiefInv
  <2>3. SeenInv'
    BY <1>0, <2>0 DEF TypeOK, SeenInv, Workers
  <2>4. OwnerInv'
    <3>1. CASE top # t[w]
      BY <2>0, <3>1 DEF OwnerInv, TypeOK
    <3>2. CASE top = t[w]
      <4>1. top' = top + 1 /\ pc'[w] = "idle" /\ t'[w] = t[w]
        BY <2>0, <3>2
      <4>2. pc[Owner] # "popRestore"
        BY <2>0, <3>2 DEF OwnerInv, ThiefInv, TypeOK, Bottom
      <4>3. (pc[Owner] = "popRead" /\ t[Owner] < bottom) => top < bottom
        BY <2>0, <3>2 DEF OwnerInv
      <4>4. pc'[Owner] = pc[Owner] /\ t'[Owner] = t[Owner] /\ val'[Owner] = val[Owner]
        BY <2>0
      <4>5. \A u \in Thieves : pc'[u] \in {"stealRead", "stealCas"} => pc[u] = pc'[u] /\ t'[u] = t[u]
        BY <2>0, <4>1
      <4> QED
        BY <2>0, <4>1, <4>2, <4>3, <4>4, <4>5 DEF OwnerInv, TypeOK
    <3> QED
      BY <3>1, <3>2
  <2>5. ThiefInv'
    BY <1>0, <2>0 DEF TypeOK, ThiefInv, WindowInv, SeenInv
  <2>6. QueuedInv'
    BY <1>0, <2>0 DEF TypeOK, QueuedInv, WindowInv, ThiefInv
  <2> QED
    BY <2>1, <2>2, <2>3, <2>4, <2>5, <2>6
<1>15. CASE UNCHANGED vars
  BY <1>15 DEF vars, TypeOK, WindowInv, SeenInv, OwnerInv, ThiefInv, QueuedInv, Bottom
<1> QED
  BY <1>1, <1>2, <1>3, <1>4, <1>5, <1>6, <1>7, <1>8, <1>9, <1>10, <1>11, <1>12, <1>13, <1>14,
       <1>15 DEF Next, OwnerStep, ThiefStep

\* The window of queued tasks, what the owner knows inside push and pop and what
\* a thief knows inside steal hold in every reachable state.
THEOREM InvCorrect == Spec => []Inv
<1>1. Init => Inv
  BY InitInv
<1>2. Inv /\ [Next]_vars => Inv'
  BY NextInv
<1> QED
  BY <1>1, <1>2, PTL DEF Spec

\* Types: in particular _bottom never underflows.
THEOREM TypeCorrect == Spec => []TypeOK
<1>1. Inv => TypeOK
  BY DEF Inv
<1> QED
  BY <1>1, InvCorrect, PTL

\* The refinement mapping yields a sequence of tasks.
LEMMA QueuedSeq ==
  Inv => /\ Bottom - top \in Nat
         /\ Queued \in Seq(Values)
         /\ Len(Queued) = Bottom - top
         /\ \A i \in 1..(Bottom - top) : Queued[i] = buffer[Slot(top + i - 1)]
<1> SUFFICES ASSUME Inv
             PROVE  /\ Bottom - top \in Nat
                    /\ Queued \in Seq(Values)
                    /\ Len(Queued) = Bottom - top
                    /\ \A i \in 1..(Bottom - top) : Queued[i] = buffer[Slot(top + i - 1)]
  OBVIOUS
<1>1. Bottom \in Nat /\ top \in Nat /\ top <= Bottom
  BY DEF Inv, TypeOK, WindowInv, Bottom
<1>2. Bottom - top \in Nat
  BY <1>1
<1>3. \A i \in 1..(Bottom - top) : buffer[Slot(top + i - 1)] \in Values
  BY <1>1 DEF Inv, QueuedInv
<1> QED
  BY <1>2, <1>3 DEF Queued

\* A step that moves neither end of the window and leaves the queued slots alone
\* does not change the deque.
LEMMA QueuedSame ==
  ASSUME Inv, top' = top, Bottom' = Bottom,
         \A i \in top..(Bottom - 1) : buffer'[Slot(i)] = buffer[Slot(i)]
  PROVE  Queued' = Queued
<1>1. Bottom \in Nat /\ top \in Nat
  BY DEF Inv, TypeOK, Bottom
<1>2. \A i \in 1..(Bottom - top) : top + i - 1 \in top..(Bottom - 1)
  BY <1>1
<1>3. Queued' = [i \in 1..(Bottom - top) |-> buffer'[Slot(top + i - 1)]]
  BY DEF Queued
<1> QED
  BY <1>2, <1>3 DEF Queued

\* The queue starts as the empty deque.
LEMMA InitRefines == Init => Deque!Init
<1> SUFFICES ASSUME Init PROVE Deque!Init
  OBVIOUS
<1>1. top = 1 /\ Bottom = 1
  BY Constants DEF Init, Bottom
<1>2. Queued = << >>
  BY <1>1 DEF Queued
<1> QED
  BY <1>2 DEF Init, Workers, Deque!Init

\* Every step of push, pop and steal is a step of the deque or leaves it alone:
\* push takes effect at the store of _bottom, steal at its successful CAS, pop
\* where it reads the task (more than one queued) or at its CAS (the last one).
LEMMA NextRefines == Inv /\ Inv' /\ [Next]_vars => [Deque!Next]_(Deque!dvars)
<1> SUFFICES ASSUME Inv, Inv', [Next]_vars PROVE [Deque!Next]_(Deque!dvars)
  OBVIOUS
<1> USE Constants
<1>0. /\ Bottom \in Nat /\ top \in Nat /\ bottom \in Nat /\ top <= Bottom
      /\ got \in [Workers -> Values \cup {Nothing}]
  BY DEF Inv, TypeOK, WindowInv, Bottom
<1>q. /\ Queued' \in Seq(Values)
      /\ Len(Queued') = Bottom' - top'
      /\ \A i \in 1..(Bottom' - top') : Queued'[i] = buffer'[Slot(top' + i - 1)]
  <2>1. Inv' => (/\ Bottom - top \in Nat
                 /\ Queued \in Seq(Values)
                 /\ Len(Queued) = Bottom - top
                 /\ \A i \in 1..(Bottom - top) : Queued[i] = buffer[Slot(top + i - 1)])'
    BY QueuedSeq, PTL
  <2> QED
    BY <2>1
<1>a. ASSUME top' = top, Bottom' = Bottom, buffer' = buffer PROVE Queued' = Queued
  BY <1>a, QueuedSame
<1>1. ASSUME NEW v \in Values, PushLoad(v) PROVE UNCHANGED <<Queued, got>>
  <2>1. Bottom' = Bottom
    BY <1>1 DEF PushLoad, Goto, Bottom, Inv, TypeOK
  <2> QED
    BY <1>1, <1>a, <2>1 DEF PushLoad
<1>2. CASE PopLoad
  <2>1. Bottom' = Bottom
    BY <1>2 DEF PopLoad, Goto, Return, Bottom, Inv, TypeOK
  <2>2. Queued' = Queued
    BY <1>2, <1>a, <2>1 DEF PopLoad
  <2>3. CASE t'[Owner] >= bottom
    <3>1. t'[Owner] \in Nat /\ t'[Owner] <= top
      BY <1>2, Constants DEF Inv, TypeOK, SeenInv, PopLoad
    <3>2. Bottom = top
      BY <1>0, <1>2, <2>3, <3>1 DEF Bottom, PopLoad
    <3>3. Queued = << >>
      BY <1>0, <3>2, QueuedSeq
    <3>4. got' = [got EXCEPT ![Owner] = Nothing]
      BY <1>2, <2>3 DEF PopLoad, Return
    <3> QED
      BY <2>2, <3>3, <3>4 DEF Deque!Next, Deque!PopEmpty
  <2>4. CASE ~(t'[Owner] >= bottom)
    BY <1>2, <2>2, <2>4 DEF PopLoad, Deque!dvars
  <2> QED
    BY <2>3, <2>4
<1>3. CASE PushWrite
  <2>1. Bottom' = Bottom /\ Bottom = bottom /\ top' = top /\ bottom < top + Capacity
    BY <1>3 DEF PushWrite, Goto, Bottom, Inv, TypeOK, OwnerInv
  <2>2. ASSUME NEW i \in top..(Bottom - 1) PROVE buffer'[Slot(i)] = buffer[Slot(i)]
    <3>1. i \in Nat /\ i < bottom /\ bottom < i + Capacity
      BY <1>0, <2>1
    <3>2. Slot(i) # Slot(bottom)
      BY <1>0, <3>1, SlotInjective
    <3> QED
      BY <1>0, <1>3, <3>1, <3>2, SlotType DEF PushWrite, Inv, TypeOK
  <2>3. Queued' = Queued
    BY <2>1, <2>2, QueuedSame
  <2> QED
    BY <1>3, <2>3 DEF PushWrite, Deque!dvars
<1>4. CASE PushStore
  <2>1. Bottom' = bottom + 1 /\ Bottom = bottom /\ top' = top /\ buffer' = buffer /\ got' = got
    BY <1>4 DEF PushStore, Goto, Bottom, Inv, TypeOK
  <2>2. /\ val[Owner] \in Values
        /\ buffer[Slot(bottom)] = val[Owner]
        /\ bottom < top + Capacity
    BY <1>4 DEF PushStore, Inv, OwnerInv
  <2>3. Len(Queued) < Capacity
    BY <1>0, <2>1, <2>2, QueuedSeq
  <2>4. /\ Append(Queued, val[Owner]) \in Seq(Values)
        /\ Len(Append(Queued, val[Owner])) = bottom - top + 1
        /\ \A i \in 1..(bottom - top) : Append(Queued, val[Owner])[i] = Queued[i]
        /\ Append(Queued, val[Owner])[bottom - top + 1] = val[Owner]
    BY <1>0, <2>1, <2>2, QueuedSeq, AppendProperties
  <2>5. Len(Queued') = bottom - top + 1
    BY <1>0, <1>q, <2>1
  <2>6. ASSUME NEW i \in 1..(bottom - top + 1)
        PROVE  Queued'[i] = Append(Queued, val[Owner])[i]
    <3>1. Queued'[i] = buffer[Slot(top + i - 1)]
      BY <1>0, <1>q, <2>1
    <3>2. CASE i <= bottom - top
      BY <1>0, <2>1, <2>4, <3>1, <3>2, QueuedSeq
    <3>3. CASE ~(i <= bottom - top)
      <4>1. i = bottom - top + 1 /\ top + i - 1 = bottom
        BY <1>0, <2>1, <3>3
      <4> QED
        BY <2>2, <2>4, <3>1, <4>1
    <3> QED
      BY <3>2, <3>3
  <2>7. Queued' = Append(Queued, val[Owner])
    BY <1>q, <2>4, <2>5, <2>6, SeqEqual
  <2> QED
    BY <2>1, <2>2, <2>3, <2>7 DEF Deque!Next, Deque!Push
<1>5. CASE PopDec
  <2>1. Bottom' = Bottom
    BY <1>0, <1>5 DEF PopDec, Goto, Bottom, Inv, TypeOK
  <2> QED
    BY <1>5, <1>a, <2>1 DEF PopDec, Deque!dvars
<1>6. CASE PopReload
  <2>1. Bottom' = Bottom /\ Bottom = bottom + 1
    BY <1>6 DEF PopReload, Goto, Bottom, Inv, TypeOK
  <2>2. Queued' = Queued
    BY <1>6, <1>a, <2>1 DEF PopReload
  <2>3. CASE top > bottom
    <3>1. Queued = << >>
      BY <1>0, <2>1, <2>3, QueuedSeq
    <3> QED
      BY <1>6, <2>2, <2>3, <3>1 DEF PopReload, Deque!Next, Deque!PopEmpty
  <2> QED
    BY <1>6, <2>2, <2>3 DEF PopReload, Deque!dvars
<1>7. CASE PopRead
  <2>1. /\ Bottom = bottom + 1 /\ top' = top /\ buffer' = buffer
        /\ val'[Owner] = buffer[Slot(bottom)]
    BY <1>7 DEF PopRead, Bottom, Inv, TypeOK
  <2>2. CASE t[Owner] # bottom
    <3>1. Bottom' = bottom /\ got' = [got EXCEPT ![Owner] = buffer[Slot(bottom)]]
      BY <1>7, <2>1, <2>2 DEF PopRead, Return, Goto, Bottom, Inv, TypeOK
    <3>2. top <= bottom
      BY <1>7, <2>2 DEF PopRead, Inv, OwnerInv, TypeOK
    <3>3. /\ Queued # << >>
          /\ Len(Queued) = bottom + 1 - top
          /\ Queued[Len(Queued)] = buffer[Slot(bottom)]
      BY <1>0, <2>1, <3>2, QueuedSeq
    <3>4. SubSeq(Queued, 1, Len(Queued) - 1) = [i \in 1..(bottom - top) |-> Queued[i]]
      BY <1>0, <3>2, <3>3, QueuedSeq
    <3>5. Queued' = [i \in 1..(bottom - top) |-> buffer[Slot(top + i - 1)]]
      BY <2>1, <3>1 DEF Queued
    <3>6. Queued' = SubSeq(Queued, 1, Len(Queued) - 1)
      BY <1>0, <2>1, <3>4, <3>5, QueuedSeq
    <3> QED
      BY <3>1, <3>3, <3>6 DEF Deque!Next, Deque!PopBottom
  <2>3. CASE t[Owner] = bottom
    <3>1. Bottom' = Bottom /\ got' = got
      BY <1>7, <2>3 DEF PopRead, Goto, Bottom, Inv, TypeOK
    <3> QED
      BY <1>a, <2>1, <3>1 DEF Deque!dvars
  <2> QED
    BY <2>2, <2>3
<1>8. CASE PopCas
  <2>1. /\ Bottom = bottom + 1 /\ Bottom' = bottom + 1 /\ buffer' = buffer
        /\ t[Owner] = bottom /\ val[Owner] = buffer[Slot(bottom)]
    BY <1>8 DEF PopCas, Goto, Bottom, Inv, TypeOK, OwnerInv
  <2>2. CASE top = t[Owner]
    <3>1. top = bottom /\ top' = top + 1 /\ got' = [got EXCEPT ![Owner] = buffer[Slot(bottom)]]
      BY <1>8, <2>1, <2>2 DEF PopCas
    <3>2. /\ Queued # << >>
          /\ Len(Queued) = 1
          /\ Queued[Len(Queued)] = buffer[Slot(bottom)]
      <4>1. Bottom - top = 1 /\ 1 \in 1..1 /\ top + 1 - 1 = bottom
        BY <1>0, <2>1, <3>1
      <4> QED
        BY <4>1, QueuedSeq
    <3>3. Queued' = << >>
      BY <1>0, <2>1, <3>1 DEF Queued
    <3>4. Queued' = SubSeq(Queued, 1, Len(Queued) - 1)
      BY <3>2, <3>3, QueuedSeq
    <3> QED
      BY <3>1, <3>2, <3>4 DEF Deque!Next, Deque!PopBottom
  <2>3. CASE top # t[Owner]
    <3>1. top' = top /\ got' = [got EXCEPT ![Owner] = Nothing]
      BY <1>8, <2>3 DEF PopCas
    <3>2. top = bottom + 1
      BY <1>0, <2>1, <2>3 DEF Inv, SeenInv, TypeOK
    <3>3. Queued = << >>
      BY <1>0, <2>1, <3>2, QueuedSeq
    <3> QED
      BY <1>a, <2>1, <3>1, <3>3 DEF Deque!Next, Deque!PopEmpty
  <2> QED
    BY <2>2, <2>3
<1>9. CASE PopRestore
  <2>1. Bottom' = Bottom
    BY <1>9 DEF PopRestore, Goto, Bottom, Inv, TypeOK
  <2> QED
    BY <1>9, <1>a, <2>1 DEF PopRestore, Deque!dvars
<1>10. ASSUME NEW w \in Thieves, StealLoadTop(w) PROVE UNCHANGED <<Queued, got>>
  <2>1. Bottom' = Bottom
    BY <1>10 DEF StealLoadTop, Goto, Bottom, Inv, TypeOK
  <2> QED
    BY <1>10, <1>a, <2>1 DEF StealLoadTop
<1>11. ASSUME NEW w \in Thieves, StealCheck(w) \/ StealLoop(w)
       PROVE  [Deque!Next]_(Deque!dvars)
  <2>1. Bottom' = Bottom
    BY <1>11 DEF StealCheck, StealLoop, Goto, Return, Bottom, Inv, TypeOK
  <2>2. Queued' = Queued
    BY <1>11, <1>a, <2>1 DEF StealCheck, StealLoop
  <2>3. got' = got \/ got' = [got EXCEPT ![w] = Nothing]
    BY <1>11 DEF StealCheck, StealLoop, Return
  <2> QED
    BY <2>2, <2>3 DEF Deque!Next, Deque!StealNone, Deque!dvars
<1>12. ASSUME NEW w \in Thieves, StealRead(w) PROVE UNCHANGED <<Queued, got>>
  <2>1. Bottom' = Bottom
    BY <1>12 DEF StealRead, Goto, Bottom, Inv, TypeOK
  <2> QED
    BY <1>12, <1>a, <2>1 DEF StealRead
<1>13. ASSUME NEW w \in Thieves, StealCas(w) PROVE [Deque!Next]_(Deque!dvars)
  <2>1. Bottom' = Bottom /\ buffer' = buffer
    BY <1>13 DEF StealCas, Goto, Return, Bottom, Inv, TypeOK
  <2>2. CASE top = t[w]
    <3>1. /\ top' = top + 1
          /\ got' = [got EXCEPT ![w] = buffer[Slot(top)]]
          /\ top < Bottom
      BY <1>13, <2>2 DEF StealCas, Return, Inv, ThiefInv
    <3>2. /\ Queued # << >>
          /\ Len(Queued) = Bottom - top
          /\ Queued[1] = buffer[Slot(top)]
      BY <1>0, <3>1, QueuedSeq
    <3>3. /\ Tail(Queued) \in Seq(Values)
          /\ Len(Tail(Queued)) = Bottom - top - 1
          /\ \A i \in 1..(Bottom - top - 1) : Tail(Queued)[i] = Queued[i + 1]
      BY <1>0, <3>1, <3>2, QueuedSeq, HeadTailProperties
    <3>4. Len(Queued') = Bottom - top - 1
      BY <1>0, <1>q, <2>1, <3>1
    <3>5. ASSUME NEW i \in 1..(Bottom - top - 1) PROVE Queued'[i] = Tail(Queued)[i]
      <4>1. i + 1 \in 1..(Bottom - top) /\ top + (i + 1) - 1 = (top + 1) + i - 1
        BY <1>0
      <4>2. i \in 1..(Bottom' - top')
        BY <1>0, <2>1, <3>1
      <4>3. Queued'[i] = buffer[Slot((top + 1) + i - 1)]
        BY <1>q, <2>1, <3>1, <4>2
      <4>4. Queued[i + 1] = buffer[Slot((top + 1) + i - 1)]
        BY <4>1, QueuedSeq
      <4> QED
        BY <3>3, <4>3, <4>4
    <3>7. Queued' = Tail(Queued)
      BY <1>q, <3>3, <3>4, <3>5, SeqEqual
    <3> QED
      BY <3>1, <3>2, <3>7 DEF Deque!Next, Deque!StealTop
  <2>3. CASE top # t[w]
    BY <1>13, <1>a, <2>1, <2>3 DEF StealCas, Deque!dvars
  <2> QED
    BY <2>2, <2>3
<1>14. CASE UNCHANGED vars
  <2>1. Bottom' = Bottom
    BY <1>14 DEF vars, Bottom
  <2> QED
    BY <1>14, <1>a, <2>1 DEF vars, Deque!dvars
<1> QED
  BY <1>1, <1>2, <1>3, <1>4, <1>5, <1>6, <1>7, <1>8, <1>9, <1>10, <1>11, <1>12,
     <1>13, <1>14 DEF Next, OwnerStep, ThiefStep, Deque!dvars

\* The work stealing queue implements the bounded deque: every pushed task is
\* handed out at most once, pops are LIFO, steals FIFO, and pop answers "empty"
\* only of an empty queue, whatever the interleaving of owner and thieves.
THEOREM ImplementsDequeCorrect == Spec => ImplementsDeque
<1>1. Init => Deque!Init
  BY InitRefines
<1>2. Inv /\ Inv' /\ [Next]_vars => [Deque!Next]_(Deque!dvars)
  BY NextRefines
<1> QED
  BY <1>1, <1>2, InvCorrect, PTL DEF Spec, ImplementsDeque, Deque!Spec
===============================================================================
