---------------------------- MODULE Butex_proofs ----------------------------
(***************************************************************************)
(* Safety of the butex, for any number of fibers, pthreads, butexes,       *)
(* wakers and interrupters: a suspended waiter has one waker, which reads  *)
(* and writes it before butex_wait returns; a pthread does not sleep       *)
(* through its signal; with butex_wake_all no wakeup is lost.              *)
(***************************************************************************)
EXTENDS Butex, Integers, FiniteSets, Sequences, SequencesExt, SequenceTheorems,
        FiniteSetTheorems, TLAPS

\* The waiter lists are sequences in which nobody occurs twice; what the
\* operations on such a list do to its set of members.

\* The members of a list.
LEMMA MembersOfSeq ==
  ASSUME NEW S, NEW s \in Seq(S)
  PROVE  /\ ToSet(s) = {s[i] : i \in 1..Len(s)}
         /\ ToSet(s) \subseteq S
         /\ ToSet(s) = {} <=> s = << >>
         /\ IsInjective(s) <=> \A i, j \in 1..Len(s) : s[i] = s[j] => i = j
<1>1. DOMAIN s = 1..Len(s) /\ Len(s) \in Nat /\ \A i \in 1..Len(s) : s[i] \in S
  OBVIOUS
<1>2. s # << >> => 1 \in 1..Len(s)
  BY EmptySeq
<1>3. ToSet(s) = {s[i] : i \in 1..Len(s)}
  BY <1>1 DEF ToSet
<1>4. ToSet(s) = {} <=> s = << >>
  <2>1. s = << >> => Len(s) = 0
    OBVIOUS
  <2> QED
    BY <1>1, <1>2, <1>3, <2>1
<1>5. IsInjective(s) <=> \A i, j \in 1..Len(s) : s[i] = s[j] => i = j
  BY <1>1 DEF IsInjective
<1> QED
  BY <1>1, <1>3, <1>4, <1>5

\* The empty list.
LEMMA MembersOfEmpty == ToSet(<< >>) = {} /\ IsInjective(<< >>)
BY DEF ToSet, IsInjective

\* A list of one member.
LEMMA MembersOfOne ==
  ASSUME NEW S, NEW e \in S
  PROVE  <<e>> \in Seq(S) /\ ToSet(<<e>>) = {e} /\ IsInjective(<<e>>)
BY DEF ToSet, IsInjective

\* A new member at the end of the list.
LEMMA MembersOfAppend ==
  ASSUME NEW S, NEW s \in Seq(S), NEW e \in S
  PROVE  /\ Append(s, e) \in Seq(S) /\ Append(s, e) # << >>
         /\ ToSet(Append(s, e)) = ToSet(s) \cup {e}
         /\ IsInjective(s) /\ e \notin ToSet(s) => IsInjective(Append(s, e))
<1> DEFINE t == Append(s, e)
<1>1. /\ t \in Seq(S) /\ t # << >> /\ Len(t) = Len(s) + 1 /\ Len(s) \in Nat
      /\ \A i \in 1..Len(s) : t[i] = s[i]
      /\ t[Len(s) + 1] = e
  BY AppendProperties
<1> HIDE DEF t
<1>2. ToSet(t) = ToSet(s) \cup {e}
  BY SMTT(30), <1>1, MembersOfSeq
<1>3. ASSUME IsInjective(s), e \notin ToSet(s) PROVE IsInjective(t)
  <2>1. \A i \in 1..Len(s) : s[i] # e
    BY <1>3, MembersOfSeq
  <2>2. \A i, j \in 1..Len(s) : s[i] = s[j] => i = j
    BY <1>3, MembersOfSeq
  <2>3. \A i, j \in 1..Len(t) : t[i] = t[j] => i = j
    BY <1>1, <2>1, <2>2
  <2> QED
    BY <1>1, <2>3, MembersOfSeq
<1> QED
  BY <1>1, <1>2, <1>3 DEF t

\* The head is taken off the list.
LEMMA MembersOfTail ==
  ASSUME NEW S, NEW s \in Seq(S), s # << >>, IsInjective(s)
  PROVE  /\ Tail(s) \in Seq(S) /\ IsInjective(Tail(s))
         /\ Head(s) \in ToSet(s)
         /\ ToSet(Tail(s)) = ToSet(s) \ {Head(s)}
<1> DEFINE t == Tail(s)
<1>1. /\ t \in Seq(S) /\ Len(t) = Len(s) - 1 /\ Len(s) \in Nat \ {0}
      /\ \A i \in 1..Len(t) : t[i] = s[i + 1]
  BY HeadTailProperties, EmptySeq
<1>2. Head(s) = s[1]
  BY <1>1
<1> HIDE DEF t
<1>3. \A i, j \in 1..Len(s) : s[i] = s[j] => i = j
  BY MembersOfSeq
<1>4. IsInjective(t)
  <2>1. \A i, j \in 1..Len(t) : t[i] = t[j] => i = j
    BY <1>1, <1>3
  <2> QED
    BY <1>1, <2>1, MembersOfSeq
<1>5. ToSet(t) = {t[i] : i \in 1..Len(t)} /\ ToSet(s) = {s[i] : i \in 1..Len(s)}
  BY <1>1, MembersOfSeq
<1>6. ToSet(t) \subseteq ToSet(s) \ {Head(s)}
  BY <1>1, <1>2, <1>3, <1>5
<1>7. ASSUME NEW x \in ToSet(s) \ {Head(s)} PROVE x \in ToSet(t)
  <2>1. PICK i \in 1..Len(s) : s[i] = x
    BY <1>5
  <2>2. i - 1 \in 1..Len(t) /\ t[i - 1] = x
    BY <1>1, <1>2, <2>1
  <2> QED
    BY <1>5, <2>2
<1>8. Head(s) \in ToSet(s)
  BY <1>1, <1>2, <1>5
<1> QED
  BY <1>1, <1>4, <1>6, <1>7, <1>8 DEF t

\* The last member is taken off the list.
LEMMA MembersOfFront ==
  ASSUME NEW S, NEW s \in Seq(S), s # << >>, IsInjective(s)
  PROVE  LET t == SubSeq(s, 1, Len(s) - 1)  e == s[Len(s)] IN
         /\ t \in Seq(S) /\ IsInjective(t) /\ Len(t) = Len(s) - 1
         /\ e \in ToSet(s)
         /\ ToSet(t) = ToSet(s) \ {e}
<1> DEFINE t == SubSeq(s, 1, Len(s) - 1)
           e == s[Len(s)]
<1>1. Len(s) \in Nat \ {0} /\ \A i \in 1..Len(s) : s[i] \in S
  BY EmptySeq
<1>2. /\ t \in Seq(S) /\ Len(t) = Len(s) - 1
      /\ \A i \in 1..(Len(s) - 1) : t[i] = s[i]
  <2>1. \A i \in 1..(Len(s) - 1) : s[i] \in S
    BY <1>1
  <2>2. /\ t \in Seq(S) /\ Len(t) = IF 1 <= Len(s) - 1 THEN Len(s) - 1 - 1 + 1 ELSE 0
        /\ \A i \in 1..(Len(s) - 1 - 1 + 1) : t[i] = s[1 + i - 1]
    BY <1>1, <2>1, SubSeqProperties
  <2> HIDE DEF t
  <2>3. Len(t) = Len(s) - 1
    <3> DEFINE n == Len(s) - 1
    <3>1. n \in Nat
      BY <1>1
    <3>2. Len(t) = IF 1 <= n THEN n - 1 + 1 ELSE 0
      BY <2>2
    <3> HIDE DEF n
    <3>3. Len(t) = n
      BY <3>1, <3>2
    <3> QED
      BY <3>3 DEF n
  <2>4. \A i \in 1..(Len(s) - 1) : i \in 1..(Len(s) - 1 - 1 + 1) /\ 1 + i - 1 = i
    BY <1>1
  <2>5. \A i \in 1..(Len(s) - 1) : t[i] = s[i]
    BY <2>2, <2>4
  <2> QED
    BY <2>2, <2>3, <2>5
<1> HIDE DEF t
<1>3. \A i, j \in 1..Len(s) : s[i] = s[j] => i = j
  BY MembersOfSeq
<1>4. IsInjective(t)
  <2>1. \A i, j \in 1..Len(t) : t[i] = t[j] => i = j
    BY <1>1, <1>2, <1>3
  <2> QED
    BY <1>2, <2>1, MembersOfSeq
<1>5. ToSet(t) = {t[i] : i \in 1..Len(t)} /\ ToSet(s) = {s[i] : i \in 1..Len(s)}
  BY <1>2, MembersOfSeq
<1>6. e \in ToSet(s)
  BY <1>1, <1>5
<1>7. ToSet(t) \subseteq ToSet(s) \ {e}
  BY <1>1, <1>2, <1>3, <1>5
<1>8. ASSUME NEW x \in ToSet(s) \ {e} PROVE x \in ToSet(t)
  <2>1. PICK i \in 1..Len(s) : s[i] = x
    BY <1>5
  <2>2. i \in 1..Len(t) /\ t[i] = x
    BY <1>1, <1>2, <2>1
  <2> QED
    BY <1>5, <2>2
<1> QED
  BY <1>2, <1>4, <1>6, <1>7, <1>8 DEF t

\* One list after another.
LEMMA MembersOfConcat ==
  ASSUME NEW S, NEW s \in Seq(S), NEW t \in Seq(S)
  PROVE  /\ s \o t \in Seq(S)
         /\ ToSet(s \o t) = ToSet(s) \cup ToSet(t)
         /\ IsInjective(s) /\ IsInjective(t) /\ ToSet(s) \cap ToSet(t) = {}
              => IsInjective(s \o t)
<1> DEFINE u == s \o t
<1>1. /\ u \in Seq(S) /\ Len(u) = Len(s) + Len(t) /\ Len(s) \in Nat /\ Len(t) \in Nat
      /\ \A i \in 1..Len(s) + Len(t) : u[i] = IF i <= Len(s) THEN s[i] ELSE t[i - Len(s)]
  BY ConcatProperties
<1> HIDE DEF u
<1>2. /\ \A i \in 1..Len(s) : i \in 1..Len(u) /\ u[i] = s[i]
      /\ \A i \in 1..Len(t) : i + Len(s) \in 1..Len(u) /\ u[i + Len(s)] = t[i]
      /\ \A i \in 1..Len(u) : \/ i \in 1..Len(s) /\ u[i] = s[i]
                              \/ i - Len(s) \in 1..Len(t) /\ u[i] = t[i - Len(s)]
  BY <1>1
<1>3. /\ ToSet(s) = {s[i] : i \in 1..Len(s)} /\ ToSet(t) = {t[i] : i \in 1..Len(t)}
      /\ ToSet(u) = {u[i] : i \in 1..Len(u)}
  BY <1>1, MembersOfSeq
<1>4. ToSet(u) \subseteq ToSet(s) \cup ToSet(t)
  BY <1>2, <1>3
<1>5. ToSet(s) \subseteq ToSet(u) /\ ToSet(t) \subseteq ToSet(u)
  BY <1>2, <1>3
<1>6. ASSUME IsInjective(s), IsInjective(t), ToSet(s) \cap ToSet(t) = {}
      PROVE  IsInjective(u)
  <2>1. /\ \A i, j \in 1..Len(s) : s[i] = s[j] => i = j
        /\ \A i, j \in 1..Len(t) : t[i] = t[j] => i = j
    BY <1>6, MembersOfSeq
  <2>2. \A i \in 1..Len(s), j \in 1..Len(t) : s[i] # t[j]
    BY <1>3, <1>6
  <2>3. ASSUME NEW i \in 1..Len(u), NEW j \in 1..Len(u), u[i] = u[j] PROVE i = j
    <3>1. CASE i \in 1..Len(s) /\ u[i] = s[i]
      <4>1. ~(j - Len(s) \in 1..Len(t) /\ u[j] = t[j - Len(s)])
        BY <2>2, <2>3, <3>1
      <4>2. j \in 1..Len(s) /\ s[i] = s[j]
        BY <1>2, <2>3, <3>1, <4>1
      <4> QED
        BY <2>1, <3>1, <4>2
    <3>2. CASE i - Len(s) \in 1..Len(t) /\ u[i] = t[i - Len(s)]
      <4>1. j \notin 1..Len(s)
        BY <1>2, <2>2, <2>3, <3>2
      <4>2. j - Len(s) \in 1..Len(t) /\ t[i - Len(s)] = t[j - Len(s)]
        BY <1>2, <2>3, <3>2, <4>1
      <4> QED
        BY <1>1, <2>1, <3>2, <4>2
    <3> QED
      BY <1>2, <3>1, <3>2
  <2> QED
    BY <1>1, <2>3, MembersOfSeq
<1> QED
  BY <1>1, <1>4, <1>5, <1>6 DEF u

\* RemoveFromList: one member leaves, wherever it is.
LEMMA MembersOfRemove ==
  ASSUME NEW S, NEW s \in Seq(S), NEW e, IsInjective(s)
  PROVE  /\ RemoveFirst(s, e) \in Seq(S) /\ IsInjective(RemoveFirst(s, e))
         /\ ToSet(RemoveFirst(s, e)) = ToSet(s) \ {e}
<1>0. /\ Len(s) \in Nat /\ ToSet(s) = {s[i] : i \in 1..Len(s)}
      /\ \A i, j \in 1..Len(s) : s[i] = s[j] => i = j
      /\ \A i \in 1..Len(s) : s[i] \in S
  BY MembersOfSeq
<1>1. CASE ~ \E i \in 1..Len(s) : s[i] = e
  BY <1>0, <1>1 DEF RemoveFirst
<1>2. ASSUME NEW k \in 1..Len(s), s[k] = e
      PROVE  /\ RemoveFirst(s, e) \in Seq(S) /\ IsInjective(RemoveFirst(s, e))
             /\ ToSet(RemoveFirst(s, e)) = ToSet(s) \ {e}
  <2> DEFINE a == SubSeq(s, 1, k - 1)
             b == SubSeq(s, k + 1, Len(s))
  <2>1. RemoveFirst(s, e) = a \o b
    <3>1. {i \in 1..Len(s) : s[i] = e} = {k}
      BY <1>0, <1>2
    <3>2. Min({k}) = k
      BY DEF Min
    <3>3. SelectInSeq(s, LAMBDA v : v = e) = k
      BY <3>1, <3>2 DEF SelectInSeq
    <3> QED
      BY <1>2, <3>3 DEF RemoveFirst, RemoveAt
  <2>2. /\ a \in Seq(S) /\ Len(a) = k - 1 /\ \A i \in 1..(k - 1) : a[i] = s[i]
        /\ b \in Seq(S) /\ Len(b) = Len(s) - k
        /\ \A i \in 1..(Len(s) - k) : b[i] = s[k + i]
    BY <1>0
  <2> HIDE DEF a, b
  <2>3. IsInjective(a) /\ IsInjective(b)
    <3>1. ASSUME NEW i \in 1..Len(a), NEW j \in 1..Len(a), a[i] = a[j] PROVE i = j
      <4>1. i \in 1..Len(s) /\ j \in 1..Len(s) /\ a[i] = s[i] /\ a[j] = s[j]
        BY <1>0, <2>2
      <4> QED
        BY <1>0, <3>1, <4>1
    <3>2. ASSUME NEW i \in 1..Len(b), NEW j \in 1..Len(b), b[i] = b[j] PROVE i = j
      <4>1. /\ k + i \in 1..Len(s) /\ k + j \in 1..Len(s)
            /\ b[i] = s[k + i] /\ b[j] = s[k + j]
        BY <1>0, <2>2
      <4>2. k + i = k + j
        BY <1>0, <3>2, <4>1
      <4> QED
        BY <2>2, <4>2
    <3> QED
      BY <2>2, <3>1, <3>2, MembersOfSeq
  <2>4. ToSet(a) = {a[i] : i \in 1..Len(a)} /\ ToSet(b) = {b[i] : i \in 1..Len(b)}
    BY <2>2, MembersOfSeq
  <2>5. ToSet(a) \cap ToSet(b) = {}
    <3>1. ASSUME NEW i \in 1..Len(a), NEW j \in 1..Len(b) PROVE a[i] # b[j]
      <4>1. /\ i \in 1..Len(s) /\ k + j \in 1..Len(s) /\ i # k + j
            /\ a[i] = s[i] /\ b[j] = s[k + j]
        BY <1>0, <2>2
      <4> QED
        BY <1>0, <4>1
    <3> QED
      BY <2>4, <3>1
  <2>6. ToSet(a) \cup ToSet(b) \subseteq ToSet(s) \ {e}
    BY <1>0, <1>2, <2>2, <2>4
  <2>7. ASSUME NEW x \in ToSet(s) \ {e} PROVE x \in ToSet(a) \cup ToSet(b)
    <3>1. PICK i \in 1..Len(s) : s[i] = x
      BY <1>0
    <3>2. CASE i < k
      BY <1>0, <2>2, <2>4, <3>1, <3>2
    <3>3. CASE i > k
      <4>1. i - k \in 1..Len(b) /\ b[i - k] = x
        BY <1>0, <2>2, <3>1, <3>3
      <4> QED
        BY <2>4, <4>1
    <3> QED
      BY <1>0, <1>2, <3>1, <3>2, <3>3
  <2> QED
    BY <2>1, <2>2, <2>3, <2>5, <2>6, <2>7, MembersOfConcat
<1> QED
  BY <1>1, <1>2

\* A list without duplicates is as long as it has members.
LEMMA CountMembers ==
  ASSUME NEW S, NEW s \in Seq(S), IsInjective(s)
  PROVE  IsFiniteSet(ToSet(s)) /\ Cardinality(ToSet(s)) = Len(s)
<1>1. /\ Len(s) \in Nat /\ ToSet(s) = {s[i] : i \in 1..Len(s)}
      /\ \A i, j \in 1..Len(s) : s[i] = s[j] => i = j
      /\ s \in [1..Len(s) -> S]
  BY MembersOfSeq
<1>2. s \in Bijection(1..Len(s), ToSet(s))
  BY <1>1 DEF Bijection, Injection, Surjection, IsInjective
<1>3. ExistsBijection(1..Len(s), ToSet(s))
  BY <1>2 DEF ExistsBijection
<1>4. IsFiniteSet(1..Len(s)) /\ Cardinality(1..Len(s)) = Len(s)
  BY <1>1, FS_Interval
<1> QED
  BY <1>3, <1>4, FS_Bijection

-----------------------------------------------------------------------------

\* Nobody is queued or detached twice, and a waiter is on the queue of its container.
QueueInv ==
    /\ \A b \in Butexes : IsInjective(waiters[b])
    /\ \A k \in Wakers : IsInjective(held[k])
    /\ \A w \in Waiters, b \in Butexes : w \in ToSet(waiters[b]) <=> bw[w].container = b

\* Who has taken w out of a queue and has still to wake it: the waker k, the
\* interrupter i, its timer.
InterruptWaking(i, w) == pc[i] = "wakeup" /\ target[i] = w
TimerWaking(w) == w \in Fibers /\ pc[TimerOf(w)] = "wakeup"
Free(w) == /\ \A k \in Wakers : ~Holds(k, w)
           /\ \A i \in Interrupters : ~InterruptWaking(i, w)
           /\ ~TimerWaking(w)

\* OnePlace without counting.
Place(w) ==
    /\ Woken(w) \in 0..1
    /\ bw[w].container # None \/ ~Free(w) => Suspended(w) /\ Woken(w) = 0
    /\ bw[w].container # None => Free(w)
    /\ \A k \in Wakers : Holds(k, w) =>
          /\ \A l \in Wakers : Holds(l, w) => k = l
          /\ \A i \in Interrupters : ~InterruptWaking(i, w)
          /\ ~TimerWaking(w)
    /\ \A i \in Interrupters : InterruptWaking(i, w) => ~TimerWaking(w)
    /\ Woken(w) = 1 => Suspended(w)
    /\ Suspended(w) => bw[w].container # None \/ ~Free(w) \/ Woken(w) = 1
PlaceInv == \A w \in Waiters : Place(w)

\* A waker that has changed a value knows the butex; one that wakes has somebody to
\* wake, and readies fibers only.
WakerInv == \A k \in Wakers :
    /\ pc[k] = "set" => target[k] \in Butexes
    /\ pc[k] \in {"wakeAll", "wakeRest", "ready"} <=> held[k] # << >>
    /\ pc[k] = "ready" => OnlyFibers(held[k])

\* A timer is used only while its fiber has not unscheduled it.
TimerInv == \A f \in Fibers :
    /\ pc[TimerOf(f)] # "idle" => bw[f].sleep /\ pc[f] \in {"blocked", "unsleep"}
    /\ pc[TimerOf(f)] # "putback"

\* Between FiberWait and ConsumeWaiter the waiter of a fiber is in current_waiter or
\* with one interrupter.
InterruptInv ==
    /\ \A i \in Interrupters :
          /\ pc[i] = "idle" <=> target[i] = None
          /\ pc[i] # "scheduled"
          /\ pc[i] # "idle" => /\ target[i] \in Fibers
                               /\ pc[target[i]] \notin {"idle", "finish"}
                               /\ ~curWaiter[target[i]]
          /\ \A j \in Interrupters : target[i] = target[j] /\ target[i] # None => i = j
    /\ \A f \in Fibers : curWaiter[f] => pc[f] \notin {"idle", "finish"}

\* An eraser about to lock a container has seen one.
SeenInv ==
    /\ \A f \in Fibers : pc[TimerOf(f)] = "lock" => seen[TimerOf(f)] \in Butexes
    /\ \A i \in Interrupters : pc[i] = "lock" => seen[i] \in Butexes
    /\ \A p \in Pthreads : pc[p] = "lock" => seen[p] \in Butexes

\* wait_for_butex knows the butex, and holds its waiter_lock when it queues the waiter.
LockInv == \A f \in Fibers :
    /\ pc[f] \in {"remained", "append"} => bw[f].home \in Butexes
    /\ pc[f] = "append" => lock[bw[f].home] = f

\* Nobody has written waiter_state of a fiber that is queued or detached.
StateInv == \A f \in Fibers :
    \/ pc[f] = "append"
    \/ bw[f].container # None
    \/ \E k \in Wakers : Holds(k, f)
    => bw[f].state = "READY"

IInv == /\ Types /\ QueueInv /\ PlaceInv /\ WakerInv /\ TimerInv /\ InterruptInv
        /\ SeenInv /\ LockInv /\ StateInv

\* NoLostWakeup, and the same of a fiber that is about to be queued.
ValueInv == \A b \in Butexes, w \in Waiters :
    /\ bw[w].home = b /\ bw[w].expected # value[b]
    /\ bw[w].container = b \/ (w \in Fibers /\ pc[w] = "append")
    => \E k \in Wakers : pc[k] = "set" /\ target[k] = b

-----------------------------------------------------------------------------
(* The actors *)

\* The actors are of different kinds, and a timer belongs to one fiber.
Kinds ==
    /\ \A f \in Fibers : /\ f \in Waiters /\ f \in Actors /\ f # None
                         /\ f \notin Pthreads /\ f \notin Interrupters /\ f \notin Wakers
                         /\ f \notin Timers /\ f \notin Erasers
                         /\ TimerOf(f) \in Timers
    /\ \A f, g \in Fibers : TimerOf(f) = TimerOf(g) => f = g
    /\ \A a \in Timers : /\ a \in Erasers /\ a \in Actors
                         /\ a \notin Waiters /\ a \notin Interrupters /\ a \notin Wakers
    /\ \A p \in Pthreads : /\ p \in Waiters /\ p \in Erasers /\ p \in Actors /\ p # None
                           /\ p \notin Fibers /\ p \notin Interrupters /\ p \notin Wakers
                           /\ p \notin Timers
    /\ \A i \in Interrupters : /\ i \in Erasers /\ i \in Actors
                               /\ i \notin Waiters /\ i \notin Fibers /\ i \notin Pthreads
                               /\ i \notin Wakers /\ i \notin Timers
    /\ \A k \in Wakers : /\ k \in Actors /\ k \notin Waiters /\ k \notin Fibers
                         /\ k \notin Pthreads /\ k \notin Interrupters /\ k \notin Timers
                         /\ k \notin Erasers
    /\ None \notin Butexes /\ None \notin Waiters
    /\ \A w \in Waiters : w \in Fibers \/ w \in Pthreads

\* The kinds of actors are different.
LEMMA ActorKinds == Kinds
<1>1. \A f, g \in Fibers : TimerOf(f) = TimerOf(g) => f = g
  BY DEF TimerOf
<1> QED
  BY <1>1, DistinctAssumption DEF Kinds, Actors, Erasers, Waiters, Timers

-----------------------------------------------------------------------------
(* Frames: what a step leaves alone *)

\* The step does not move w.
SamePlace(w) ==
    /\ bw'[w].container = None <=> bw[w].container = None
    /\ \A k \in Wakers : Holds(k, w)' <=> Holds(k, w)
    /\ \A i \in Interrupters : InterruptWaking(i, w)' <=> InterruptWaking(i, w)
    /\ TimerWaking(w)' <=> TimerWaking(w)
    /\ Woken(w)' = Woken(w)
    /\ Suspended(w)' <=> Suspended(w)

\* A waiter that is not moved keeps its place.
LEMMA PlaceKept ==
  ASSUME NEW w \in Waiters, Place(w), SamePlace(w)
  PROVE  Place(w)'
BY DEF Place, SamePlace, Free

\* Queues and containers that are left alone.
LEMMA QueuesKept ==
  ASSUME QueueInv, UNCHANGED <<waiters, held>>,
         \A w \in Waiters : bw'[w].container = bw[w].container
  PROVE  QueueInv'
BY DEF QueueInv

\* The fields of a waiter that the steps write.
LEMMA WaiterFields ==
  ASSUME NEW s \in ButexWaiter, NEW c \in Butexes \cup {None}, NEW x \in BOOLEAN,
         NEW t \in {"READY", "TIMEDOUT", "UNMATCHEDVALUE", "INTERRUPTED"}
  PROVE  /\ [s EXCEPT !.container = c] \in ButexWaiter
         /\ [s EXCEPT !.sleep = x] \in ButexWaiter
         /\ [s EXCEPT !.timed = x] \in ButexWaiter
         /\ [s EXCEPT !.state = t] \in ButexWaiter
         /\ [s EXCEPT !.container = c, !.sleep = x] \in ButexWaiter
         /\ [s EXCEPT !.container = c, !.state = t] \in ButexWaiter
BY DEF ButexWaiter

\* One waiter is written.
LEMMA WaiterUpdate ==
  ASSUME NEW w \in Waiters, bw \in [Waiters -> ButexWaiter], NEW r \in ButexWaiter,
         bw' = [bw EXCEPT ![w] = r]
  PROVE  /\ bw' \in [Waiters -> ButexWaiter] /\ bw'[w] = r
         /\ \A v \in Waiters : v # w => bw'[v] = bw[v]
         /\ \A g \in Fibers : g # w => bw'[g] = bw[g]
         /\ \A p \in Pthreads : p # w => bw'[p] = bw[p]
BY DEF Waiters

\* One actor goes on to the label l, or two: a fiber or a waker unschedules a timer.
FiberRuns(f, l) ==
    /\ LabelTypes' /\ pc'[f] = l
    /\ \A g \in Fibers : g # f => pc'[g] = pc[g]
    /\ \A g \in Fibers : pc'[TimerOf(g)] = pc[TimerOf(g)]
    /\ \A q \in Pthreads : pc'[q] = pc[q]
    /\ \A j \in Interrupters : pc'[j] = pc[j]
    /\ \A h \in Wakers : pc'[h] = pc[h]
TimerRuns(f, l) ==
    /\ LabelTypes' /\ pc'[TimerOf(f)] = l
    /\ \A g \in Fibers : pc'[g] = pc[g]
    /\ \A g \in Fibers : g # f => pc'[TimerOf(g)] = pc[TimerOf(g)]
    /\ \A q \in Pthreads : pc'[q] = pc[q]
    /\ \A j \in Interrupters : pc'[j] = pc[j]
    /\ \A h \in Wakers : pc'[h] = pc[h]
PthreadRuns(p, l) ==
    /\ LabelTypes' /\ pc'[p] = l
    /\ \A g \in Fibers : pc'[g] = pc[g]
    /\ \A g \in Fibers : pc'[TimerOf(g)] = pc[TimerOf(g)]
    /\ \A q \in Pthreads : q # p => pc'[q] = pc[q]
    /\ \A j \in Interrupters : pc'[j] = pc[j]
    /\ \A h \in Wakers : pc'[h] = pc[h]
InterrupterRuns(i, l) ==
    /\ LabelTypes' /\ pc'[i] = l
    /\ \A g \in Fibers : pc'[g] = pc[g]
    /\ \A g \in Fibers : pc'[TimerOf(g)] = pc[TimerOf(g)]
    /\ \A q \in Pthreads : pc'[q] = pc[q]
    /\ \A j \in Interrupters : j # i => pc'[j] = pc[j]
    /\ \A h \in Wakers : pc'[h] = pc[h]
WakerRuns(k, l) ==
    /\ LabelTypes' /\ pc'[k] = l
    /\ \A g \in Fibers : pc'[g] = pc[g]
    /\ \A g \in Fibers : pc'[TimerOf(g)] = pc[TimerOf(g)]
    /\ \A q \in Pthreads : pc'[q] = pc[q]
    /\ \A j \in Interrupters : pc'[j] = pc[j]
    /\ \A h \in Wakers : h # k => pc'[h] = pc[h]
FiberSets(f, l, m) ==
    /\ LabelTypes' /\ pc'[f] = l /\ pc'[TimerOf(f)] = m
    /\ \A g \in Fibers : g # f => pc'[g] = pc[g]
    /\ \A g \in Fibers : g # f => pc'[TimerOf(g)] = pc[TimerOf(g)]
    /\ \A q \in Pthreads : pc'[q] = pc[q]
    /\ \A j \in Interrupters : pc'[j] = pc[j]
    /\ \A h \in Wakers : pc'[h] = pc[h]
WakerSets(k, l, f, m) ==
    /\ LabelTypes' /\ pc'[k] = l /\ pc'[TimerOf(f)] = m
    /\ \A g \in Fibers : pc'[g] = pc[g]
    /\ \A g \in Fibers : g # f => pc'[TimerOf(g)] = pc[TimerOf(g)]
    /\ \A q \in Pthreads : pc'[q] = pc[q]
    /\ \A j \in Interrupters : pc'[j] = pc[j]
    /\ \A h \in Wakers : h # k => pc'[h] = pc[h]

\* A timer is the timer of a fiber.
LEMMA TimerActors == \A a \in Timers : \E f \in Fibers : a = TimerOf(f)
BY DEF Timers

\* What a step that moves one actor to the label l does to the labels.
LEMMA LabelUpdate ==
  ASSUME LabelTypes, NEW l, l \in Labels
  PROVE  /\ \A f \in Fibers : pc' = [pc EXCEPT ![f] = l] /\ l \in FiberLabels => FiberRuns(f, l)
         /\ \A f \in Fibers : pc' = [pc EXCEPT ![TimerOf(f)] = l] /\ l \in EraserLabels
               => TimerRuns(f, l)
         /\ \A p \in Pthreads : pc' = [pc EXCEPT ![p] = l] /\ l \in PthreadLabels
               => PthreadRuns(p, l)
         /\ \A i \in Interrupters : pc' = [pc EXCEPT ![i] = l] /\ l \in EraserLabels
               => InterrupterRuns(i, l)
         /\ \A k \in Wakers : pc' = [pc EXCEPT ![k] = l] /\ l \in WakerLabels => WakerRuns(k, l)
<1> USE ActorKinds DEF Kinds, LabelTypes
<1>1. ASSUME NEW a \in Actors, pc' = [pc EXCEPT ![a] = l]
      PROVE  /\ pc' \in [Actors -> Labels] /\ pc'[a] = l
             /\ \A c \in Actors : c # a => pc'[c] = pc[c]
  BY <1>1
<1>2. ASSUME NEW f \in Fibers, pc' = [pc EXCEPT ![f] = l], l \in FiberLabels PROVE FiberRuns(f, l)
  <2>1. /\ f \in Actors /\ pc' \in [Actors -> Labels] /\ pc'[f] = l
        /\ \A c \in Actors : c # f => pc'[c] = pc[c]
    BY <1>1, <1>2
  <2> QED
    BY <1>2, <2>1, TimerActors DEF FiberRuns
<1>3. ASSUME NEW f \in Fibers, pc' = [pc EXCEPT ![TimerOf(f)] = l], l \in EraserLabels
      PROVE  TimerRuns(f, l)
  <2>1. /\ TimerOf(f) \in Actors /\ pc' \in [Actors -> Labels] /\ pc'[TimerOf(f)] = l
        /\ \A c \in Actors : c # TimerOf(f) => pc'[c] = pc[c]
    BY <1>1, <1>3
  <2> QED
    BY <1>3, <2>1, TimerActors DEF TimerRuns
<1>4. ASSUME NEW p \in Pthreads, pc' = [pc EXCEPT ![p] = l], l \in PthreadLabels
      PROVE  PthreadRuns(p, l)
  <2>1. /\ p \in Actors /\ pc' \in [Actors -> Labels] /\ pc'[p] = l
        /\ \A c \in Actors : c # p => pc'[c] = pc[c]
    BY <1>1, <1>4
  <2> QED
    BY <1>4, <2>1, TimerActors DEF PthreadRuns
<1>5. ASSUME NEW i \in Interrupters, pc' = [pc EXCEPT ![i] = l], l \in EraserLabels
      PROVE  InterrupterRuns(i, l)
  <2>1. /\ i \in Actors /\ pc' \in [Actors -> Labels] /\ pc'[i] = l
        /\ \A c \in Actors : c # i => pc'[c] = pc[c]
    BY <1>1, <1>5
  <2> QED
    BY <1>5, <2>1, TimerActors DEF InterrupterRuns
<1>6. ASSUME NEW k \in Wakers, pc' = [pc EXCEPT ![k] = l], l \in WakerLabels PROVE WakerRuns(k, l)
  <2>1. /\ k \in Actors /\ pc' \in [Actors -> Labels] /\ pc'[k] = l
        /\ \A c \in Actors : c # k => pc'[c] = pc[c]
    BY <1>1, <1>6
  <2> QED
    BY <1>6, <2>1, TimerActors DEF WakerRuns
<1> QED
  BY <1>2, <1>3, <1>4, <1>5, <1>6

\* The same for a step that unschedules or schedules the timer of f as well.
LEMMA TimerUpdate ==
  ASSUME LabelTypes, NEW f \in Fibers, NEW l \in Labels, NEW m \in EraserLabels, NEW a,
         pc' = [pc EXCEPT ![a] = l, ![TimerOf(f)] = m], m \in Labels
  PROVE  /\ a = f /\ l \in FiberLabels => FiberSets(f, l, m)
         /\ a \in Wakers /\ l \in WakerLabels => WakerSets(a, l, f, m)
<1> USE ActorKinds DEF Kinds, LabelTypes
<1>1. SUFFICES ASSUME a \in Fibers \/ a \in Wakers
      PROVE  /\ a = f /\ l \in FiberLabels => FiberSets(f, l, m)
             /\ a \in Wakers /\ l \in WakerLabels => WakerSets(a, l, f, m)
  OBVIOUS
<1>2. TimerOf(f) \in Actors /\ a \in Actors /\ a # TimerOf(f)
  BY <1>1
<1>3. /\ pc'[a] = l /\ pc'[TimerOf(f)] = m /\ pc' \in [Actors -> Labels]
      /\ \A c \in Actors : c # a /\ c # TimerOf(f) => pc'[c] = pc[c]
  BY <1>2
<1> QED
  BY <1>2, <1>3, TimerActors DEF FiberSets, WakerSets

-----------------------------------------------------------------------------
(* The queues *)

\* w is appended to the queue of b.
LEMMA QueueAppend ==
  ASSUME QueueInv, waiters \in [Butexes -> Seq(Waiters)], UNCHANGED held,
         NEW b \in Butexes, NEW w \in Waiters, bw[w].container = None, None \notin Butexes,
         waiters' = [waiters EXCEPT ![b] = Append(@, w)], bw'[w].container = b,
         \A v \in Waiters : v # w => bw'[v].container = bw[v].container
  PROVE  QueueInv' /\ waiters' \in [Butexes -> Seq(Waiters)]
<1>1. /\ waiters[b] \in Seq(Waiters) /\ IsInjective(waiters[b]) /\ w \notin ToSet(waiters[b])
      /\ \A d \in Butexes : w \notin ToSet(waiters[d])
  BY DEF QueueInv
<1>2. /\ Append(waiters[b], w) \in Seq(Waiters) /\ IsInjective(Append(waiters[b], w))
      /\ ToSet(Append(waiters[b], w)) = ToSet(waiters[b]) \cup {w}
  BY <1>1, MembersOfAppend, AppendProperties
<1>3. /\ waiters'[b] = Append(waiters[b], w)
      /\ \A d \in Butexes : d # b => waiters'[d] = waiters[d]
  OBVIOUS
<1>4. waiters' \in [Butexes -> Seq(Waiters)]
  BY <1>2
<1>5. \A d \in Butexes : IsInjective(waiters'[d])
  BY <1>2, <1>3 DEF QueueInv
<1>6. \A v \in Waiters, d \in Butexes : v \in ToSet(waiters'[d]) <=> bw'[v].container = d
  BY <1>1, <1>2, <1>3 DEF QueueInv
<1> QED
  BY <1>4, <1>5, <1>6 DEF QueueInv

\* w is taken out of the queue of b.
LEMMA QueueErase ==
  ASSUME QueueInv, waiters \in [Butexes -> Seq(Waiters)], UNCHANGED held,
         NEW b \in Butexes, NEW w \in Waiters, bw[w].container = b, None \notin Butexes,
         waiters' = [waiters EXCEPT ![b] = RemoveFirst(@, w)], bw'[w].container = None,
         \A v \in Waiters : v # w => bw'[v].container = bw[v].container
  PROVE  QueueInv' /\ waiters' \in [Butexes -> Seq(Waiters)]
<1>1. waiters[b] \in Seq(Waiters) /\ IsInjective(waiters[b]) /\ w \in ToSet(waiters[b])
  BY DEF QueueInv
<1>2. /\ RemoveFirst(waiters[b], w) \in Seq(Waiters) /\ IsInjective(RemoveFirst(waiters[b], w))
      /\ ToSet(RemoveFirst(waiters[b], w)) = ToSet(waiters[b]) \ {w}
  BY <1>1, MembersOfRemove
<1>3. /\ waiters'[b] = RemoveFirst(waiters[b], w)
      /\ \A d \in Butexes : d # b => waiters'[d] = waiters[d]
  OBVIOUS
<1>4. waiters' \in [Butexes -> Seq(Waiters)]
  BY <1>2
<1>5. \A d \in Butexes : IsInjective(waiters'[d])
  BY <1>2, <1>3 DEF QueueInv
<1>6. \A v \in Waiters, d \in Butexes : v \in ToSet(waiters'[d]) <=> bw'[v].container = d
  BY <1>1, <1>2, <1>3 DEF QueueInv
<1> QED
  BY <1>4, <1>5, <1>6 DEF QueueInv

\* A waiter that is not suspended is nowhere.
LEMMA NowhereBefore ==
  ASSUME IInv, NEW w \in Waiters, ~Suspended(w)
  PROVE  /\ bw[w].container = None /\ Free(w) /\ Woken(w) = 0
         /\ \A b \in Butexes : w \notin ToSet(waiters[b])
BY ActorKinds DEF IInv, PlaceInv, Place, QueueInv, Kinds

-----------------------------------------------------------------------------
(* butex_wait by a fiber *)

\* butex_wait publishes the waiter; it is nowhere yet.
LEMMA FiberWaitStep ==
  ASSUME IInv, NEW f \in Fibers, NEW b \in Butexes, NEW e \in 0..MaxValue,
         NEW timed \in Timeouts, FiberWait(f, b, e, timed)
  PROVE  IInv'
<1> DEFINE r == [NoWaiter EXCEPT !.home = b, !.expected = e, !.timed = timed]
<1> USE DEF IInv
<1>1. /\ UNCHANGED <<value, waiters, lock, ready, sig, interrupted, seen, target, held, next>>
      /\ pc[f] = "idle"
  BY DEF FiberWait, Goto
<1>2. /\ curWaiter' = [curWaiter EXCEPT ![f] = TRUE] /\ bw' = [bw EXCEPT ![f] = r]
      /\ pc' = [pc EXCEPT ![f] = "remained"]
  BY DEF FiberWait, Goto
<1>3. f \in Waiters
  BY DEF Waiters
<1>4. /\ curWaiter'[f] = TRUE
      /\ \A y \in Fibers : y # f => curWaiter'[y] = curWaiter[y]
  BY <1>1, <1>2 DEF Types
<1>5. r \in ButexWaiter /\ r.container = None /\ r.home = b /\ ~r.sleep
  BY TimeoutsAssumption, ValueAssumption DEF ButexWaiter, NoWaiter
<1> HIDE DEF r
<1>6. /\ bw' \in [Waiters -> ButexWaiter] /\ bw'[f] = r
      /\ \A w \in Waiters : w # f => bw'[w] = bw[w]
      /\ \A g \in Fibers : g # f => bw'[g] = bw[g]
      /\ \A q \in Pthreads : q # f => bw'[q] = bw[q]
  BY <1>3, <1>2, <1>5, WaiterUpdate DEF Types
<1>7. FiberRuns(f, "remained")
  BY <1>2, LabelUpdate DEF Types, Labels, FiberLabels, EraserLabels, PthreadLabels, WakerLabels
<1>8. ~Suspended(f) /\ bw[f].container = None /\ \A k \in Wakers : f \notin ToSet(held[k])
  BY <1>1, <1>3, NowhereBefore DEF Suspended, Free, Holds
<1>9. Types'
  BY <1>1, <1>3, <1>4, <1>5, <1>6, <1>7, <1>2 DEF FiberRuns, Types
<1>10. \A w \in Waiters : bw'[w].container = bw[w].container
  BY <1>1, <1>3, <1>4, <1>5, <1>6, <1>7, <1>8
<1>11. QueueInv'
  BY <1>1, <1>10, QueuesKept
<1>12. \A w \in Waiters : SamePlace(w)
  BY <1>1, <1>4, <1>7, <1>8, <1>10 DEF FiberRuns, SamePlace, Waiters, Holds, InterruptWaking,
       TimerWaking, Woken, Suspended
<1>13. PlaceInv'
  BY <1>12, PlaceKept DEF PlaceInv
<1>14. WakerInv'
  BY <1>1, <1>3, <1>4, <1>5, <1>6, <1>7 DEF FiberRuns, WakerInv, OnlyFibers
<1>15. SeenInv'
  BY <1>1, <1>3, <1>4, <1>5, <1>6, <1>7 DEF FiberRuns, SeenInv
<1>16. TimerInv'
  BY <1>1, <1>3, <1>4, <1>5, <1>6, <1>7 DEF FiberRuns, TimerInv
<1>17. InterruptInv'
  BY <1>1, <1>3, <1>4, <1>5, <1>6, <1>7 DEF FiberRuns, InterruptInv
<1>18. LockInv'
  BY <1>1, <1>3, <1>4, <1>5, <1>6, <1>7 DEF FiberRuns, LockInv
<1>19. StateInv'
  BY <1>1, <1>4, <1>5, <1>6, <1>7, <1>8 DEF FiberRuns, StateInv, Holds
<1> QED
  BY <1>9, <1>11, <1>13, <1>14, <1>15, <1>16, <1>17, <1>18, <1>19 DEF IInv

\* wait_for_butex finds the value it expects.
LEMMA WaitForButexLockStep ==
  ASSUME IInv, NEW f \in Fibers, WaitForButexCheck(f),
         value[bw[f].home] = bw[f].expected, bw[f].state = "READY", ~interrupted[f]
  PROVE  IInv'
<1> USE DEF IInv
<1>1. /\ UNCHANGED <<value, waiters, bw, ready, sig, curWaiter, interrupted, seen, target,
                     held, next>>
      /\ pc[f] = "remained" /\ bw[f].home \in Butexes /\ lock[bw[f].home] = None
  BY DEF WaitForButexCheck, Goto, LockInv
<1>2. /\ lock' = [lock EXCEPT ![bw[f].home] = f] /\ pc' = [pc EXCEPT ![f] = "append"]
  BY DEF WaitForButexCheck, Goto, LockInv
<1>3. /\ lock'[bw[f].home] = f
      /\ \A y \in Butexes : y # bw[f].home => lock'[y] = lock[y]
  BY <1>1, <1>2 DEF Types
<1>4. FiberRuns(f, "append")
  BY <1>2, LabelUpdate DEF Types, Labels, FiberLabels, EraserLabels, PthreadLabels, WakerLabels
<1>5. Types'
  BY <1>1, <1>3, <1>4, <1>2 DEF FiberRuns, Types
<1>6. QueueInv'
  BY <1>1, QueuesKept
<1>7. \A w \in Waiters : SamePlace(w)
  BY <1>1, <1>3, <1>4 DEF FiberRuns, SamePlace, Waiters, Holds, InterruptWaking, TimerWaking,
       Woken, Suspended
<1>8. PlaceInv'
  BY <1>7, PlaceKept DEF PlaceInv
<1>9. WakerInv'
  BY <1>1, <1>3, <1>4 DEF FiberRuns, WakerInv, OnlyFibers
<1>10. SeenInv'
  BY <1>1, <1>3, <1>4 DEF FiberRuns, SeenInv
<1>11. TimerInv'
  BY <1>1, <1>3, <1>4, NowhereBefore DEF FiberRuns, TimerInv
<1>12. InterruptInv'
  BY <1>1, <1>3, <1>4 DEF FiberRuns, InterruptInv
<1>13. LockInv'
  BY <1>1, <1>3, <1>4, ActorKinds DEF FiberRuns, LockInv, Kinds
<1>14. StateInv'
  BY <1>1, <1>3, <1>4 DEF FiberRuns, StateInv, Holds
<1> QED
  BY <1>5, <1>6, <1>8, <1>9, <1>10, <1>11, <1>12, <1>13, <1>14 DEF IInv

\* wait_for_butex makes the fiber ready again at once.
LEMMA WaitForButexBackStep ==
  ASSUME IInv, NEW f \in Fibers, WaitForButexCheck(f),
         ~(value[bw[f].home] = bw[f].expected /\ bw[f].state = "READY" /\ ~interrupted[f])
  PROVE  IInv'
<1> DEFINE r == IF value[bw[f].home] # bw[f].expected
                    THEN [bw[f] EXCEPT !.state = "UNMATCHEDVALUE"] ELSE bw[f]
<1> USE DEF IInv
<1>1. /\ UNCHANGED <<value, waiters, lock, sig, curWaiter, interrupted, seen, target, held, next>>
      /\ pc[f] = "remained"
  BY DEF WaitForButexCheck, Goto, ReadyToRun, Types
<1>2. /\ bw' = [bw EXCEPT ![f] = r] /\ ready' = [ready EXCEPT ![f] = @ + 1]
      /\ pc' = [pc EXCEPT ![f] = "blocked"]
  BY DEF WaitForButexCheck, Goto, ReadyToRun, Types
<1>3. f \in Waiters
  BY DEF Waiters
<1>4. /\ ready'[f] = ready[f] + 1
      /\ \A y \in Fibers : y # f => ready'[y] = ready[y]
  BY <1>1, <1>2 DEF Types
<1>5. bw[f] \in ButexWaiter
  BY <1>3 DEF Types
<1>6. /\ r \in ButexWaiter /\ r.container = bw[f].container /\ r.sleep = bw[f].sleep
      /\ r.home = bw[f].home
  <2>1. r \in ButexWaiter
    BY <1>5, WaiterFields
  <2> QED
    BY <2>1, <1>5 DEF ButexWaiter
<1> HIDE DEF r
<1>7. /\ bw' \in [Waiters -> ButexWaiter] /\ bw'[f] = r
      /\ \A w \in Waiters : w # f => bw'[w] = bw[w]
      /\ \A g \in Fibers : g # f => bw'[g] = bw[g]
      /\ \A q \in Pthreads : q # f => bw'[q] = bw[q]
  BY <1>3, <1>2, <1>6, WaiterUpdate DEF Types
<1>8. FiberRuns(f, "blocked")
  BY <1>2, LabelUpdate DEF Types, Labels, FiberLabels, EraserLabels, PthreadLabels, WakerLabels
<1>9. ~Suspended(f) /\ bw[f].container = None /\ Free(f) /\ ready[f] = 0
  BY <1>1, <1>3, NowhereBefore DEF Suspended, Woken
<1>10. Types'
  BY <1>1, <1>3, <1>4, <1>6, <1>7, <1>8, <1>2 DEF FiberRuns, Types
<1>11. \A w \in Waiters : bw'[w].container = bw[w].container
  BY <1>1, <1>3, <1>4, <1>6, <1>7, <1>8, <1>9
<1>12. QueueInv'
  BY <1>1, <1>11, QueuesKept
<1>13. \A w \in Waiters : w # f => SamePlace(w)
  BY <1>1, <1>3, <1>4, <1>6, <1>7, <1>8, <1>11 DEF FiberRuns, SamePlace, Waiters, Holds,
       InterruptWaking, TimerWaking, Woken, Suspended
<1>14. Place(f)'
  BY <1>1, <1>4, <1>6, <1>7, <1>8, <1>9 DEF FiberRuns, Place, Free, Holds, InterruptWaking,
       TimerWaking, Woken, Suspended
<1>15. PlaceInv'
  BY <1>13, <1>14, PlaceKept DEF PlaceInv
<1>16. WakerInv'
  BY <1>1, <1>3, <1>4, <1>6, <1>7, <1>8 DEF FiberRuns, WakerInv, OnlyFibers
<1>17. SeenInv'
  BY <1>1, <1>3, <1>4, <1>6, <1>7, <1>8 DEF FiberRuns, SeenInv
<1>18. TimerInv'
  BY <1>1, <1>4, <1>6, <1>7, <1>8 DEF FiberRuns, TimerInv
<1>19. InterruptInv'
  BY <1>1, <1>3, <1>4, <1>6, <1>7, <1>8 DEF FiberRuns, InterruptInv
<1>20. LockInv'
  BY <1>1, <1>3, <1>4, <1>6, <1>7, <1>8 DEF FiberRuns, LockInv
<1>21. StateInv'
  BY <1>1, <1>4, <1>6, <1>7, <1>8, <1>9 DEF FiberRuns, StateInv, Holds, Free
<1> QED
  BY <1>10, <1>12, <1>15, <1>16, <1>17, <1>18, <1>19, <1>20, <1>21 DEF IInv

\* The waiter is queued under waiter_lock and its timer scheduled.
LEMMA WaitForButexAppendStep ==
  ASSUME IInv, NEW f \in Fibers, WaitForButexAppend(f)
  PROVE  IInv'
<1> DEFINE b == bw[f].home
           r == [bw[f] EXCEPT !.container = b, !.sleep = bw[f].timed]
           l == IF bw[f].timed THEN "scheduled" ELSE "idle"
<1> USE DEF IInv
<1>1. /\ UNCHANGED <<value, ready, sig, curWaiter, interrupted, seen, target, held, next>>
      /\ pc[f] = "append" /\ b \in Butexes /\ lock[b] = f /\ bw[f].state = "READY"
  BY DEF WaitForButexAppend, LockInv, StateInv, Types
<1>2. /\ bw' = [bw EXCEPT ![f] = r] /\ lock' = [lock EXCEPT ![b] = None]
      /\ pc' = [pc EXCEPT ![f] = "blocked", ![TimerOf(f)] = l]
  BY DEF WaitForButexAppend, LockInv, StateInv, Types
<1>3. f \in Waiters
  BY DEF Waiters
<1>4. /\ lock'[b] = None
      /\ \A y \in Butexes : y # b => lock'[y] = lock[y]
  BY <1>1, <1>2 DEF Types
<1>5. bw[f] \in ButexWaiter
  BY <1>3 DEF Types
<1>6. /\ r \in ButexWaiter /\ r.container = b /\ r.sleep = bw[f].timed
      /\ r.state = bw[f].state /\ r.home = b
  <2>1. bw[f].timed \in BOOLEAN /\ b \in Butexes
    BY <1>1, <1>5 DEF ButexWaiter
  <2>2. r \in ButexWaiter
    BY <2>1, <1>5, WaiterFields
  <2> QED
    BY <2>1, <2>2, <1>5 DEF ButexWaiter
<1> HIDE DEF b, r
<1>7. /\ bw' \in [Waiters -> ButexWaiter] /\ bw'[f] = r
      /\ \A w \in Waiters : w # f => bw'[w] = bw[w]
      /\ \A g \in Fibers : g # f => bw'[g] = bw[g]
      /\ \A q \in Pthreads : q # f => bw'[q] = bw[q]
  BY <1>3, <1>2, <1>6, WaiterUpdate DEF Types
<1>8. l \in {"scheduled", "idle"} /\ (l # "idle" => r.sleep) /\ l \in EraserLabels
  BY <1>6 DEF EraserLabels
<1> HIDE DEF l
<1>9. FiberSets(f, "blocked", l)
  BY <1>2, <1>8, TimerUpdate DEF Types, Labels, FiberLabels, EraserLabels, PthreadLabels,
       WakerLabels
<1>10. waiters' = [waiters EXCEPT ![b] = Append(@, f)]
  BY DEF WaitForButexAppend, b
<1>11. ~Suspended(f) /\ bw[f].container = None /\ Free(f) /\ ready[f] = 0
      /\ \A d \in Butexes : f \notin ToSet(waiters[d])
  BY <1>1, <1>3, NowhereBefore DEF Suspended, Woken
<1>12. /\ QueueInv' /\ waiters' \in [Butexes -> Seq(Waiters)]
  <2>1. /\ None \notin Butexes /\ bw[f].container = None /\ bw'[f].container = b
        /\ \A v \in Waiters : v # f => bw'[v].container = bw[v].container
    BY <1>6, <1>7, <1>11, ActorKinds DEF Kinds
  <2> QED
    BY <2>1, <1>1, <1>3, <1>10, QueueAppend DEF Types
<1>13. Types'
  BY <1>1, <1>2, <1>12, <1>7, <1>9 DEF FiberSets, Types
<1>14. \A w \in Waiters : w # f => SamePlace(w)
  BY <1>1, <1>4, <1>7, <1>9 DEF FiberSets, SamePlace, Waiters, Holds, InterruptWaking,
       TimerWaking, Woken, Suspended
<1>15. Place(f)'
  <2>1. Free(f)' /\ bw'[f].container # None /\ Suspended(f)' /\ Woken(f)' = 0
    BY <1>1, <1>6, <1>7, <1>8, <1>9, <1>11, ActorKinds DEF FiberSets, Kinds, Free, Holds,
         InterruptWaking, TimerWaking, Woken, Suspended
  <2> QED
    BY <2>1 DEF FiberSets, Place, Free
<1>16. PlaceInv'
  BY <1>14, <1>15, PlaceKept DEF PlaceInv
<1>17. WakerInv'
  BY <1>1, <1>3, <1>4, <1>6, <1>7, <1>9 DEF FiberSets, WakerInv, OnlyFibers
<1>18. SeenInv'
  BY <1>1, <1>8, <1>9 DEF FiberSets, SeenInv
<1>19. TimerInv'
  BY <1>1, <1>4, <1>6, <1>7, <1>8, <1>9 DEF FiberSets, TimerInv
<1>20. InterruptInv'
  BY <1>1, <1>3, <1>4, <1>6, <1>7, <1>9 DEF FiberSets, InterruptInv
<1>21. LockInv'
  BY <1>1, <1>3, <1>4, <1>6, <1>7, <1>9 DEF FiberSets, LockInv
<1>22. StateInv'
  BY <1>1, <1>3, <1>4, <1>6, <1>7, <1>9 DEF FiberSets, StateInv, Holds
<1> QED
  BY <1>13, <1>12, <1>16, <1>17, <1>18, <1>19, <1>20, <1>21, <1>22 DEF IInv

\* The woken fiber leaves its run queue entry behind.
LEMMA ResumeStep ==
  ASSUME IInv, NEW f \in Fibers, Resume(f)
  PROVE  IInv'
<1> USE DEF IInv
<1>1. /\ UNCHANGED <<value, waiters, lock, bw, sig, curWaiter, interrupted, seen, target, held,
                     next>>
      /\ pc[f] = "blocked" /\ ready[f] > 0
  BY DEF Resume, Goto
<1>2. /\ ready' = [ready EXCEPT ![f] = @ - 1] /\ pc' = [pc EXCEPT ![f] = "unsleep"]
  BY DEF Resume, Goto
<1>3. f \in Waiters
  BY DEF Waiters
<1>4. /\ ready'[f] = ready[f] - 1
      /\ \A y \in Fibers : y # f => ready'[y] = ready[y]
  BY <1>1, <1>2 DEF Types
<1>5. FiberRuns(f, "unsleep")
  BY <1>2, LabelUpdate DEF Types, Labels, FiberLabels, EraserLabels, PthreadLabels, WakerLabels
<1>6. ready[f] = 1 /\ bw[f].container = None /\ Free(f)
  BY <1>1, <1>3 DEF PlaceInv, Place, Woken, Types
<1>7. Types'
  BY <1>1, <1>2, <1>5, <1>6 DEF FiberRuns, Types
<1>8. QueueInv'
  BY <1>1, QueuesKept
<1>9. \A w \in Waiters : w # f => SamePlace(w)
  BY <1>1, <1>3, <1>4, <1>5 DEF FiberRuns, SamePlace, Waiters, Holds, InterruptWaking,
       TimerWaking, Woken, Suspended
<1>10. Place(f)'
  BY <1>1, <1>3, <1>4, <1>5, <1>6 DEF FiberRuns, PlaceInv, Place, Free, Holds, InterruptWaking,
       TimerWaking, Woken, Suspended
<1>11. PlaceInv'
  BY <1>9, <1>10, PlaceKept DEF PlaceInv
<1>12. WakerInv'
  BY <1>1, <1>3, <1>4, <1>5 DEF FiberRuns, WakerInv, OnlyFibers
<1>13. SeenInv'
  BY <1>1, <1>3, <1>4, <1>5 DEF FiberRuns, SeenInv
<1>14. TimerInv'
  BY <1>1, <1>3, <1>4, <1>5 DEF FiberRuns, TimerInv
<1>15. InterruptInv'
  BY <1>1, <1>3, <1>4, <1>5 DEF FiberRuns, InterruptInv
<1>16. LockInv'
  BY <1>1, <1>3, <1>4, <1>5 DEF FiberRuns, LockInv
<1>17. StateInv'
  BY <1>1, <1>3, <1>4, <1>5 DEF FiberRuns, StateInv, Holds
<1> QED
  BY <1>7, <1>8, <1>11, <1>12, <1>13, <1>14, <1>15, <1>16, <1>17 DEF IInv

\* The callback cannot be running when unsleep_if_necessary succeeds.
LEMMA UnsleepStep ==
  ASSUME IInv, NEW f \in Fibers, Unsleep(f)
  PROVE  IInv'
<1> DEFINE r == [bw[f] EXCEPT !.sleep = FALSE]
           l == IF bw[f].sleep THEN "idle" ELSE pc[TimerOf(f)]
<1> USE DEF IInv
<1>1. /\ UNCHANGED <<value, waiters, lock, ready, sig, curWaiter, interrupted, seen, target,
                     held, next>>
      /\ pc[f] = "unsleep"
      /\ bw[f].sleep => pc[TimerOf(f)] \in {"scheduled", "idle"}
  BY DEF Unsleep, UnsleepOk, Unschedule, Types, LabelTypes
<1>2. /\ bw' = [bw EXCEPT ![f] = r]
      /\ pc' = [pc EXCEPT ![f] = "consume", ![TimerOf(f)] = l]
  BY DEF Unsleep, UnsleepOk, Unschedule, Types, LabelTypes
<1>3. f \in Waiters
  BY DEF Waiters
<1>4. bw[f] \in ButexWaiter
  BY <1>3 DEF Types
<1>5. /\ r \in ButexWaiter /\ r.container = bw[f].container /\ ~r.sleep
      /\ r.state = bw[f].state /\ r.home = bw[f].home
  <2>1. r \in ButexWaiter
    BY <1>4, WaiterFields
  <2> QED
    BY <2>1, <1>4 DEF ButexWaiter
<1> HIDE DEF r
<1>6. /\ bw' \in [Waiters -> ButexWaiter] /\ bw'[f] = r
      /\ \A w \in Waiters : w # f => bw'[w] = bw[w]
      /\ \A g \in Fibers : g # f => bw'[g] = bw[g]
      /\ \A q \in Pthreads : q # f => bw'[q] = bw[q]
  BY <1>3, <1>2, <1>5, WaiterUpdate DEF Types
<1>7. l = "idle" /\ pc[TimerOf(f)] # "wakeup" /\ l \in EraserLabels
  BY <1>1 DEF TimerInv, EraserLabels
<1> HIDE DEF l
<1>8. FiberSets(f, "consume", l)
  BY <1>2, <1>7, TimerUpdate DEF Types, Labels, FiberLabels, EraserLabels, PthreadLabels,
       WakerLabels
<1>9. Types'
  BY <1>1, <1>3, <1>5, <1>6, <1>8, <1>2 DEF FiberSets, Types
<1>10. \A w \in Waiters : bw'[w].container = bw[w].container
  BY <1>5, <1>6
<1>11. QueueInv'
  BY <1>1, <1>10, QueuesKept
<1>12. \A w \in Waiters : SamePlace(w)
  BY <1>1, <1>7, <1>8, <1>10 DEF FiberSets, SamePlace, Waiters, Holds, InterruptWaking,
       TimerWaking, Woken, Suspended
<1>13. PlaceInv'
  BY <1>12, PlaceKept DEF PlaceInv
<1>14. WakerInv'
  BY <1>1, <1>3, <1>5, <1>6, <1>8 DEF FiberSets, WakerInv, OnlyFibers
<1>15. SeenInv'
  BY <1>1, <1>7, <1>8 DEF FiberSets, SeenInv
<1>16. TimerInv'
  BY <1>1, <1>5, <1>6, <1>7, <1>8 DEF FiberSets, TimerInv
<1>17. InterruptInv'
  BY <1>1, <1>3, <1>5, <1>6, <1>8 DEF FiberSets, InterruptInv
<1>18. LockInv'
  BY <1>1, <1>3, <1>5, <1>6, <1>8 DEF FiberSets, LockInv
<1>19. StateInv'
  BY <1>1, <1>3, <1>5, <1>6, <1>8 DEF FiberSets, StateInv, Holds
<1> QED
  BY <1>9, <1>11, <1>13, <1>14, <1>15, <1>16, <1>17, <1>18, <1>19 DEF IInv

\* No interrupter has the waiter once current_waiter is consumed.
LEMMA ConsumeWaiterStep ==
  ASSUME IInv, NEW f \in Fibers, ConsumeWaiter(f)
  PROVE  IInv'
<1> USE DEF IInv
<1>1. /\ UNCHANGED <<value, waiters, lock, bw, ready, sig, interrupted, seen, target, held, next>>
      /\ pc[f] = "consume" /\ curWaiter[f]
  BY DEF ConsumeWaiter, Goto
<1>2. /\ curWaiter' = [curWaiter EXCEPT ![f] = FALSE]
      /\ pc' = [pc EXCEPT ![f] = "finish"]
  BY DEF ConsumeWaiter, Goto
<1>3. /\ curWaiter'[f] = FALSE
      /\ \A y \in Fibers : y # f => curWaiter'[y] = curWaiter[y]
  BY <1>1, <1>2 DEF Types
<1>4. FiberRuns(f, "finish")
  BY <1>2, LabelUpdate DEF Types, Labels, FiberLabels, EraserLabels, PthreadLabels, WakerLabels
<1>5. Types'
  BY <1>1, <1>3, <1>4, <1>2 DEF FiberRuns, Types
<1>6. QueueInv'
  BY <1>1, QueuesKept
<1>7. \A w \in Waiters : SamePlace(w)
  BY <1>1, <1>3, <1>4 DEF FiberRuns, SamePlace, Waiters, Holds, InterruptWaking, TimerWaking,
       Woken, Suspended
<1>8. PlaceInv'
  BY <1>7, PlaceKept DEF PlaceInv
<1>9. WakerInv'
  BY <1>1, <1>3, <1>4 DEF FiberRuns, WakerInv, OnlyFibers
<1>10. SeenInv'
  BY <1>1, <1>3, <1>4 DEF FiberRuns, SeenInv
<1>11. TimerInv'
  BY <1>1, <1>3, <1>4 DEF FiberRuns, TimerInv
<1>12. InterruptInv'
  BY <1>1, <1>3, <1>4 DEF FiberRuns, InterruptInv
<1>13. LockInv'
  BY <1>1, <1>3, <1>4 DEF FiberRuns, LockInv
<1>14. StateInv'
  BY <1>1, <1>3, <1>4 DEF FiberRuns, StateInv, Holds
<1> QED
  BY <1>5, <1>6, <1>8, <1>9, <1>10, <1>11, <1>12, <1>13, <1>14 DEF IInv

\* The frame of the waiter goes; nobody refers to it.
LEMMA FiberReturnStep ==
  ASSUME IInv, NEW f \in Fibers, FiberReturn(f)
  PROVE  IInv'
<1> DEFINE r == NoWaiter
<1> USE DEF IInv
<1>1. /\ UNCHANGED <<value, waiters, lock, ready, sig, curWaiter, seen, target, held, next>>
      /\ pc[f] = "finish"
  BY DEF FiberReturn, Goto
<1>2. /\ interrupted' = [interrupted EXCEPT ![f] = FALSE] /\ bw' = [bw EXCEPT ![f] = r]
      /\ pc' = [pc EXCEPT ![f] = "idle"]
  BY DEF FiberReturn, Goto
<1>3. f \in Waiters
  BY DEF Waiters
<1>4. /\ interrupted'[f] = FALSE
      /\ \A y \in Fibers : y # f => interrupted'[y] = interrupted[y]
  BY <1>1, <1>2 DEF Types
<1>5. r \in ButexWaiter /\ r.container = None /\ ~r.sleep
  BY TimeoutsAssumption, ValueAssumption DEF ButexWaiter, NoWaiter
<1> HIDE DEF r
<1>6. /\ bw' \in [Waiters -> ButexWaiter] /\ bw'[f] = r
      /\ \A w \in Waiters : w # f => bw'[w] = bw[w]
      /\ \A g \in Fibers : g # f => bw'[g] = bw[g]
      /\ \A q \in Pthreads : q # f => bw'[q] = bw[q]
  BY <1>3, <1>2, <1>5, WaiterUpdate DEF Types
<1>7. FiberRuns(f, "idle")
  BY <1>2, LabelUpdate DEF Types, Labels, FiberLabels, EraserLabels, PthreadLabels, WakerLabels
<1>8. ~Suspended(f) /\ bw[f].container = None /\ \A k \in Wakers : f \notin ToSet(held[k])
  BY <1>1, <1>3, NowhereBefore DEF Suspended, Free, Holds
<1>9. Types'
  BY <1>1, <1>3, <1>4, <1>5, <1>6, <1>7, <1>2 DEF FiberRuns, Types
<1>10. \A w \in Waiters : bw'[w].container = bw[w].container
  BY <1>1, <1>3, <1>4, <1>5, <1>6, <1>7, <1>8
<1>11. QueueInv'
  BY <1>1, <1>10, QueuesKept
<1>12. \A w \in Waiters : SamePlace(w)
  BY <1>1, <1>4, <1>7, <1>8, <1>10 DEF FiberRuns, SamePlace, Waiters, Holds, InterruptWaking,
       TimerWaking, Woken, Suspended
<1>13. PlaceInv'
  BY <1>12, PlaceKept DEF PlaceInv
<1>14. WakerInv'
  BY <1>1, <1>3, <1>4, <1>5, <1>6, <1>7 DEF FiberRuns, WakerInv, OnlyFibers
<1>15. SeenInv'
  BY <1>1, <1>3, <1>4, <1>5, <1>6, <1>7 DEF FiberRuns, SeenInv
<1>16. TimerInv'
  BY <1>1, <1>3, <1>4, <1>5, <1>6, <1>7 DEF FiberRuns, TimerInv
<1>17. InterruptInv'
  BY <1>1, <1>3, <1>4, <1>5, <1>6, <1>7 DEF FiberRuns, InterruptInv
<1>18. LockInv'
  BY <1>1, <1>3, <1>4, <1>5, <1>6, <1>7 DEF FiberRuns, LockInv
<1>19. StateInv'
  BY <1>1, <1>4, <1>5, <1>6, <1>7, <1>8 DEF FiberRuns, StateInv, Holds
<1> QED
  BY <1>9, <1>11, <1>13, <1>14, <1>15, <1>16, <1>17, <1>18, <1>19 DEF IInv

-----------------------------------------------------------------------------
(* The timer callback *)

\* The timer thread starts the callback.
LEMMA TimerFireStep ==
  ASSUME IInv, NEW f \in Fibers, TimerFire(f)
  PROVE  IInv'
<1> USE DEF IInv
<1>1. /\ UNCHANGED <<value, waiters, lock, bw, ready, sig, curWaiter, interrupted, seen,
                     target, held, next>>
      /\ pc[TimerOf(f)] = "scheduled"
  BY DEF TimerFire, Goto
<1>2. pc' = [pc EXCEPT ![TimerOf(f)] = "load"]
  BY DEF TimerFire, Goto
<1>3. TimerRuns(f, "load")
  BY <1>2, LabelUpdate DEF Types, Labels, FiberLabels, EraserLabels, PthreadLabels, WakerLabels
<1>4. Types'
  BY <1>1, <1>3, <1>2 DEF TimerRuns, Types
<1>5. QueueInv'
  BY <1>1, QueuesKept
<1>6. \A w \in Waiters : SamePlace(w)
  BY <1>1, <1>3 DEF TimerRuns, SamePlace, Waiters, Holds, InterruptWaking, TimerWaking, Woken,
       Suspended
<1>7. PlaceInv'
  BY <1>6, PlaceKept DEF PlaceInv
<1>8. WakerInv'
  BY <1>1, <1>3 DEF TimerRuns, WakerInv, OnlyFibers
<1>9. SeenInv'
  BY <1>1, <1>3 DEF TimerRuns, SeenInv
<1>10. TimerInv'
  BY <1>1, <1>3 DEF TimerRuns, TimerInv
<1>11. InterruptInv'
  BY <1>1, <1>3 DEF TimerRuns, InterruptInv
<1>12. LockInv'
  BY <1>1, <1>3 DEF TimerRuns, LockInv
<1>13. StateInv'
  BY <1>1, <1>3 DEF TimerRuns, StateInv, Holds
<1> QED
  BY <1>4, <1>5, <1>7, <1>8, <1>9, <1>10, <1>11, <1>12, <1>13 DEF IInv

\* The callback loads the container.
LEMMA TimerLoadStep ==
  ASSUME IInv, NEW f \in Fibers, TimerLoad(f)
  PROVE  IInv'
<1> DEFINE l == IF bw[f].container = None THEN "idle" ELSE "lock"
<1> USE DEF IInv
<1>1. /\ UNCHANGED <<value, waiters, lock, bw, ready, sig, curWaiter, interrupted, target,
                     held, next>>
      /\ pc[TimerOf(f)] = "load"
  BY DEF TimerLoad, EraseLoad, Goto
<1>2. /\ seen' = [seen EXCEPT ![TimerOf(f)] = bw[f].container]
      /\ pc' = [pc EXCEPT ![TimerOf(f)] = l]
  BY DEF TimerLoad, EraseLoad, Goto
<1>3. /\ seen'[TimerOf(f)] = bw[f].container
      /\ \A y \in Fibers : y # f => seen'[TimerOf(y)] = seen[TimerOf(y)]
      /\ \A y \in Interrupters : seen'[y] = seen[y]
      /\ \A y \in Pthreads : seen'[y] = seen[y]
  BY <1>1, <1>2, ActorKinds DEF Types, Kinds
<1>4. l \in {"idle", "lock"} /\ (l = "lock" => bw[f].container \in Butexes)
  BY  DEF Types, ButexWaiter, Waiters
<1> HIDE DEF l
<1>5. TimerRuns(f, l)
  BY <1>2, <1>4, LabelUpdate DEF Types, Labels, FiberLabels, EraserLabels, PthreadLabels,
       WakerLabels
<1>6. Types'
  <2>1. bw[f].container \in Butexes \cup {None}
    BY DEF TimerRuns, Types, Waiters, ButexWaiter
  <2> QED
    BY <2>1, <1>1, <1>2, <1>5 DEF TimerRuns, Types
<1>7. QueueInv'
  BY <1>1, QueuesKept
<1>8. \A w \in Waiters : SamePlace(w)
  BY <1>1, <1>3, <1>4, <1>5 DEF TimerRuns, SamePlace, Waiters, Holds, InterruptWaking,
       TimerWaking, Woken, Suspended
<1>9. PlaceInv'
  BY <1>8, PlaceKept DEF PlaceInv
<1>10. WakerInv'
  BY <1>1, <1>3, <1>4, <1>5 DEF TimerRuns, WakerInv, OnlyFibers
<1>11. SeenInv'
  BY <1>1, <1>3, <1>4, <1>5 DEF TimerRuns, SeenInv
<1>12. TimerInv'
  BY <1>1, <1>3, <1>4, <1>5 DEF TimerRuns, TimerInv
<1>13. InterruptInv'
  BY <1>1, <1>3, <1>4, <1>5 DEF TimerRuns, InterruptInv
<1>14. LockInv'
  BY <1>1, <1>3, <1>4, <1>5 DEF TimerRuns, LockInv
<1>15. StateInv'
  BY <1>1, <1>3, <1>4, <1>5 DEF TimerRuns, StateInv, Holds
<1> QED
  BY <1>6, <1>7, <1>9, <1>10, <1>11, <1>12, <1>13, <1>14, <1>15 DEF IInv

\* The container has changed: the callback loads it again.
LEMMA TimerLockRetryStep ==
  ASSUME IInv, NEW f \in Fibers, bw[f].container # seen[TimerOf(f)], TimerLock(f)
  PROVE  IInv'
<1> USE DEF IInv
<1>1. /\ UNCHANGED <<value, waiters, lock, bw, ready, sig, curWaiter, interrupted, target,
                     held, next>>
      /\ pc[TimerOf(f)] = "lock"
  BY DEF TimerLock, EraseLock, Goto
<1>2. /\ seen' = [seen EXCEPT ![TimerOf(f)] = None]
      /\ pc' = [pc EXCEPT ![TimerOf(f)] = "load"]
  BY DEF TimerLock, EraseLock, Goto
<1>3. /\ seen'[TimerOf(f)] = None
      /\ \A y \in Fibers : y # f => seen'[TimerOf(y)] = seen[TimerOf(y)]
      /\ \A y \in Interrupters : seen'[y] = seen[y]
      /\ \A y \in Pthreads : seen'[y] = seen[y]
  BY <1>1, <1>2, ActorKinds DEF Types, Kinds
<1>4. TimerRuns(f, "load")
  BY <1>2, LabelUpdate DEF Types, Labels, FiberLabels, EraserLabels, PthreadLabels, WakerLabels
<1>5. Types'
  BY <1>1, <1>3, <1>4, <1>2 DEF TimerRuns, Types
<1>6. QueueInv'
  BY <1>1, QueuesKept
<1>7. \A w \in Waiters : SamePlace(w)
  BY <1>1, <1>3, <1>4 DEF TimerRuns, SamePlace, Waiters, Holds, InterruptWaking, TimerWaking,
       Woken, Suspended
<1>8. PlaceInv'
  BY <1>7, PlaceKept DEF PlaceInv
<1>9. WakerInv'
  BY <1>1, <1>3, <1>4 DEF TimerRuns, WakerInv, OnlyFibers
<1>10. SeenInv'
  BY <1>1, <1>3, <1>4 DEF TimerRuns, SeenInv
<1>11. TimerInv'
  BY <1>1, <1>3, <1>4 DEF TimerRuns, TimerInv
<1>12. InterruptInv'
  BY <1>1, <1>3, <1>4 DEF TimerRuns, InterruptInv
<1>13. LockInv'
  BY <1>1, <1>3, <1>4 DEF TimerRuns, LockInv
<1>14. StateInv'
  BY <1>1, <1>3, <1>4 DEF TimerRuns, StateInv, Holds
<1> QED
  BY <1>5, <1>6, <1>8, <1>9, <1>10, <1>11, <1>12, <1>13, <1>14 DEF IInv

\* The callback takes the fiber out of its queue.
LEMMA TimerLockEraseStep ==
  ASSUME IInv, NEW f \in Fibers, bw[f].container = seen[TimerOf(f)], TimerLock(f)
  PROVE  IInv'
<1> DEFINE r == [bw[f] EXCEPT !.container = None, !.state = "TIMEDOUT"]
<1> USE DEF IInv
<1>1. /\ UNCHANGED <<value, lock, ready, sig, curWaiter, interrupted, target, held, next>>
      /\ pc[TimerOf(f)] = "lock" /\ bw[f].container = seen[TimerOf(f)]
      /\ seen[TimerOf(f)] \in Butexes /\ f \in Fibers
  BY DEF TimerLock, EraseLock, Goto, Types, SeenInv, Waiters
<1>2. /\ seen' = [seen EXCEPT ![TimerOf(f)] = None] /\ bw' = [bw EXCEPT ![f] = r]
      /\ pc' = [pc EXCEPT ![TimerOf(f)] = "wakeup"]
  BY DEF TimerLock, EraseLock, Goto, Types, SeenInv, Waiters
<1>3. f \in Waiters
  BY DEF Waiters
<1>4. /\ seen'[TimerOf(f)] = None
      /\ \A y \in Fibers : y # f => seen'[TimerOf(y)] = seen[TimerOf(y)]
      /\ \A y \in Interrupters : seen'[y] = seen[y]
      /\ \A y \in Pthreads : seen'[y] = seen[y]
  BY <1>1, <1>2, ActorKinds DEF Types, Kinds
<1>5. bw[f] \in ButexWaiter
  BY <1>3 DEF Types
<1>6. r \in ButexWaiter /\ r.container = None /\ r.sleep = bw[f].sleep /\ r.home = bw[f].home
  <2>1. r \in ButexWaiter
    BY <1>5, WaiterFields
  <2> QED
    BY <2>1, <1>5 DEF ButexWaiter
<1> HIDE DEF r
<1>7. /\ bw' \in [Waiters -> ButexWaiter] /\ bw'[f] = r
      /\ \A w \in Waiters : w # f => bw'[w] = bw[w]
      /\ \A g \in Fibers : g # f => bw'[g] = bw[g]
      /\ \A q \in Pthreads : q # f => bw'[q] = bw[q]
  BY <1>3, <1>2, <1>6, WaiterUpdate DEF Types
<1>8. TimerRuns(f, "wakeup")
  BY <1>2, LabelUpdate DEF Types, Labels, FiberLabels, EraserLabels, PthreadLabels, WakerLabels
<1>9. waiters' = [waiters EXCEPT ![seen[TimerOf(f)]] = RemoveFirst(@, f)]
  BY DEF TimerLock, EraseLock
<1>10. Suspended(f) /\ Free(f) /\ Woken(f) = 0
  BY <1>3, <1>1, ActorKinds DEF Kinds, PlaceInv, Place
<1>11. QueueInv' /\ waiters' \in [Butexes -> Seq(Waiters)]
  <2>1. /\ None \notin Butexes /\ bw'[f].container = None
        /\ \A v \in Waiters : v # f => bw'[v].container = bw[v].container
    BY <1>6, <1>7, ActorKinds DEF Kinds
  <2> QED
    BY <2>1, <1>1, <1>3, <1>9, QueueErase DEF Types
<1>12. Types'
  BY <1>1, <1>2, <1>11, <1>7, <1>8 DEF TimerRuns, Types
<1>13. \A w \in Waiters : w # f => SamePlace(w)
  BY <1>1, <1>7, <1>8 DEF TimerRuns, SamePlace, Waiters, Holds, InterruptWaking, TimerWaking,
       Woken, Suspended
<1>14. Place(f)'
  BY <1>1, <1>6, <1>7, <1>8, <1>10, ActorKinds DEF TimerRuns, Kinds, Place, Free, Holds,
       InterruptWaking, TimerWaking, Woken, Suspended
<1>15. PlaceInv'
  BY <1>13, <1>14, PlaceKept DEF PlaceInv
<1>16. WakerInv'
  BY <1>1, <1>3, <1>4, <1>6, <1>7, <1>8 DEF TimerRuns, WakerInv, OnlyFibers
<1>17. SeenInv'
  BY <1>1, <1>3, <1>4, <1>6, <1>7, <1>8 DEF TimerRuns, SeenInv
<1>18. TimerInv'
  BY <1>1, <1>3, <1>4, <1>6, <1>7, <1>8 DEF TimerRuns, TimerInv
<1>19. InterruptInv'
  BY <1>1, <1>3, <1>4, <1>6, <1>7, <1>8 DEF TimerRuns, InterruptInv
<1>20. LockInv'
  BY <1>1, <1>3, <1>4, <1>6, <1>7, <1>8 DEF TimerRuns, LockInv
<1>21. StateInv'
  BY <1>1, <1>6, <1>7, <1>8, <1>10, ActorKinds DEF TimerRuns, Kinds, StateInv, Holds, Free,
       Suspended
<1> QED
  BY <1>12, <1>11, <1>15, <1>16, <1>17, <1>18, <1>19, <1>20, <1>21 DEF IInv

\* The callback makes the fiber ready.
LEMMA TimerWakeupStep ==
  ASSUME IInv, NEW f \in Fibers, TimerWakeup(f)
  PROVE  IInv'
<1> USE DEF IInv
<1>1. /\ UNCHANGED <<value, waiters, lock, bw, sig, curWaiter, interrupted, seen, target, held,
                     next>>
      /\ pc[TimerOf(f)] = "wakeup"
  BY DEF TimerWakeup, ReadyToRun, Goto, Types
<1>2. /\ ready' = [ready EXCEPT ![f] = @ + 1] /\ pc' = [pc EXCEPT ![TimerOf(f)] = "idle"]
  BY DEF TimerWakeup, ReadyToRun, Goto, Types
<1>3. f \in Waiters
  BY DEF Waiters
<1>4. /\ ready'[f] = ready[f] + 1
      /\ \A y \in Fibers : y # f => ready'[y] = ready[y]
  BY <1>1, <1>2 DEF Types
<1>5. TimerRuns(f, "idle")
  BY <1>2, LabelUpdate DEF Types, Labels, FiberLabels, EraserLabels, PthreadLabels, WakerLabels
<1>6. ready[f] = 0 /\ bw[f].container = None /\ Suspended(f)
  BY <1>1, <1>3, ActorKinds DEF Kinds, PlaceInv, Place, Free, Holds, InterruptWaking,
       TimerWaking, Woken, Suspended
<1>7. /\ \A k \in Wakers : ~Holds(k, f)
      /\ \A j \in Interrupters : InterruptWaking(j, f) => FALSE
  BY <1>1, <1>3 DEF PlaceInv, Place, InterruptWaking, TimerWaking
<1>8. Free(f)'
  BY <1>1, <1>7, <1>5, ActorKinds DEF TimerRuns, Kinds, Free, Holds, InterruptWaking,
       TimerWaking, Woken, Suspended
<1>9. Types'
  BY <1>1, <1>3, <1>4, <1>5, <1>2 DEF TimerRuns, Types
<1>10. QueueInv'
  BY <1>1, QueuesKept
<1>11. \A w \in Waiters : w # f => SamePlace(w)
  BY <1>1, <1>4, <1>5 DEF TimerRuns, SamePlace, Waiters, Holds, InterruptWaking, TimerWaking,
       Woken, Suspended
<1>12. Place(f)'
  <2>1. Woken(f)' = 1 /\ bw'[f].container = None /\ Suspended(f)'
    BY <1>1, <1>4, <1>5, <1>6 DEF TimerRuns, Holds, InterruptWaking, TimerWaking, Woken, Suspended
  <2> QED
    BY <2>1, <1>8 DEF TimerRuns, Place, Free
<1>13. PlaceInv'
  BY <1>11, <1>12, PlaceKept DEF PlaceInv
<1>14. WakerInv'
  BY <1>1, <1>3, <1>4, <1>5 DEF TimerRuns, WakerInv, OnlyFibers
<1>15. SeenInv'
  BY <1>1, <1>3, <1>4, <1>5 DEF TimerRuns, SeenInv
<1>16. TimerInv'
  BY <1>1, <1>3, <1>4, <1>5 DEF TimerRuns, TimerInv
<1>17. InterruptInv'
  BY <1>1, <1>3, <1>4, <1>5 DEF TimerRuns, InterruptInv
<1>18. LockInv'
  BY <1>1, <1>3, <1>4, <1>5 DEF TimerRuns, LockInv
<1>19. StateInv'
  BY <1>1, <1>3, <1>4, <1>5 DEF TimerRuns, StateInv, Holds
<1> QED
  BY <1>9, <1>10, <1>13, <1>14, <1>15, <1>16, <1>17, <1>18, <1>19 DEF IInv

-----------------------------------------------------------------------------
(* TaskGroup::interrupt *)

\* The interrupter loads the container.
LEMMA InterruptLoadStep ==
  ASSUME IInv, NEW i \in Interrupters, NEW f \in Fibers, target[i] = f, InterruptLoad(i)
  PROVE  IInv'
<1> DEFINE l == IF bw[f].container = None THEN "putback" ELSE "lock"
<1> USE DEF IInv
<1>1. /\ UNCHANGED <<value, waiters, lock, bw, ready, sig, curWaiter, interrupted, target,
                     held, next>>
      /\ pc[i] = "load"
  BY DEF InterruptLoad, EraseLoad, Goto
<1>2. /\ seen' = [seen EXCEPT ![i] = bw[f].container] /\ pc' = [pc EXCEPT ![i] = l]
  BY DEF InterruptLoad, EraseLoad, Goto
<1>3. /\ seen'[i] = bw[f].container
      /\ \A y \in Fibers : seen'[TimerOf(y)] = seen[TimerOf(y)]
      /\ \A y \in Interrupters : y # i => seen'[y] = seen[y]
      /\ \A y \in Pthreads : seen'[y] = seen[y]
  BY <1>1, <1>2, ActorKinds DEF Types, Kinds
<1>4. l \in {"putback", "lock"} /\ (l = "lock" => bw[f].container \in Butexes)
  BY  DEF Types, ButexWaiter, Waiters
<1> HIDE DEF l
<1>5. InterrupterRuns(i, l)
  BY <1>2, <1>4, LabelUpdate DEF Types, Labels, FiberLabels, EraserLabels, PthreadLabels,
       WakerLabels
<1>6. Types'
  <2>1. bw[f].container \in Butexes \cup {None}
    BY DEF InterrupterRuns, Types, Waiters, ButexWaiter
  <2> QED
    BY <2>1, <1>1, <1>2, <1>5 DEF InterrupterRuns, Types
<1>7. QueueInv'
  BY <1>1, QueuesKept
<1>8. \A w \in Waiters : SamePlace(w)
  BY <1>1, <1>3, <1>4, <1>5 DEF InterrupterRuns, SamePlace, Waiters, Holds, InterruptWaking,
       TimerWaking, Woken, Suspended
<1>9. PlaceInv'
  BY <1>8, PlaceKept DEF PlaceInv
<1>10. WakerInv'
  BY <1>1, <1>3, <1>4, <1>5 DEF InterrupterRuns, WakerInv, OnlyFibers
<1>11. SeenInv'
  BY <1>1, <1>3, <1>4, <1>5 DEF InterrupterRuns, SeenInv
<1>12. TimerInv'
  BY <1>1, <1>3, <1>4, <1>5 DEF InterrupterRuns, TimerInv
<1>13. InterruptInv'
  BY <1>1, <1>3, <1>4, <1>5 DEF InterrupterRuns, InterruptInv
<1>14. LockInv'
  BY <1>1, <1>3, <1>4, <1>5 DEF InterrupterRuns, LockInv
<1>15. StateInv'
  BY <1>1, <1>3, <1>4, <1>5 DEF InterrupterRuns, StateInv, Holds
<1> QED
  BY <1>6, <1>7, <1>9, <1>10, <1>11, <1>12, <1>13, <1>14, <1>15 DEF IInv

\* The container has changed: the interrupter loads it again.
LEMMA InterruptLockRetryStep ==
  ASSUME IInv, NEW i \in Interrupters, NEW f \in Fibers, target[i] = f, bw[f].container # seen[i],
         InterruptLock(i)
  PROVE  IInv'
<1> USE DEF IInv
<1>1. /\ UNCHANGED <<value, waiters, lock, bw, ready, sig, curWaiter, interrupted, target,
                     held, next>>
      /\ pc[i] = "lock"
  BY DEF InterruptLock, EraseLock, Goto
<1>2. /\ seen' = [seen EXCEPT ![i] = None] /\ pc' = [pc EXCEPT ![i] = "load"]
  BY DEF InterruptLock, EraseLock, Goto
<1>3. /\ seen'[i] = None
      /\ \A y \in Fibers : seen'[TimerOf(y)] = seen[TimerOf(y)]
      /\ \A y \in Interrupters : y # i => seen'[y] = seen[y]
      /\ \A y \in Pthreads : seen'[y] = seen[y]
  BY <1>1, <1>2, ActorKinds DEF Types, Kinds
<1>4. InterrupterRuns(i, "load")
  BY <1>2, LabelUpdate DEF Types, Labels, FiberLabels, EraserLabels, PthreadLabels, WakerLabels
<1>5. Types'
  BY <1>1, <1>3, <1>4, <1>2 DEF InterrupterRuns, Types
<1>6. QueueInv'
  BY <1>1, QueuesKept
<1>7. \A w \in Waiters : SamePlace(w)
  BY <1>1, <1>3, <1>4 DEF InterrupterRuns, SamePlace, Waiters, Holds, InterruptWaking,
       TimerWaking, Woken, Suspended
<1>8. PlaceInv'
  BY <1>7, PlaceKept DEF PlaceInv
<1>9. WakerInv'
  BY <1>1, <1>3, <1>4 DEF InterrupterRuns, WakerInv, OnlyFibers
<1>10. SeenInv'
  BY <1>1, <1>3, <1>4 DEF InterrupterRuns, SeenInv
<1>11. TimerInv'
  BY <1>1, <1>3, <1>4 DEF InterrupterRuns, TimerInv
<1>12. InterruptInv'
  BY <1>1, <1>3, <1>4 DEF InterrupterRuns, InterruptInv
<1>13. LockInv'
  BY <1>1, <1>3, <1>4 DEF InterrupterRuns, LockInv
<1>14. StateInv'
  BY <1>1, <1>3, <1>4 DEF InterrupterRuns, StateInv, Holds
<1> QED
  BY <1>5, <1>6, <1>8, <1>9, <1>10, <1>11, <1>12, <1>13, <1>14 DEF IInv

\* The interrupter takes the fiber out of its queue.
LEMMA InterruptLockEraseStep ==
  ASSUME IInv, NEW i \in Interrupters, NEW f \in Fibers, target[i] = f, bw[f].container = seen[i],
         InterruptLock(i)
  PROVE  IInv'
<1> DEFINE r == [bw[f] EXCEPT !.container = None, !.state = "INTERRUPTED"]
<1> USE DEF IInv
<1>1. /\ UNCHANGED <<value, lock, ready, sig, curWaiter, interrupted, target, held, next>>
      /\ pc[i] = "lock" /\ bw[f].container = seen[i] /\ seen[i] \in Butexes
      /\ f \in Fibers
  BY DEF InterruptLock, EraseLock, Goto, Types, SeenInv, Waiters
<1>2. /\ seen' = [seen EXCEPT ![i] = None] /\ bw' = [bw EXCEPT ![f] = r]
      /\ pc' = [pc EXCEPT ![i] = "wakeup"]
  BY DEF InterruptLock, EraseLock, Goto, Types, SeenInv, Waiters
<1>3. f \in Waiters
  BY DEF Waiters
<1>4. /\ seen'[i] = None
      /\ \A y \in Fibers : seen'[TimerOf(y)] = seen[TimerOf(y)]
      /\ \A y \in Interrupters : y # i => seen'[y] = seen[y]
      /\ \A y \in Pthreads : seen'[y] = seen[y]
  BY <1>1, <1>2, ActorKinds DEF Types, Kinds
<1>5. bw[f] \in ButexWaiter
  BY <1>3 DEF Types
<1>6. r \in ButexWaiter /\ r.container = None /\ r.sleep = bw[f].sleep /\ r.home = bw[f].home
  <2>1. r \in ButexWaiter
    BY <1>5, WaiterFields
  <2> QED
    BY <2>1, <1>5 DEF ButexWaiter
<1> HIDE DEF r
<1>7. /\ bw' \in [Waiters -> ButexWaiter] /\ bw'[f] = r
      /\ \A w \in Waiters : w # f => bw'[w] = bw[w]
      /\ \A g \in Fibers : g # f => bw'[g] = bw[g]
      /\ \A q \in Pthreads : q # f => bw'[q] = bw[q]
  BY <1>3, <1>2, <1>6, WaiterUpdate DEF Types
<1>8. InterrupterRuns(i, "wakeup")
  BY <1>2, LabelUpdate DEF Types, Labels, FiberLabels, EraserLabels, PthreadLabels, WakerLabels
<1>9. waiters' = [waiters EXCEPT ![seen[i]] = RemoveFirst(@, f)]
  BY DEF InterruptLock, EraseLock
<1>10. Suspended(f) /\ Free(f) /\ Woken(f) = 0
  BY <1>3, <1>1, ActorKinds DEF Kinds, PlaceInv, Place
<1>11. QueueInv' /\ waiters' \in [Butexes -> Seq(Waiters)]
  <2>1. /\ None \notin Butexes /\ bw'[f].container = None
        /\ \A v \in Waiters : v # f => bw'[v].container = bw[v].container
    BY <1>6, <1>7, ActorKinds DEF Kinds
  <2> QED
    BY <2>1, <1>1, <1>3, <1>9, QueueErase DEF Types
<1>12. Types'
  BY <1>1, <1>2, <1>11, <1>7, <1>8 DEF InterrupterRuns, Types
<1>13. \A w \in Waiters : w # f => SamePlace(w)
  BY <1>1, <1>7, <1>8 DEF InterrupterRuns, SamePlace, Waiters, Holds, InterruptWaking,
       TimerWaking, Woken, Suspended
<1>14. Place(f)'
  BY <1>1, <1>6, <1>7, <1>8, <1>10, ActorKinds DEF InterrupterRuns, Kinds, Place, Free, Holds,
       InterruptWaking, TimerWaking, Woken, Suspended
<1>15. PlaceInv'
  BY <1>13, <1>14, PlaceKept DEF PlaceInv
<1>16. WakerInv'
  BY <1>1, <1>3, <1>4, <1>6, <1>7, <1>8 DEF InterrupterRuns, WakerInv, OnlyFibers
<1>17. SeenInv'
  BY <1>1, <1>3, <1>4, <1>6, <1>7, <1>8 DEF InterrupterRuns, SeenInv
<1>18. TimerInv'
  BY <1>1, <1>3, <1>4, <1>6, <1>7, <1>8 DEF InterrupterRuns, TimerInv
<1>19. InterruptInv'
  BY <1>1, <1>3, <1>4, <1>6, <1>7, <1>8 DEF InterrupterRuns, InterruptInv
<1>20. LockInv'
  BY <1>1, <1>3, <1>4, <1>6, <1>7, <1>8 DEF InterrupterRuns, LockInv
<1>21. StateInv'
  BY <1>1, <1>6, <1>7, <1>8, <1>10, ActorKinds DEF InterrupterRuns, Kinds, StateInv, Holds,
       Free, Suspended
<1> QED
  BY <1>12, <1>11, <1>15, <1>16, <1>17, <1>18, <1>19, <1>20, <1>21 DEF IInv

\* The interrupter makes the fiber ready.
LEMMA InterruptWakeupStep ==
  ASSUME IInv, NEW i \in Interrupters, NEW f \in Fibers, target[i] = f, InterruptWakeup(i)
  PROVE  IInv'
<1> USE DEF IInv
<1>1. /\ UNCHANGED <<value, waiters, lock, bw, sig, curWaiter, interrupted, seen, target, held,
                     next>>
      /\ pc[i] = "wakeup" /\ target[i] = f
  BY DEF InterruptWakeup, ReadyToRun, Goto, Types
<1>2. /\ ready' = [ready EXCEPT ![f] = @ + 1] /\ pc' = [pc EXCEPT ![i] = "putback"]
  BY DEF InterruptWakeup, ReadyToRun, Goto, Types
<1>3. f \in Waiters
  BY DEF Waiters
<1>4. /\ ready'[f] = ready[f] + 1
      /\ \A y \in Fibers : y # f => ready'[y] = ready[y]
  BY <1>1, <1>2 DEF Types
<1>5. InterrupterRuns(i, "putback")
  BY <1>2, LabelUpdate DEF Types, Labels, FiberLabels, EraserLabels, PthreadLabels, WakerLabels
<1>6. ready[f] = 0 /\ bw[f].container = None /\ Suspended(f)
  BY <1>1, <1>3, ActorKinds DEF Kinds, PlaceInv, Place, Free, Holds, InterruptWaking,
       TimerWaking, Woken, Suspended
<1>7. /\ \A k \in Wakers : ~Holds(k, f)
      /\ \A j \in Interrupters : InterruptWaking(j, f) => j = i
      /\ ~TimerWaking(f)
  BY <1>1, <1>3 DEF PlaceInv, Place, InterruptWaking, TimerWaking, InterruptInv
<1>8. Free(f)'
  BY <1>1, <1>7, <1>5, ActorKinds DEF InterrupterRuns, Kinds, Free, Holds, InterruptWaking,
       TimerWaking, Woken, Suspended
<1>9. Types'
  BY <1>1, <1>3, <1>4, <1>5, <1>2 DEF InterrupterRuns, Types
<1>10. QueueInv'
  BY <1>1, QueuesKept
<1>11. \A w \in Waiters : w # f => SamePlace(w)
  BY <1>1, <1>4, <1>5 DEF InterrupterRuns, SamePlace, Waiters, Holds, InterruptWaking,
       TimerWaking, Woken, Suspended
<1>12. Place(f)'
  <2>1. Woken(f)' = 1 /\ bw'[f].container = None /\ Suspended(f)'
    BY <1>1, <1>4, <1>5, <1>6 DEF InterrupterRuns, Holds, InterruptWaking, TimerWaking, Woken,
         Suspended
  <2> QED
    BY <2>1, <1>8 DEF InterrupterRuns, Place, Free
<1>13. PlaceInv'
  BY <1>11, <1>12, PlaceKept DEF PlaceInv
<1>14. WakerInv'
  BY <1>1, <1>3, <1>4, <1>5 DEF InterrupterRuns, WakerInv, OnlyFibers
<1>15. SeenInv'
  BY <1>1, <1>3, <1>4, <1>5 DEF InterrupterRuns, SeenInv
<1>16. TimerInv'
  BY <1>1, <1>3, <1>4, <1>5 DEF InterrupterRuns, TimerInv
<1>17. InterruptInv'
  BY <1>1, <1>3, <1>4, <1>5 DEF InterrupterRuns, InterruptInv
<1>18. LockInv'
  BY <1>1, <1>3, <1>4, <1>5 DEF InterrupterRuns, LockInv
<1>19. StateInv'
  BY <1>1, <1>3, <1>4, <1>5 DEF InterrupterRuns, StateInv, Holds
<1> QED
  BY <1>9, <1>10, <1>13, <1>14, <1>15, <1>16, <1>17, <1>18, <1>19 DEF IInv

\* The interrupter takes the waiter from current_waiter.
LEMMA InterruptConsumeStep ==
  ASSUME IInv, NEW i \in Interrupters, NEW f \in Fibers, InterruptConsume(i, f), curWaiter[f]
  PROVE  IInv'
<1> USE DEF IInv
<1>1. /\ UNCHANGED <<value, waiters, lock, bw, ready, sig, seen, held, next>>
      /\ pc[i] = "idle" /\ curWaiter[f]
  BY DEF InterruptConsume, Goto
<1>2. /\ curWaiter' = [curWaiter EXCEPT ![f] = FALSE]
      /\ interrupted' = [interrupted EXCEPT ![f] = TRUE]
      /\ target' = [target EXCEPT ![i] = f] /\ pc' = [pc EXCEPT ![i] = "load"]
  BY DEF InterruptConsume, Goto
<1>3. /\ curWaiter'[f] = FALSE
      /\ \A y \in Fibers : y # f => curWaiter'[y] = curWaiter[y]
      /\ interrupted'[f] = TRUE
      /\ \A y \in Fibers : y # f => interrupted'[y] = interrupted[y]
      /\ target'[i] = f
      /\ \A y \in Interrupters : y # i => target'[y] = target[y]
      /\ \A y \in Wakers : target'[y] = target[y]
  BY <1>1, <1>2, ActorKinds DEF Types, Kinds
<1>4. InterrupterRuns(i, "load")
  BY <1>2, LabelUpdate DEF Types, Labels, FiberLabels, EraserLabels, PthreadLabels, WakerLabels
<1>5. f # None /\ pc[f] \notin {"idle", "finish"} /\ \A j \in Interrupters : target[j] # f
  BY <1>1, ActorKinds DEF Kinds, InterruptInv
<1>6. Types'
  BY <1>1, <1>3, <1>4, <1>2 DEF InterrupterRuns, Types
<1>7. QueueInv'
  BY <1>1, QueuesKept
<1>8. \A w \in Waiters : SamePlace(w)
  BY <1>1, <1>3, <1>4 DEF InterrupterRuns, SamePlace, Waiters, Holds, InterruptWaking,
       TimerWaking, Woken, Suspended
<1>9. PlaceInv'
  BY <1>8, PlaceKept DEF PlaceInv
<1>10. WakerInv'
  BY <1>1, <1>3, <1>4 DEF InterrupterRuns, WakerInv, OnlyFibers
<1>11. SeenInv'
  BY <1>1, <1>3, <1>4 DEF InterrupterRuns, SeenInv
<1>12. TimerInv'
  BY <1>1, <1>3, <1>4 DEF InterrupterRuns, TimerInv
<1>13. InterruptInv'
  BY <1>1, <1>3, <1>4, <1>5 DEF InterrupterRuns, InterruptInv
<1>14. LockInv'
  BY <1>1, <1>3, <1>4 DEF InterrupterRuns, LockInv
<1>15. StateInv'
  BY <1>1, <1>3, <1>4 DEF InterrupterRuns, StateInv, Holds
<1> QED
  BY <1>6, <1>7, <1>9, <1>10, <1>11, <1>12, <1>13, <1>14, <1>15 DEF IInv

\* There is no waiter to take.
LEMMA InterruptNobodyStep ==
  ASSUME IInv, NEW i \in Interrupters, NEW f \in Fibers, InterruptConsume(i, f), ~curWaiter[f]
  PROVE  IInv'
<1> USE DEF IInv
<1>1. /\ UNCHANGED <<value, waiters, lock, bw, ready, sig, pc, seen, target, held, next>>
  BY DEF InterruptConsume, Goto, Types
<1>2. /\ curWaiter' = [curWaiter EXCEPT ![f] = FALSE]
      /\ interrupted' = [interrupted EXCEPT ![f] = TRUE]
  BY DEF InterruptConsume, Goto, Types
<1>3. /\ curWaiter'[f] = FALSE
      /\ \A y \in Fibers : y # f => curWaiter'[y] = curWaiter[y]
      /\ interrupted'[f] = TRUE
      /\ \A y \in Fibers : y # f => interrupted'[y] = interrupted[y]
  BY <1>1, <1>2 DEF Types
<1>4. Types'
  BY <1>1, <1>2 DEF Types, LabelTypes
<1>5. QueueInv'
  BY <1>1, QueuesKept
<1>6. \A w \in Waiters : SamePlace(w)
  BY <1>1, <1>3 DEF SamePlace, Waiters, Holds, InterruptWaking, TimerWaking, Woken, Suspended
<1>7. PlaceInv'
  BY <1>6, PlaceKept DEF PlaceInv
<1>8. WakerInv'
  BY <1>1, <1>3 DEF WakerInv, OnlyFibers
<1>9. SeenInv'
  BY <1>1, <1>3 DEF SeenInv
<1>10. TimerInv'
  BY <1>1, <1>3 DEF TimerInv
<1>11. InterruptInv'
  BY <1>1, <1>3 DEF InterruptInv
<1>12. LockInv'
  BY <1>1, <1>3 DEF LockInv
<1>13. StateInv'
  BY <1>1, <1>3 DEF StateInv, Holds
<1> QED
  BY <1>4, <1>5, <1>7, <1>8, <1>9, <1>10, <1>11, <1>12, <1>13 DEF IInv

\* set_butex_waiter.
LEMMA InterruptPutBackStep ==
  ASSUME IInv, NEW i \in Interrupters, NEW f \in Fibers, target[i] = f, InterruptPutBack(i)
  PROVE  IInv'
<1> USE DEF IInv
<1>1. /\ UNCHANGED <<value, waiters, lock, bw, ready, sig, interrupted, seen, held, next>>
      /\ pc[i] = "putback"
  BY DEF InterruptPutBack, Goto
<1>2. /\ curWaiter' = [curWaiter EXCEPT ![f] = TRUE]
      /\ target' = [target EXCEPT ![i] = None] /\ pc' = [pc EXCEPT ![i] = "idle"]
  BY DEF InterruptPutBack, Goto
<1>3. /\ curWaiter'[f] = TRUE
      /\ \A y \in Fibers : y # f => curWaiter'[y] = curWaiter[y]
      /\ target'[i] = None
      /\ \A y \in Interrupters : y # i => target'[y] = target[y]
      /\ \A y \in Wakers : target'[y] = target[y]
  BY <1>1, <1>2, ActorKinds DEF Types, Kinds
<1>4. InterrupterRuns(i, "idle")
  BY <1>2, LabelUpdate DEF Types, Labels, FiberLabels, EraserLabels, PthreadLabels, WakerLabels
<1>5. Types'
  BY <1>1, <1>3, <1>4, <1>2 DEF InterrupterRuns, Types
<1>6. QueueInv'
  BY <1>1, QueuesKept
<1>7. \A w \in Waiters : SamePlace(w)
  BY <1>1, <1>3, <1>4 DEF InterrupterRuns, SamePlace, Waiters, Holds, InterruptWaking,
       TimerWaking, Woken, Suspended
<1>8. PlaceInv'
  BY <1>7, PlaceKept DEF PlaceInv
<1>9. WakerInv'
  BY <1>1, <1>3, <1>4 DEF InterrupterRuns, WakerInv, OnlyFibers
<1>10. SeenInv'
  BY <1>1, <1>3, <1>4 DEF InterrupterRuns, SeenInv
<1>11. TimerInv'
  BY <1>1, <1>3, <1>4 DEF InterrupterRuns, TimerInv
<1>12. InterruptInv'
  BY <1>1, <1>3, <1>4 DEF InterrupterRuns, InterruptInv
<1>13. LockInv'
  BY <1>1, <1>3, <1>4 DEF InterrupterRuns, LockInv
<1>14. StateInv'
  BY <1>1, <1>3, <1>4 DEF InterrupterRuns, StateInv, Holds
<1> QED
  BY <1>5, <1>6, <1>8, <1>9, <1>10, <1>11, <1>12, <1>13, <1>14 DEF IInv

-----------------------------------------------------------------------------
(* Pthreads *)

\* The pthread queues itself.
LEMMA PthreadWaitStep ==
  ASSUME IInv, NEW p \in Pthreads, NEW b \in Butexes, NEW e \in 0..MaxValue,
         NEW timed \in Timeouts, PthreadWait(p, b, e, timed)
  PROVE  IInv'
<1> DEFINE r == [NoWaiter EXCEPT !.container = b, !.home = b, !.expected = e, !.timed = timed]
<1> USE DEF IInv
<1>1. /\ UNCHANGED <<value, lock, ready, sig, curWaiter, interrupted, seen, target, held, next>>
      /\ pc[p] = "idle" /\ b # None
  BY ActorKinds DEF Kinds, PthreadWait, Goto
<1>2. /\ bw' = [bw EXCEPT ![p] = r] /\ pc' = [pc EXCEPT ![p] = "blocked"]
  BY ActorKinds DEF Kinds, PthreadWait, Goto
<1>3. p \in Waiters
  BY DEF Waiters
<1>4. r \in ButexWaiter /\ r.container = b
  BY TimeoutsAssumption, ValueAssumption DEF ButexWaiter, NoWaiter
<1> HIDE DEF r
<1>5. /\ bw' \in [Waiters -> ButexWaiter] /\ bw'[p] = r
      /\ \A w \in Waiters : w # p => bw'[w] = bw[w]
      /\ \A g \in Fibers : g # p => bw'[g] = bw[g]
      /\ \A q \in Pthreads : q # p => bw'[q] = bw[q]
  BY <1>3, <1>2, <1>4, WaiterUpdate DEF Types
<1>6. PthreadRuns(p, "blocked")
  BY <1>2, LabelUpdate DEF Types, Labels, FiberLabels, EraserLabels, PthreadLabels, WakerLabels
<1>7. waiters' = [waiters EXCEPT ![b] = Append(@, p)]
  BY DEF PthreadWait
<1>8. ~Suspended(p) /\ bw[p].container = None /\ Free(p) /\ Woken(p) = 0
  BY <1>1, <1>3, NowhereBefore DEF Suspended
<1>9. QueueInv' /\ waiters' \in [Butexes -> Seq(Waiters)]
  <2>1. /\ None \notin Butexes /\ bw'[p].container = b
        /\ \A v \in Waiters : v # p => bw'[v].container = bw[v].container
    BY <1>4, <1>5, ActorKinds DEF Kinds
  <2> QED
    BY <2>1, <1>1, <1>3, <1>7, <1>8, QueueAppend DEF Types
<1>10. Types'
  BY <1>1, <1>2, <1>9, <1>5, <1>6 DEF PthreadRuns, Types
<1>11. \A w \in Waiters : w # p => SamePlace(w)
  BY <1>1, <1>5, <1>6 DEF PthreadRuns, SamePlace, Waiters, Holds, InterruptWaking, TimerWaking,
       Woken, Suspended
<1>12. Place(p)'
  <2>1. Free(p)' /\ bw'[p].container # None /\ Suspended(p)' /\ Woken(p)' = 0
    BY <1>1, <1>4, <1>5, <1>6, <1>8, ActorKinds DEF PthreadRuns, Kinds, Free, Holds,
         InterruptWaking, TimerWaking, Woken, Suspended
  <2> QED
    BY <2>1 DEF PthreadRuns, Place, Free
<1>13. PlaceInv'
  BY <1>11, <1>12, PlaceKept DEF PlaceInv
<1>14. WakerInv'
  BY <1>1, <1>3, <1>4, <1>5, <1>6 DEF PthreadRuns, WakerInv, OnlyFibers
<1>15. SeenInv'
  BY <1>1, <1>3, <1>4, <1>5, <1>6 DEF PthreadRuns, SeenInv
<1>16. TimerInv'
  BY <1>1, <1>5, <1>6, ActorKinds DEF PthreadRuns, Kinds, TimerInv
<1>17. InterruptInv'
  BY <1>1, <1>6, ActorKinds DEF PthreadRuns, Kinds, InterruptInv
<1>18. LockInv'
  BY <1>1, <1>5, <1>6, ActorKinds DEF PthreadRuns, Kinds, LockInv
<1>19. StateInv'
  BY <1>1, <1>5, <1>6, ActorKinds DEF PthreadRuns, Kinds, StateInv, Holds
<1> QED
  BY <1>10, <1>9, <1>13, <1>14, <1>15, <1>16, <1>17, <1>18, <1>19 DEF IInv

\* The pthread returns when it was signalled or has erased itself.
LEMMA PthreadReturnStep ==
  ASSUME IInv, NEW p \in Pthreads,
         pc[p] = "erased" \/ sig[p], pc[p] # "idle", PthreadReturn(p),
         UNCHANGED <<value, waiters, lock, ready, curWaiter, interrupted, seen, target, held,
                     next>>
  PROVE  IInv'
<1> DEFINE r == NoWaiter
<1> USE DEF IInv
<1>1. /\ UNCHANGED <<value, waiters, lock, ready, curWaiter, interrupted, seen, target, held,
                     next>>
  BY DEF PthreadReturn, Goto
<1>2. /\ bw' = [bw EXCEPT ![p] = r] /\ sig' = [sig EXCEPT ![p] = FALSE]
      /\ pc' = [pc EXCEPT ![p] = "idle"]
  BY DEF PthreadReturn, Goto
<1>3. p \in Waiters
  BY DEF Waiters
<1>4. /\ sig'[p] = FALSE
      /\ \A y \in Pthreads : y # p => sig'[y] = sig[y]
  BY <1>1, <1>2 DEF Types
<1>5. r \in ButexWaiter /\ r.container = None
  BY TimeoutsAssumption, ValueAssumption DEF ButexWaiter, NoWaiter
<1> HIDE DEF r
<1>6. /\ bw' \in [Waiters -> ButexWaiter] /\ bw'[p] = r
      /\ \A w \in Waiters : w # p => bw'[w] = bw[w]
      /\ \A g \in Fibers : g # p => bw'[g] = bw[g]
      /\ \A q \in Pthreads : q # p => bw'[q] = bw[q]
  BY <1>3, <1>2, <1>5, WaiterUpdate DEF Types
<1>7. PthreadRuns(p, "idle")
  BY <1>2, LabelUpdate DEF Types, Labels, FiberLabels, EraserLabels, PthreadLabels, WakerLabels
<1>8. bw[p].container = None /\ Free(p)
  BY <1>3, ActorKinds DEF Kinds, PlaceInv, Place, Woken, Suspended
<1>9. Types'
  BY <1>1, <1>3, <1>4, <1>5, <1>6, <1>7, <1>2 DEF PthreadRuns, Types
<1>10. \A w \in Waiters : bw'[w].container = bw[w].container
  BY <1>5, <1>6, <1>8
<1>11. QueueInv'
  BY <1>1, <1>10, QueuesKept
<1>12. \A w \in Waiters : w # p => SamePlace(w)
  BY <1>1, <1>4, <1>10, <1>7 DEF PthreadRuns, SamePlace, Waiters, Holds, InterruptWaking,
       TimerWaking, Woken, Suspended
<1>13. Place(p)'
  <2>1. Free(p)' /\ bw'[p].container = None /\ ~Suspended(p)' /\ Woken(p)' = 0
    BY <1>1, <1>4, <1>5, <1>6, <1>7, <1>8, ActorKinds DEF PthreadRuns, Kinds, Free, Holds,
         InterruptWaking, TimerWaking, Woken, Suspended
  <2> QED
    BY <2>1 DEF PthreadRuns, Place, Free
<1>14. PlaceInv'
  BY <1>12, <1>13, PlaceKept DEF PlaceInv
<1>15. WakerInv'
  BY <1>1, <1>3, <1>4, <1>5, <1>6, <1>7 DEF PthreadRuns, WakerInv, OnlyFibers
<1>16. SeenInv'
  BY <1>1, <1>3, <1>4, <1>5, <1>6, <1>7 DEF PthreadRuns, SeenInv
<1>17. TimerInv'
  BY <1>1, <1>6, <1>7, ActorKinds DEF PthreadRuns, Kinds, TimerInv
<1>18. InterruptInv'
  BY <1>1, <1>7, ActorKinds DEF PthreadRuns, Kinds, InterruptInv
<1>19. LockInv'
  BY <1>1, <1>6, <1>7, ActorKinds DEF PthreadRuns, Kinds, LockInv
<1>20. StateInv'
  BY <1>1, <1>6, <1>7, ActorKinds DEF PthreadRuns, Kinds, StateInv, Holds
<1> QED
  BY <1>9, <1>11, <1>14, <1>15, <1>16, <1>17, <1>18, <1>19, <1>20 DEF IInv

\* futex_wait times out.
LEMMA PthreadTimeoutStep ==
  ASSUME IInv, NEW p \in Pthreads, PthreadTimeout(p)
  PROVE  IInv'
<1> USE DEF IInv
<1>1. /\ UNCHANGED <<value, waiters, lock, bw, ready, sig, curWaiter, interrupted, seen,
                     target, held, next>>
      /\ pc[p] = "blocked"
  BY DEF PthreadTimeout, Goto
<1>2. pc' = [pc EXCEPT ![p] = "load"]
  BY DEF PthreadTimeout, Goto
<1>3. PthreadRuns(p, "load")
  BY <1>2, LabelUpdate DEF Types, Labels, FiberLabels, EraserLabels, PthreadLabels, WakerLabels
<1>4. Types'
  BY <1>1, <1>3, <1>2 DEF PthreadRuns, Types
<1>5. QueueInv'
  BY <1>1, QueuesKept
<1>6. \A w \in Waiters : SamePlace(w)
  BY <1>1, <1>3 DEF PthreadRuns, SamePlace, Waiters, Holds, InterruptWaking, TimerWaking, Woken,
       Suspended
<1>7. PlaceInv'
  BY <1>6, PlaceKept DEF PlaceInv
<1>8. WakerInv'
  BY <1>1, <1>3 DEF PthreadRuns, WakerInv, OnlyFibers
<1>9. SeenInv'
  BY <1>1, <1>3 DEF PthreadRuns, SeenInv
<1>10. TimerInv'
  BY <1>1, <1>3 DEF PthreadRuns, TimerInv
<1>11. InterruptInv'
  BY <1>1, <1>3 DEF PthreadRuns, InterruptInv
<1>12. LockInv'
  BY <1>1, <1>3 DEF PthreadRuns, LockInv
<1>13. StateInv'
  BY <1>1, <1>3 DEF PthreadRuns, StateInv, Holds
<1> QED
  BY <1>4, <1>5, <1>7, <1>8, <1>9, <1>10, <1>11, <1>12, <1>13 DEF IInv

\* The pthread loads its container.
LEMMA PthreadEraseLoadStep ==
  ASSUME IInv, NEW p \in Pthreads, PthreadEraseLoad(p)
  PROVE  IInv'
<1> DEFINE l == IF bw[p].container = None THEN "notErased" ELSE "lock"
<1> USE DEF IInv
<1>1. /\ UNCHANGED <<value, waiters, lock, bw, ready, sig, curWaiter, interrupted, target,
                     held, next>>
      /\ pc[p] = "load"
  BY DEF PthreadEraseLoad, EraseLoad, Goto
<1>2. /\ seen' = [seen EXCEPT ![p] = bw[p].container] /\ pc' = [pc EXCEPT ![p] = l]
  BY DEF PthreadEraseLoad, EraseLoad, Goto
<1>3. /\ seen'[p] = bw[p].container
      /\ \A y \in Fibers : seen'[TimerOf(y)] = seen[TimerOf(y)]
      /\ \A y \in Interrupters : seen'[y] = seen[y]
      /\ \A y \in Pthreads : y # p => seen'[y] = seen[y]
  BY <1>1, <1>2, ActorKinds DEF Types, Kinds
<1>4. l \in {"notErased", "lock"} /\ (l = "lock" => bw[p].container \in Butexes)
  BY  DEF Types, ButexWaiter, Waiters
<1> HIDE DEF l
<1>5. PthreadRuns(p, l)
  BY <1>2, <1>4, LabelUpdate DEF Types, Labels, FiberLabels, EraserLabels, PthreadLabels,
       WakerLabels
<1>6. Types'
  <2>1. bw[p].container \in Butexes \cup {None}
    BY DEF PthreadRuns, Types, Waiters, ButexWaiter
  <2> QED
    BY <2>1, <1>1, <1>2, <1>5 DEF PthreadRuns, Types
<1>7. QueueInv'
  BY <1>1, QueuesKept
<1>8. \A w \in Waiters : SamePlace(w)
  BY <1>1, <1>3, <1>4, <1>5 DEF PthreadRuns, SamePlace, Waiters, Holds, InterruptWaking,
       TimerWaking, Woken, Suspended
<1>9. PlaceInv'
  BY <1>8, PlaceKept DEF PlaceInv
<1>10. WakerInv'
  BY <1>1, <1>3, <1>4, <1>5 DEF PthreadRuns, WakerInv, OnlyFibers
<1>11. SeenInv'
  BY <1>1, <1>3, <1>4, <1>5 DEF PthreadRuns, SeenInv
<1>12. TimerInv'
  BY <1>1, <1>3, <1>4, <1>5 DEF PthreadRuns, TimerInv
<1>13. InterruptInv'
  BY <1>1, <1>3, <1>4, <1>5 DEF PthreadRuns, InterruptInv
<1>14. LockInv'
  BY <1>1, <1>3, <1>4, <1>5 DEF PthreadRuns, LockInv
<1>15. StateInv'
  BY <1>1, <1>3, <1>4, <1>5 DEF PthreadRuns, StateInv, Holds
<1> QED
  BY <1>6, <1>7, <1>9, <1>10, <1>11, <1>12, <1>13, <1>14, <1>15 DEF IInv

\* The container has changed: the pthread loads it again.
LEMMA PthreadEraseLockRetryStep ==
  ASSUME IInv, NEW p \in Pthreads, bw[p].container # seen[p], PthreadEraseLock(p)
  PROVE  IInv'
<1> USE DEF IInv
<1>1. /\ UNCHANGED <<value, waiters, lock, bw, ready, sig, curWaiter, interrupted, target,
                     held, next>>
      /\ pc[p] = "lock"
  BY DEF PthreadEraseLock, EraseLock, Goto
<1>2. /\ seen' = [seen EXCEPT ![p] = None] /\ pc' = [pc EXCEPT ![p] = "load"]
  BY DEF PthreadEraseLock, EraseLock, Goto
<1>3. /\ seen'[p] = None
      /\ \A y \in Fibers : seen'[TimerOf(y)] = seen[TimerOf(y)]
      /\ \A y \in Interrupters : seen'[y] = seen[y]
      /\ \A y \in Pthreads : y # p => seen'[y] = seen[y]
  BY <1>1, <1>2, ActorKinds DEF Types, Kinds
<1>4. PthreadRuns(p, "load")
  BY <1>2, LabelUpdate DEF Types, Labels, FiberLabels, EraserLabels, PthreadLabels, WakerLabels
<1>5. Types'
  BY <1>1, <1>3, <1>4, <1>2 DEF PthreadRuns, Types
<1>6. QueueInv'
  BY <1>1, QueuesKept
<1>7. \A w \in Waiters : SamePlace(w)
  BY <1>1, <1>3, <1>4 DEF PthreadRuns, SamePlace, Waiters, Holds, InterruptWaking, TimerWaking,
       Woken, Suspended
<1>8. PlaceInv'
  BY <1>7, PlaceKept DEF PlaceInv
<1>9. WakerInv'
  BY <1>1, <1>3, <1>4 DEF PthreadRuns, WakerInv, OnlyFibers
<1>10. SeenInv'
  BY <1>1, <1>3, <1>4 DEF PthreadRuns, SeenInv
<1>11. TimerInv'
  BY <1>1, <1>3, <1>4 DEF PthreadRuns, TimerInv
<1>12. InterruptInv'
  BY <1>1, <1>3, <1>4 DEF PthreadRuns, InterruptInv
<1>13. LockInv'
  BY <1>1, <1>3, <1>4 DEF PthreadRuns, LockInv
<1>14. StateInv'
  BY <1>1, <1>3, <1>4 DEF PthreadRuns, StateInv, Holds
<1> QED
  BY <1>5, <1>6, <1>8, <1>9, <1>10, <1>11, <1>12, <1>13, <1>14 DEF IInv

\* The pthread takes itself out of its queue.
LEMMA PthreadEraseLockEraseStep ==
  ASSUME IInv, NEW p \in Pthreads, bw[p].container = seen[p], PthreadEraseLock(p)
  PROVE  IInv'
<1> DEFINE r == [bw[p] EXCEPT !.container = None, !.state = bw[p].state]
<1> USE DEF IInv
<1>1. /\ UNCHANGED <<value, lock, ready, sig, curWaiter, interrupted, target, held, next>>
      /\ pc[p] = "lock" /\ bw[p].container = seen[p] /\ seen[p] \in Butexes
      /\ p \in Pthreads
  BY ActorKinds DEF Kinds, PthreadEraseLock, EraseLock, Goto, Types, SeenInv, Waiters
<1>2. /\ seen' = [seen EXCEPT ![p] = None] /\ bw' = [bw EXCEPT ![p] = r]
      /\ pc' = [pc EXCEPT ![p] = "erased"]
  <2>1. p \notin Fibers
    BY ActorKinds DEF Kinds
  <2>2. /\ seen' = [seen EXCEPT ![p] = None] /\ pc' = [pc EXCEPT ![p] = "erased"]
        /\ bw' = [bw EXCEPT ![p].container = None,
                            ![p].state = IF p \in Fibers THEN "TIMEDOUT" ELSE @]
    BY <1>1, Zenon DEF PthreadEraseLock, EraseLock, Goto
  <2>3. bw' = [bw EXCEPT ![p] = r]
    BY <2>1, <2>2 DEF Types, Waiters
  <2> QED
    BY <2>2, <2>3
<1>3. p \in Waiters
  BY DEF Waiters
<1>4. /\ seen'[p] = None
      /\ \A y \in Fibers : seen'[TimerOf(y)] = seen[TimerOf(y)]
      /\ \A y \in Interrupters : seen'[y] = seen[y]
      /\ \A y \in Pthreads : y # p => seen'[y] = seen[y]
  BY <1>1, <1>2, ActorKinds DEF Types, Kinds
<1>5. bw[p] \in ButexWaiter
  BY <1>3 DEF Types
<1>6. r \in ButexWaiter /\ r.container = None /\ r.sleep = bw[p].sleep /\ r.home = bw[p].home
  <2>0. bw[p].state \in {"READY", "TIMEDOUT", "UNMATCHEDVALUE", "INTERRUPTED"}
    BY <1>5 DEF ButexWaiter
  <2>1. r \in ButexWaiter
    BY <2>0, <1>5, WaiterFields
  <2> QED
    BY <2>1, <1>5 DEF ButexWaiter
<1> HIDE DEF r
<1>7. /\ bw' \in [Waiters -> ButexWaiter] /\ bw'[p] = r
      /\ \A w \in Waiters : w # p => bw'[w] = bw[w]
      /\ \A g \in Fibers : g # p => bw'[g] = bw[g]
      /\ \A q \in Pthreads : q # p => bw'[q] = bw[q]
  BY <1>3, <1>2, <1>6, WaiterUpdate DEF Types
<1>8. PthreadRuns(p, "erased")
  BY <1>2, LabelUpdate DEF Types, Labels, FiberLabels, EraserLabels, PthreadLabels, WakerLabels
<1>9. waiters' = [waiters EXCEPT ![seen[p]] = RemoveFirst(@, p)]
  BY DEF PthreadEraseLock, EraseLock
<1>10. Suspended(p) /\ Free(p) /\ Woken(p) = 0
  BY <1>3, <1>1, ActorKinds DEF Kinds, PlaceInv, Place
<1>11. QueueInv' /\ waiters' \in [Butexes -> Seq(Waiters)]
  <2>1. /\ None \notin Butexes /\ bw'[p].container = None
        /\ \A v \in Waiters : v # p => bw'[v].container = bw[v].container
    BY <1>6, <1>7, ActorKinds DEF Kinds
  <2> QED
    BY <2>1, <1>1, <1>3, <1>9, QueueErase DEF Types
<1>12. Types'
  BY <1>1, <1>2, <1>11, <1>7, <1>8 DEF PthreadRuns, Types
<1>13. \A w \in Waiters : w # p => SamePlace(w)
  BY <1>1, <1>7, <1>8 DEF PthreadRuns, SamePlace, Waiters, Holds, InterruptWaking, TimerWaking,
       Woken, Suspended
<1>14. Place(p)'
  BY <1>1, <1>6, <1>7, <1>8, <1>10, ActorKinds DEF PthreadRuns, Kinds, Place, Free, Holds,
       InterruptWaking, TimerWaking, Woken, Suspended
<1>15. PlaceInv'
  BY <1>13, <1>14, PlaceKept DEF PlaceInv
<1>16. WakerInv'
  BY <1>1, <1>3, <1>4, <1>6, <1>7, <1>8 DEF PthreadRuns, WakerInv, OnlyFibers
<1>17. SeenInv'
  BY <1>1, <1>3, <1>4, <1>6, <1>7, <1>8 DEF PthreadRuns, SeenInv
<1>18. TimerInv'
  BY <1>1, <1>3, <1>4, <1>6, <1>7, <1>8 DEF PthreadRuns, TimerInv
<1>19. InterruptInv'
  BY <1>1, <1>3, <1>4, <1>6, <1>7, <1>8 DEF PthreadRuns, InterruptInv
<1>20. LockInv'
  BY <1>1, <1>3, <1>4, <1>6, <1>7, <1>8 DEF PthreadRuns, LockInv
<1>21. StateInv'
  BY <1>1, <1>6, <1>7, <1>8, <1>10, ActorKinds DEF PthreadRuns, Kinds, StateInv, Holds, Free,
       Suspended
<1> QED
  BY <1>12, <1>11, <1>15, <1>16, <1>17, <1>18, <1>19, <1>20, <1>21 DEF IInv

\* The pthread waits for the one who erased it.
LEMMA PthreadNotErasedStep ==
  ASSUME IInv, NEW p \in Pthreads, ~sig[p], PthreadNotErased(p)
  PROVE  IInv'
<1> DEFINE r == [bw[p] EXCEPT !.timed = FALSE]
<1> USE DEF IInv
<1>1. /\ UNCHANGED <<value, waiters, lock, ready, sig, curWaiter, interrupted, seen, target,
                     held, next>>
      /\ pc[p] = "notErased"
  BY DEF PthreadNotErased, Goto, Types
<1>2. /\ bw' = [bw EXCEPT ![p] = r] /\ pc' = [pc EXCEPT ![p] = "blocked"]
  BY DEF PthreadNotErased, Goto, Types
<1>3. p \in Waiters
  BY DEF Waiters
<1>4. bw[p] \in ButexWaiter
  BY <1>3 DEF Types
<1>5. r \in ButexWaiter /\ r.container = bw[p].container
  <2>1. r \in ButexWaiter
    BY <1>4, WaiterFields
  <2> QED
    BY <2>1, <1>4 DEF ButexWaiter
<1> HIDE DEF r
<1>6. /\ bw' \in [Waiters -> ButexWaiter] /\ bw'[p] = r
      /\ \A w \in Waiters : w # p => bw'[w] = bw[w]
      /\ \A g \in Fibers : g # p => bw'[g] = bw[g]
      /\ \A q \in Pthreads : q # p => bw'[q] = bw[q]
  BY <1>3, <1>2, <1>5, WaiterUpdate DEF Types
<1>7. PthreadRuns(p, "blocked")
  BY <1>2, LabelUpdate DEF Types, Labels, FiberLabels, EraserLabels, PthreadLabels, WakerLabels
<1>8. Types'
  BY <1>1, <1>3, <1>5, <1>6, <1>7, <1>2 DEF PthreadRuns, Types
<1>9. \A w \in Waiters : bw'[w].container = bw[w].container
  BY <1>1, <1>3, <1>5, <1>6, <1>7
<1>10. QueueInv'
  BY <1>1, <1>9, QueuesKept
<1>11. \A w \in Waiters : SamePlace(w)
  BY <1>1, <1>3, <1>5, <1>6, <1>7, <1>9 DEF PthreadRuns, SamePlace, Waiters, Holds,
       InterruptWaking, TimerWaking, Woken, Suspended
<1>12. PlaceInv'
  BY <1>11, PlaceKept DEF PlaceInv
<1>13. WakerInv'
  BY <1>1, <1>3, <1>5, <1>6, <1>7 DEF PthreadRuns, WakerInv, OnlyFibers
<1>14. SeenInv'
  BY <1>1, <1>3, <1>5, <1>6, <1>7 DEF PthreadRuns, SeenInv
<1>15. TimerInv'
  BY <1>1, <1>6, <1>7, ActorKinds DEF PthreadRuns, Kinds, TimerInv
<1>16. InterruptInv'
  BY <1>1, <1>7, ActorKinds DEF PthreadRuns, Kinds, InterruptInv
<1>17. LockInv'
  BY <1>1, <1>6, <1>7, ActorKinds DEF PthreadRuns, Kinds, LockInv
<1>18. StateInv'
  BY <1>1, <1>6, <1>7, ActorKinds DEF PthreadRuns, Kinds, StateInv, Holds
<1> QED
  BY <1>8, <1>10, <1>12, <1>13, <1>14, <1>15, <1>16, <1>17, <1>18 DEF IInv

-----------------------------------------------------------------------------
(* The wakers *)

\* A wake function of k moves waiters of b: the waiters ws are detached, no others
\* leave the queues, and nothing of a waiter but its container is written.
Moves(ws) ==
    /\ ws \in Seq(Waiters) /\ IsInjective(ws)
    /\ waiters' \in [Butexes -> Seq(Waiters)] /\ bw' \in [Waiters -> ButexWaiter]
    /\ \A d \in Butexes : IsInjective(waiters'[d])
    /\ \A w \in Waiters, d \in Butexes : w \in ToSet(waiters'[d]) <=> bw'[w].container = d
    /\ \A w \in Waiters : /\ bw'[w].home = bw[w].home /\ bw'[w].sleep = bw[w].sleep
                          /\ bw'[w].state = bw[w].state
    /\ \A w \in Waiters : w \in ToSet(ws) => bw[w].container # None /\ bw'[w].container = None
    /\ \A w \in Waiters : w \notin ToSet(ws) =>
          (bw'[w].container = None <=> bw[w].container = None)

\* Whatever a wake function detaches has one waker afterwards.
LEMMA DetachStep ==
  ASSUME IInv, NEW k \in Wakers, pc[k] = "set", NEW ws, Moves(ws),
         NEW l \in {"wakeAll", "wakeRest"}, Detach(k, ws, l)
  PROVE  IInv'
<1> DEFINE m == IF ws = << >> THEN "idle" ELSE l
<1> USE DEF IInv
<1>1. /\ UNCHANGED <<value, lock, ready, sig, curWaiter, interrupted, seen, next>>
      /\ held' = [held EXCEPT ![k] = ws] /\ target' = [target EXCEPT ![k] = None]
      /\ pc' = [pc EXCEPT ![k] = m]
  BY DEF Detach, Goto
<1>2. /\ m \in {"idle", "wakeAll", "wakeRest"} /\ (m = "idle" <=> ws = << >>)
      /\ m # "set" /\ m # "ready"
  OBVIOUS
<1> HIDE DEF m
<1>3. /\ held'[k] = ws /\ \A y \in Wakers : y # k => held'[y] = held[y]
      /\ target'[k] = None
      /\ \A y \in Interrupters : target'[y] = target[y]
      /\ \A y \in Wakers : y # k => target'[y] = target[y]
  BY <1>1, ActorKinds DEF Types, Kinds
<1>4. WakerRuns(k, m)
  BY <1>1, <1>2, LabelUpdate DEF Types, Labels, FiberLabels, EraserLabels, PthreadLabels,
       WakerLabels
<1>5. /\ held[k] = << >> /\ ToSet(held[k]) = {}
      /\ \A w \in Waiters : ~Holds(k, w) /\ (Holds(k, w)' <=> w \in ToSet(ws))
  BY <1>3, MembersOfEmpty DEF WakerInv, Holds
<1>6. ToSet(ws) \subseteq Waiters
  BY MembersOfSeq DEF Moves
<1>7. Types'
  BY <1>1, <1>4 DEF WakerRuns, Types, Moves
<1>8. QueueInv'
  BY <1>3 DEF QueueInv, Moves
<1>9. ASSUME NEW w \in Waiters, w \notin ToSet(ws) PROVE Place(w)'
  <2>1. \A h \in Wakers : Holds(h, w)' <=> Holds(h, w)
    BY <1>3, <1>5, <1>9 DEF Holds
  <2>2. SamePlace(w)
    BY <1>1, <1>3, <1>4, <1>9, <2>1 DEF WakerRuns, SamePlace, Moves, Waiters, InterruptWaking,
         TimerWaking, Woken, Suspended
  <2> QED
    BY <2>2, PlaceKept DEF PlaceInv
<1>10. ASSUME NEW w \in Waiters, w \in ToSet(ws) PROVE Place(w)'
  <2>1. /\ bw[w].container # None /\ Free(w) /\ Suspended(w) /\ Woken(w) = 0
        /\ bw'[w].container = None
    BY <1>10 DEF PlaceInv, Place, Moves
  <2>2. Suspended(w)' /\ Woken(w)' = 0 /\ ~TimerWaking(w)'
        /\ \A i \in Interrupters : ~InterruptWaking(i, w)'
    BY <1>1, <1>3, <1>4, <2>1 DEF WakerRuns, Free, Waiters, InterruptWaking, TimerWaking, Woken,
         Suspended
  <2>3. Holds(k, w)' /\ \A h \in Wakers : Holds(h, w)' => h = k
    BY <1>3, <1>5, <1>10, <2>1 DEF Holds, Free
  <2> QED
    BY <2>1, <2>2, <2>3 DEF Place, Free
<1>11. PlaceInv'
  BY <1>9, <1>10 DEF PlaceInv
<1>12. WakerInv'
  BY <1>1, <1>2, <1>3, <1>4 DEF WakerRuns, WakerInv, OnlyFibers
<1>13. SeenInv'
  BY <1>1, <1>4 DEF WakerRuns, SeenInv
<1>14. \A f \in Fibers : bw'[f].home = bw[f].home /\ bw'[f].sleep = bw[f].sleep
       /\ bw'[f].state = bw[f].state
  BY DEF Moves, Waiters
<1>15. TimerInv'
  BY <1>4, <1>14 DEF WakerRuns, TimerInv
<1>16. InterruptInv'
  BY <1>1, <1>3, <1>4 DEF WakerRuns, InterruptInv
<1>17. LockInv'
  BY <1>1, <1>4, <1>14 DEF WakerRuns, LockInv
<1>18. ASSUME NEW f \in Fibers,
              pc'[f] = "append" \/ bw'[f].container # None \/ \E h \in Wakers : Holds(h, f)'
       PROVE  pc[f] = "append" \/ bw[f].container # None \/ \E h \in Wakers : Holds(h, f)
  <2>1. f \in Waiters /\ pc'[f] = pc[f]
    BY <1>4 DEF Waiters, WakerRuns
  <2>2. CASE f \in ToSet(ws)
    BY <2>1, <2>2 DEF Moves
  <2>3. CASE f \notin ToSet(ws)
    BY <2>1, <2>3, <1>3, <1>5, <1>18 DEF Moves, Holds
  <2> QED
    BY <2>2, <2>3
<1>19. StateInv'
  BY <1>14, <1>18 DEF StateInv
<1> QED
  BY <1>7, <1>8, <1>11, <1>12, <1>13, <1>15, <1>16, <1>17, <1>19 DEF IInv

\* The waiters in D lose their container.
LEMMA UncontainFields ==
  ASSUME bw \in [Waiters -> ButexWaiter], NEW D, bw' = Uncontain(D)
  PROVE  /\ bw' \in [Waiters -> ButexWaiter]
         /\ \A w \in Waiters : w \in D =>
               /\ bw'[w].container = None /\ bw'[w].home = bw[w].home
               /\ bw'[w].sleep = bw[w].sleep /\ bw'[w].state = bw[w].state
         /\ \A w \in Waiters : w \notin D => bw'[w] = bw[w]
<1>1. \A w \in Waiters : [bw[w] EXCEPT !.container = None] \in ButexWaiter
  BY WaiterFields
<1>2. ASSUME NEW w \in Waiters, w \in D
      PROVE  bw'[w] = [bw[w] EXCEPT !.container = None]
  BY <1>2 DEF Uncontain
<1>3. \A w \in Waiters : w \notin D => bw'[w] = bw[w]
  BY DEF Uncontain
<1>4. bw' \in [Waiters -> ButexWaiter]
  BY <1>1 DEF Uncontain
<1> QED
  BY <1>2, <1>3, <1>4 DEF ButexWaiter

\* The waiters ws leave the queue of b, s stay.
LEMMA LeaveQueue ==
  ASSUME IInv, NEW b \in Butexes, NEW ws \in Seq(Waiters), IsInjective(ws),
         NEW s \in Seq(Waiters), IsInjective(s), ToSet(ws) \subseteq ToSet(waiters[b]),
         ToSet(s) = ToSet(waiters[b]) \ ToSet(ws),
         waiters' = [waiters EXCEPT ![b] = s], bw' = Uncontain(ToSet(ws))
  PROVE  Moves(ws)
<1> USE DEF IInv
<1>1. /\ waiters'[b] = s /\ \A d \in Butexes : d # b => waiters'[d] = waiters[d]
      /\ waiters' \in [Butexes -> Seq(Waiters)]
  BY DEF Types
<1> DEFINE D == ToSet(ws)
<1>2. /\ bw' \in [Waiters -> ButexWaiter]
      /\ \A w \in Waiters : w \in D =>
            /\ bw'[w].container = None /\ bw'[w].home = bw[w].home
            /\ bw'[w].sleep = bw[w].sleep /\ bw'[w].state = bw[w].state
      /\ \A w \in Waiters : w \notin D => bw'[w] = bw[w]
  BY UncontainFields DEF Types
<1>3. \A w \in Waiters : w \in D => bw[w].container = b
  BY DEF QueueInv
<1>4. b # None /\ None \notin Butexes
  BY ActorKinds DEF Kinds
<1>5. \A d \in Butexes : IsInjective(waiters'[d])
  BY <1>1 DEF QueueInv
<1>6. \A w \in Waiters, d \in Butexes : w \in ToSet(waiters'[d]) <=> bw'[w].container = d
  <2> SUFFICES ASSUME NEW w \in Waiters, NEW d \in Butexes
               PROVE  w \in ToSet(waiters'[d]) <=> bw'[w].container = d
    OBVIOUS
  <2>1. CASE w \in D
    BY <2>1, <1>1, <1>2, <1>3, <1>4 DEF QueueInv
  <2>2. CASE w \notin D
    BY <2>2, <1>1, <1>2 DEF QueueInv
  <2> QED
    BY <2>1, <2>2
<1> QED
  BY <1>1, <1>2, <1>3, <1>4, <1>5, <1>6 DEF Moves

\* butex_wake detaches the front.
LEMMA ButexWakeStep ==
  ASSUME IInv, NEW k \in Wakers, ButexWake(k)
  PROVE  IInv'
<1> DEFINE b == target[k]
           q == waiters[b]
           s == IF q = << >> THEN q ELSE Tail(q)
<1> USE DEF IInv
<1>1. /\ pc[k] = "set" /\ waiters' = [waiters EXCEPT ![b] = s] /\ bw' = Uncontain(ToSet(FrontOf(q)))
      /\ Detach(k, FrontOf(q), "wakeAll")
  BY DEF ButexWake
<1>2. b \in Butexes /\ q \in Seq(Waiters) /\ IsInjective(q)
  BY <1>1 DEF WakerInv, Types, QueueInv
<1> HIDE DEF b, q
<1>3. /\ FrontOf(q) \in Seq(Waiters) /\ IsInjective(FrontOf(q))
      /\ ToSet(FrontOf(q)) \subseteq ToSet(q)
      /\ s \in Seq(Waiters) /\ IsInjective(s) /\ ToSet(s) = ToSet(q) \ ToSet(FrontOf(q))
  <2>1. CASE q = << >>
    BY <2>1, <1>2, MembersOfEmpty DEF FrontOf
  <2>2. CASE q # << >>
    <3>1. /\ Tail(q) \in Seq(Waiters) /\ IsInjective(Tail(q)) /\ Head(q) \in ToSet(q)
          /\ ToSet(Tail(q)) = ToSet(q) \ {Head(q)} /\ Head(q) \in Waiters
      BY <1>2, <2>2, MembersOfTail, MembersOfSeq
    <3>2. <<Head(q)>> \in Seq(Waiters) /\ ToSet(<<Head(q)>>) = {Head(q)} /\ IsInjective(<<Head(q)>>)
      BY <3>1, MembersOfOne
    <3> QED
      BY <2>2, <3>1, <3>2 DEF FrontOf
  <2> QED
    BY <2>1, <2>2
<1>4. Moves(FrontOf(q))
  BY <1>1, <1>2, <1>3, LeaveQueue DEF q
<1> QED
  BY <1>1, <1>4, DetachStep

\* butex_wake_all detaches the whole queue.
LEMMA ButexWakeAllStep ==
  ASSUME IInv, NEW k \in Wakers, ButexWakeAll(k)
  PROVE  IInv'
<1> DEFINE b == target[k]
           q == waiters[b]
<1> USE DEF IInv
<1>1. /\ pc[k] = "set" /\ waiters' = [waiters EXCEPT ![b] = << >>] /\ bw' = Uncontain(ToSet(q))
      /\ Detach(k, q, "wakeAll")
  BY DEF ButexWakeAll
<1>2. b \in Butexes /\ q \in Seq(Waiters) /\ IsInjective(q)
  BY <1>1 DEF WakerInv, Types, QueueInv
<1>3. << >> \in Seq(Waiters) /\ IsInjective(<< >>) /\ ToSet(<< >>) = ToSet(q) \ ToSet(q)
  BY MembersOfEmpty
<1>4. Moves(q)
  BY <1>1, <1>2, <1>3, LeaveQueue
<1> QED
  BY <1>1, <1>4, DetachStep

\* butex_wake_except leaves the excluded fiber alone on the queue.
LEMMA ButexWakeExceptStep ==
  ASSUME IInv, NEW k \in Wakers, NEW x \in Fibers \cup {None}, ButexWakeExcept(k, x)
  PROVE  IInv'
<1> DEFINE b == target[k]
           q == waiters[b]
           s == IF x \in ToSet(q) THEN <<x>> ELSE << >>
           gone == RemoveFirst(q, x)
<1> USE DEF IInv
<1>1. /\ pc[k] = "set" /\ waiters' = [waiters EXCEPT ![b] = s] /\ bw' = Uncontain(ToSet(gone))
      /\ Detach(k, gone, "wakeRest")
  BY DEF ButexWakeExcept
<1>2. b \in Butexes /\ q \in Seq(Waiters) /\ IsInjective(q)
  BY <1>1 DEF WakerInv, Types, QueueInv
<1> HIDE DEF b, q
<1>3. gone \in Seq(Waiters) /\ IsInjective(gone) /\ ToSet(gone) = ToSet(q) \ {x}
  BY <1>2, MembersOfRemove
<1>4. s \in Seq(Waiters) /\ IsInjective(s) /\ ToSet(s) = ToSet(q) \ ToSet(gone)
  <2>1. CASE x \in ToSet(q)
    <3>1. x \in Waiters
      BY <1>2, <2>1, MembersOfSeq
    <3>2. <<x>> \in Seq(Waiters) /\ ToSet(<<x>>) = {x} /\ IsInjective(<<x>>)
      BY <3>1, MembersOfOne
    <3> QED
      BY <2>1, <3>1, <3>2, <1>3
  <2>2. CASE x \notin ToSet(q)
    BY <2>2, <1>3, MembersOfEmpty
  <2> QED
    BY <2>1, <2>2
<1> HIDE DEF gone, s
<1>5. Moves(gone)
  BY <1>1, <1>2, <1>3, <1>4, LeaveQueue DEF q
<1> QED
  BY <1>1, <1>5, DetachStep

\* butex_requeue detaches the front and moves the rest to m.
LEMMA ButexRequeueStep ==
  ASSUME IInv, NEW k \in Wakers, NEW m \in Butexes, ButexRequeue(k, m)
  PROVE  IInv'
<1> DEFINE b == target[k]
           q == waiters[b]
<1> USE DEF IInv
<1>1. /\ pc[k] = "set" /\ m # b /\ Detach(k, FrontOf(q), "wakeAll")
      /\ q = << >> => UNCHANGED <<waiters, bw>>
      /\ q # << >> =>
            /\ waiters' = [waiters EXCEPT ![b] = << >>, ![m] = @ \o Tail(q)]
            /\ bw' = [w \in Waiters |->
                        CASE w = Head(q) -> [bw[w] EXCEPT !.container = None]
                          [] w \in ToSet(Tail(q)) -> [bw[w] EXCEPT !.container = m]
                          [] OTHER -> bw[w]]
  BY DEF ButexRequeue
<1>2. b \in Butexes /\ q \in Seq(Waiters) /\ IsInjective(q)
  BY <1>1 DEF WakerInv, Types, QueueInv
<1>3. CASE q = << >>
  <2>1. << >> \in Seq(Waiters) /\ IsInjective(<< >>) /\ \A w \in Waiters : w \notin ToSet(<< >>)
    BY MembersOfEmpty
  <2>2. Moves(<< >>)
    BY <1>1, <1>3, <2>1 DEF Moves, QueueInv, Types
  <2> QED
    BY <1>1, <1>3, <2>2, DetachStep DEF FrontOf
<1>4. CASE q # << >>
  <2> DEFINE h == Head(q)
             t == Tail(q)
  <2>1. /\ t \in Seq(Waiters) /\ IsInjective(t) /\ h \in ToSet(q) /\ h \in Waiters
        /\ ToSet(t) = ToSet(q) \ {h}
    BY <1>2, <1>4, MembersOfTail, MembersOfSeq
  <2>2. <<h>> \in Seq(Waiters) /\ ToSet(<<h>>) = {h} /\ IsInjective(<<h>>) /\ FrontOf(q) = <<h>>
    BY <2>1, <1>4, MembersOfOne DEF FrontOf
  <2>3. /\ waiters[m] \in Seq(Waiters) /\ IsInjective(waiters[m])
        /\ \A w \in Waiters : w \in ToSet(q) <=> bw[w].container = b
        /\ \A w \in Waiters : w \in ToSet(waiters[m]) <=> bw[w].container = m
        /\ ToSet(waiters[m]) \subseteq Waiters /\ ToSet(q) \subseteq Waiters
    BY <1>2, MembersOfSeq DEF Types, QueueInv
  <2>4. waiters' = [waiters EXCEPT ![b] = << >>, ![m] = @ \o t]
    BY <1>1, <1>4
  <2>5. bw' = [w \in Waiters |-> CASE w = h -> [bw[w] EXCEPT !.container = None]
                                   [] w \in ToSet(t) -> [bw[w] EXCEPT !.container = m]
                                   [] OTHER -> bw[w]]
    BY <1>1, <1>4
  <2>6. m # b
    BY <1>1
  <2>7. None \notin Butexes
    BY ActorKinds DEF Kinds
  <2> HIDE DEF b, q, h, t
  <2>8. /\ waiters[m] \o t \in Seq(Waiters) /\ ToSet(waiters[m] \o t) = ToSet(waiters[m])
           \cup ToSet(t)
        /\ IsInjective(waiters[m] \o t)
    <3>1. ToSet(waiters[m]) \cap ToSet(t) = {}
      BY <2>1, <2>3, <2>6
    <3> QED
      BY <2>1, <2>3, <3>1, MembersOfConcat
  <2>9. /\ waiters' \in [Butexes -> Seq(Waiters)] /\ waiters'[b] = << >>
        /\ waiters'[m] = waiters[m] \o t
        /\ \A d \in Butexes : d # b /\ d # m => waiters'[d] = waiters[d]
    <3>1. << >> \in Seq(Waiters) /\ waiters \in [Butexes -> Seq(Waiters)]
      BY DEF Types
    <3> HIDE DEF IInv
    <3>2. waiters' \in [Butexes -> Seq(Waiters)]
      BY <1>2, <2>4, <2>6, <2>8, <3>1
    <3> QED
      BY <1>2, <2>4, <2>6, <3>1, <3>2
  <2>10. \A d \in Butexes : IsInjective(waiters'[d])
    BY <2>8, <2>9, MembersOfEmpty DEF QueueInv
  <2>11. \A w \in Waiters : /\ [bw[w] EXCEPT !.container = None] \in ButexWaiter
                            /\ [bw[w] EXCEPT !.container = m] \in ButexWaiter
                            /\ bw[w] \in ButexWaiter
    BY WaiterFields DEF Types
  <2>12. /\ \A w \in Waiters : w = h => bw'[w] = [bw[w] EXCEPT !.container = None]
         /\ \A w \in Waiters : w # h /\ w \in ToSet(t) => bw'[w] = [bw[w] EXCEPT !.container = m]
         /\ \A w \in Waiters : w # h /\ w \notin ToSet(t) => bw'[w] = bw[w]
         /\ bw' \in [Waiters -> ButexWaiter]
    <3> HIDE DEF IInv
    <3>1. bw'[h] = [bw[h] EXCEPT !.container = None]
      BY <2>5, <2>1 DEF h, t
    <3>2. ASSUME NEW w \in Waiters, w # h, w \in ToSet(t)
          PROVE  bw'[w] = [bw[w] EXCEPT !.container = m]
      BY <2>5, <3>2
    <3>3. ASSUME NEW w \in Waiters, w # h, w \notin ToSet(t) PROVE bw'[w] = bw[w]
      BY <2>5, <3>3
    <3>4. \A w \in Waiters : bw'[w] \in ButexWaiter
      BY <2>11, <3>1, <3>2, <3>3
    <3>5. bw' \in [Waiters -> ButexWaiter]
      BY <2>5, <3>4
    <3> QED
      BY <3>1, <3>2, <3>3, <3>5
  <2>13. /\ \A w \in Waiters : w = h => bw'[w].container = None
         /\ \A w \in Waiters : w # h /\ w \in ToSet(t) => bw'[w].container = m
         /\ \A w \in Waiters : w # h /\ w \notin ToSet(t) => bw'[w].container = bw[w].container
         /\ \A w \in Waiters : /\ bw'[w].home = bw[w].home /\ bw'[w].sleep = bw[w].sleep
                               /\ bw'[w].state = bw[w].state
    BY <2>11, <2>12 DEF ButexWaiter
  <2>14. \A w \in Waiters, d \in Butexes : w \in ToSet(waiters'[d]) <=> bw'[w].container = d
    <3> SUFFICES ASSUME NEW w \in Waiters, NEW d \in Butexes
                 PROVE  w \in ToSet(waiters'[d]) <=> bw'[w].container = d
      OBVIOUS
    <3>1. CASE d = b
      BY <3>1, <2>1, <2>3, <2>6, <2>7, <2>9, <2>13, MembersOfEmpty
    <3>2. CASE d = m
      BY <3>2, <2>1, <2>3, <2>6, <2>7, <2>8, <2>9, <2>13
    <3>3. CASE d # b /\ d # m
      <4>1. w \in ToSet(waiters'[d]) <=> bw[w].container = d
        BY <3>3, <2>9 DEF QueueInv
      <4> QED
        BY <3>3, <4>1, <2>1, <2>3, <2>7, <2>13
    <3> QED
      BY <3>1, <3>2, <3>3
  <2>15. /\ \A w \in Waiters : w \in ToSet(<<h>>) => bw[w].container # None /\ bw'[w].container = None
         /\ \A w \in Waiters : w \notin ToSet(<<h>>) =>
               (bw'[w].container = None <=> bw[w].container = None)
    BY <1>2, <2>1, <2>2, <2>3, <2>7, <2>13
  <2>16. Moves(<<h>>)
    BY <2>2, <2>9, <2>10, <2>12, <2>13, <2>14, <2>15 DEF Moves
  <2> QED
    BY <1>1, <2>2, <2>16, DetachStep
<1> QED
  BY <1>3, <1>4

\* The value changes before the wake function is called.
LEMMA SetValueStep ==
  ASSUME IInv, NEW k \in Wakers, NEW b \in Butexes, NEW v \in 0..MaxValue, SetValue(k, b, v)
  PROVE  IInv'
<1> USE DEF IInv
<1>1. /\ UNCHANGED <<waiters, lock, bw, ready, sig, curWaiter, interrupted, seen, held, next>>
      /\ pc[k] = "idle"
  BY DEF SetValue, Goto
<1>2. /\ value' = [value EXCEPT ![b] = v] /\ target' = [target EXCEPT ![k] = b]
      /\ pc' = [pc EXCEPT ![k] = "set"]
  BY DEF SetValue, Goto
<1>3. /\ value'[b] = v
      /\ \A y \in Butexes : y # b => value'[y] = value[y]
      /\ target'[k] = b
      /\ \A y \in Interrupters : target'[y] = target[y]
      /\ \A y \in Wakers : y # k => target'[y] = target[y]
  BY <1>1, <1>2, ActorKinds DEF Types, Kinds
<1>4. WakerRuns(k, "set")
  BY <1>2, LabelUpdate DEF Types, Labels, FiberLabels, EraserLabels, PthreadLabels, WakerLabels
<1>5. Types'
  BY <1>1, <1>3, <1>4, <1>2 DEF WakerRuns, Types
<1>6. QueueInv'
  BY <1>1, QueuesKept
<1>7. \A w \in Waiters : SamePlace(w)
  BY <1>1, <1>3, <1>4 DEF WakerRuns, SamePlace, Waiters, Holds, InterruptWaking, TimerWaking,
       Woken, Suspended
<1>8. PlaceInv'
  BY <1>7, PlaceKept DEF PlaceInv
<1>9. WakerInv'
  BY <1>1, <1>3, <1>4 DEF WakerRuns, WakerInv, OnlyFibers
<1>10. SeenInv'
  BY <1>1, <1>3, <1>4 DEF WakerRuns, SeenInv
<1>11. TimerInv'
  BY <1>1, <1>3, <1>4 DEF WakerRuns, TimerInv
<1>12. InterruptInv'
  BY <1>1, <1>3, <1>4 DEF WakerRuns, InterruptInv
<1>13. LockInv'
  BY <1>1, <1>3, <1>4 DEF WakerRuns, LockInv
<1>14. StateInv'
  BY <1>1, <1>3, <1>4 DEF WakerRuns, StateInv, Holds
<1> QED
  BY <1>5, <1>6, <1>8, <1>9, <1>10, <1>11, <1>12, <1>13, <1>14 DEF IInv

\* The step of the waker k wakes w, which it had detached, and s remain.
Wakens(k, w, s, l) ==
    /\ Holds(k, w) /\ s \in Seq(Waiters) /\ IsInjective(s) /\ ToSet(s) = ToSet(held[k]) \ {w}
    /\ held' = [held EXCEPT ![k] = s] /\ pc' = [pc EXCEPT ![k] = l]
    /\ l \in {"idle", "wakeAll", "wakeRest", "ready"}
    /\ l = "idle" <=> s = << >>
    /\ l = "ready" => OnlyFibers(s)
    /\ UNCHANGED <<value, waiters, lock, bw, curWaiter, interrupted, seen, target>>
    /\ ready' \in [Fibers -> Nat] /\ sig' \in [Pthreads -> BOOLEAN]
    /\ next' \in [Wakers -> Fibers \cup {None}]
    /\ Woken(w) = 0 => Woken(w)' = 1
    /\ \A v \in Waiters : v # w => Woken(v)' = Woken(v)

\* A waker wakes one of the waiters it has detached.
LEMMA WakenStep ==
  ASSUME IInv, NEW k \in Wakers, NEW w \in Waiters, NEW s, NEW l, Wakens(k, w, s, l)
  PROVE  IInv'
<1> USE DEF Wakens
<1> USE DEF IInv
<1>1. held'[k] = s /\ \A y \in Wakers : y # k => held'[y] = held[y]
  BY DEF Types
<1>2. WakerRuns(k, l)
  BY LabelUpdate DEF Types, Labels, FiberLabels, EraserLabels, PthreadLabels, WakerLabels
<1>3. Types'
  BY <1>2 DEF WakerRuns, Types
<1>4. QueueInv'
  BY <1>1 DEF QueueInv
<1>5. \A v \in Waiters : v # w => SamePlace(v)
  BY <1>1, <1>2 DEF WakerRuns, SamePlace, Waiters, Holds, InterruptWaking, TimerWaking, Suspended
<1>6. Place(w)'
  <2>1. /\ Woken(w) = 0 /\ Suspended(w) /\ bw[w].container = None /\ ~TimerWaking(w)
        /\ \A i \in Interrupters : ~InterruptWaking(i, w)
        /\ \A h \in Wakers : Holds(h, w) => h = k
    BY DEF PlaceInv, Place, Free
  <2>2. Free(w)'
    BY <1>1, <1>2, <2>1 DEF WakerRuns, Free, Holds, InterruptWaking, TimerWaking
  <2>3. Woken(w)' = 1 /\ bw'[w].container = None /\ Suspended(w)'
    BY <1>2, <2>1 DEF WakerRuns, Waiters, Suspended
  <2> QED
    BY <2>2, <2>3 DEF Place, Free
<1>7. PlaceInv'
  BY <1>5, <1>6, PlaceKept DEF PlaceInv
<1>8. WakerInv'
  BY <1>1, <1>2 DEF WakerRuns, WakerInv, OnlyFibers
<1>9. SeenInv'
  BY <1>2 DEF WakerRuns, SeenInv
<1>10. TimerInv'
  BY <1>2 DEF WakerRuns, TimerInv
<1>11. InterruptInv'
  BY <1>2 DEF WakerRuns, InterruptInv
<1>12. LockInv'
  BY <1>2 DEF WakerRuns, LockInv
<1>13. \A h \in Wakers, f \in Fibers : Holds(h, f)' => Holds(h, f)
  BY <1>1 DEF Holds
<1>14. StateInv'
  BY <1>2, <1>13 DEF WakerRuns, StateInv
<1> QED
  BY <1>3, <1>4, <1>7, <1>8, <1>9, <1>10, <1>11, <1>12, <1>14 DEF IInv

\* A waker unsleeps a fiber it has detached.
LEMMA UnsleepHeldStep ==
  ASSUME IInv, NEW k \in Wakers, NEW x \in Fibers, Holds(k, x),
         NEW m \in {"wakeRest", "ready"}, pc[k] \in {"wakeAll", "wakeRest"}, OnlyFibers(held[k]),
         UnsleepHeld(k, x, m),
         UNCHANGED <<value, waiters, lock, ready, sig, curWaiter, interrupted, seen, target,
                     held>>,
         next' \in [Wakers -> Fibers \cup {None}]
  PROVE  IInv'
<1> DEFINE r == IF UnsleepOk(x) THEN [bw[x] EXCEPT !.sleep = FALSE] ELSE bw[x]
           l == IF bw[x].sleep /\ UnsleepOk(x) THEN "idle" ELSE pc[TimerOf(x)]
<1> USE DEF IInv
<1>1. /\ UNCHANGED <<value, waiters, lock, ready, sig, curWaiter, interrupted, seen, target,
                     held>>
  BY DEF UnsleepHeld, Types
<1>2. /\ bw' = [bw EXCEPT ![x] = r] /\ pc' = [pc EXCEPT ![k] = m, ![TimerOf(x)] = l]
  <2>1. bw' = [bw EXCEPT ![x] = r]
    BY DEF UnsleepHeld, Types, Waiters
  <2> QED
    BY <2>1, ActorKinds DEF UnsleepHeld, Types, LabelTypes, Kinds
<1>3. x \in Waiters
  BY DEF Waiters
<1>4. bw[x] \in ButexWaiter
  BY <1>3 DEF Types
<1>5. /\ r \in ButexWaiter /\ r.container = bw[x].container /\ r.state = bw[x].state
      /\ r.home = bw[x].home
  <2>1. r \in ButexWaiter
    BY <1>4, WaiterFields
  <2> QED
    BY <2>1, <1>4 DEF ButexWaiter
<1> HIDE DEF r
<1>6. /\ bw' \in [Waiters -> ButexWaiter] /\ bw'[x] = r
      /\ \A w \in Waiters : w # x => bw'[w] = bw[w]
      /\ \A g \in Fibers : g # x => bw'[g] = bw[g]
      /\ \A q \in Pthreads : q # x => bw'[q] = bw[q]
  BY <1>3, <1>2, <1>5, WaiterUpdate DEF Types
<1>7. /\ l \in EraserLabels /\ l # "wakeup" /\ pc[TimerOf(x)] # "wakeup" /\ l # "putback"
      /\ (l # "idle" => l = pc[TimerOf(x)] /\ r.sleep)
  <2>1. pc[TimerOf(x)] # "wakeup" /\ pc[TimerOf(x)] # "putback" /\ pc[TimerOf(x)] \in EraserLabels
    BY <1>3, ActorKinds DEF Types, LabelTypes, Kinds, PlaceInv, Place, TimerWaking, TimerInv
  <2> QED
    BY <2>1 DEF EraserLabels, TimerInv, r
<1> HIDE DEF l
<1>8. WakerSets(k, m, x, l)
  BY <1>2, <1>7, TimerUpdate DEF Types, Labels, FiberLabels, EraserLabels, PthreadLabels,
       WakerLabels
<1>9. Types'
  BY <1>1, <1>3, <1>5, <1>6, <1>8, <1>2 DEF WakerSets, Types
<1>10. \A w \in Waiters : bw'[w].container = bw[w].container
  BY <1>5, <1>6
<1>11. QueueInv'
  BY <1>1, <1>10, QueuesKept
<1>12. \A w \in Waiters : SamePlace(w)
  BY <1>1, <1>10, <1>7, <1>8 DEF WakerSets, SamePlace, Waiters, Holds, InterruptWaking,
       TimerWaking, Woken, Suspended
<1>13. PlaceInv'
  BY <1>12, PlaceKept DEF PlaceInv
<1>14. WakerInv'
  BY <1>1, <1>8 DEF WakerSets, WakerInv, OnlyFibers
<1>15. SeenInv'
  BY <1>1, <1>7, <1>8 DEF WakerSets, SeenInv
<1>16. TimerInv'
  BY <1>5, <1>6, <1>7, <1>8 DEF WakerSets, TimerInv
<1>17. InterruptInv'
  BY <1>1, <1>8 DEF WakerSets, InterruptInv
<1>18. LockInv'
  BY <1>1, <1>3, <1>5, <1>6, <1>8 DEF WakerSets, LockInv
<1>19. StateInv'
  BY <1>1, <1>3, <1>5, <1>6, <1>8 DEF WakerSets, StateInv, Holds
<1> QED
  BY <1>9, <1>11, <1>13, <1>14, <1>15, <1>16, <1>17, <1>18, <1>19 DEF IInv

\* wakeup_pthread of a detached pthread.
LEMMA WakePthreadStep ==
  ASSUME IInv, NEW k \in Wakers, WakePthread(k)
  PROVE  IInv'
<1> USE DEF IInv
<1> DEFINE l == IF Len(held[k]) = 1 THEN "idle" ELSE pc[k]
<1>1. PICK i \in 1..Len(held[k]) :
         /\ held[k][i] \in Pthreads /\ sig' = [sig EXCEPT ![held[k][i]] = TRUE]
         /\ held' = [held EXCEPT ![k] = RemoveFirst(@, held[k][i])]
  BY DEF WakePthread, WakeupPthread
<1>2. /\ UNCHANGED <<value, waiters, lock, bw, ready, curWaiter, interrupted, seen, target, next>>
      /\ pc[k] \in {"wakeAll", "wakeRest"} /\ pc' = [pc EXCEPT ![k] = l]
  BY DEF WakePthread, Goto
<1>3. PICK w \in Pthreads : w = held[k][i]
  BY <1>1
<1> DEFINE s == RemoveFirst(held[k], w)
<1>4. held' = [held EXCEPT ![k] = s] /\ sig' = [sig EXCEPT ![w] = TRUE]
  BY <1>1, <1>3 DEF Types
<1>5. held[k] \in Seq(Waiters) /\ IsInjective(held[k]) /\ w \in ToSet(held[k])
  BY <1>3, MembersOfSeq DEF Types, QueueInv
<1>6. s \in Seq(Waiters) /\ IsInjective(s) /\ ToSet(s) = ToSet(held[k]) \ {w}
  BY <1>5, MembersOfRemove
<1>7. s = << >> <=> Len(held[k]) = 1
  <2>1. /\ IsFiniteSet(ToSet(s)) /\ Cardinality(ToSet(s)) = Len(s)
        /\ IsFiniteSet(ToSet(held[k])) /\ Cardinality(ToSet(held[k])) = Len(held[k])
    BY <1>5, <1>6, CountMembers
  <2>2. Cardinality(ToSet(s)) = Cardinality(ToSet(held[k])) - 1
    BY <1>5, <1>6, <2>1, FS_RemoveElement
  <2>3. s = << >> <=> Len(s) = 0
    BY <1>6, EmptySeq
  <2>4. Len(s) \in Nat /\ Len(held[k]) \in Nat
    BY <1>5, <1>6, LenProperties
  <2> QED
    BY <2>1, <2>2, <2>3, <2>4
<1> HIDE DEF s
<1>8. /\ l \in {"idle", "wakeAll", "wakeRest", "ready"} /\ (l = "idle" <=> s = << >>)
      /\ (l = "ready" => OnlyFibers(s))
  BY <1>2, <1>7
<1> HIDE DEF l
<1>9. /\ sig' \in [Pthreads -> BOOLEAN] /\ ready' \in [Fibers -> Nat]
      /\ next' \in [Wakers -> Fibers \cup {None}]
  BY <1>2, <1>4 DEF Types
<1>10. w \in Waiters /\ w \notin Fibers /\ Holds(k, w)
  BY <1>5, ActorKinds DEF Kinds, Holds
<1>11. /\ Woken(w) = 0 => Woken(w)' = 1
       /\ \A v \in Waiters : v # w => Woken(v)' = Woken(v)
  BY <1>2, <1>4, <1>10 DEF Types, Woken, Waiters
<1>12. Wakens(k, w, s, l)
  BY <1>2, <1>4, <1>6, <1>8, <1>9, <1>10, <1>11 DEF Wakens
<1> QED
  BY <1>10, <1>12, WakenStep

\* butex_wake_all unsleeps next.
LEMMA WakeNextStep ==
  ASSUME IInv, NEW k \in Wakers, WakeNext(k)
  PROVE  IInv'
<1> USE DEF IInv
<1> DEFINE w == Head(held[k])
           m == IF Len(held[k]) = 1 THEN "ready" ELSE "wakeRest"
<1>1. /\ pc[k] = "wakeAll" /\ OnlyFibers(held[k]) /\ UnsleepHeld(k, w, m)
      /\ next' = [next EXCEPT ![k] = w]
      /\ UNCHANGED <<value, waiters, lock, ready, sig, curWaiter, interrupted, seen, target,
                     held>>
  BY DEF WakeNext
<1>2. w \in Fibers /\ Holds(k, w)
  <2>1. held[k] \in Seq(Waiters) /\ held[k] # << >> /\ IsInjective(held[k])
    BY <1>1 DEF Types, WakerInv, QueueInv
  <2> QED
    BY <1>1, <2>1, MembersOfTail DEF OnlyFibers, Holds
<1>3. next' \in [Wakers -> Fibers \cup {None}]
  BY <1>1, <1>2 DEF Types
<1>4. m \in {"wakeRest", "ready"}
  OBVIOUS
<1> HIDE DEF w, m
<1> QED
  BY <1>1, <1>2, <1>3, <1>4, UnsleepHeldStep

\* The last detached fiber is unslept.
LEMMA WakeUnsleepStep ==
  ASSUME IInv, NEW k \in Wakers, WakeUnsleep(k)
  PROVE  IInv'
<1> USE DEF IInv
<1> DEFINE w == Last(held[k])
<1>1. /\ pc[k] = "wakeRest" /\ OnlyFibers(held[k]) /\ UnsleepHeld(k, w, "ready")
      /\ UNCHANGED <<value, waiters, lock, ready, sig, curWaiter, interrupted, seen, target,
                     held, next>>
  BY DEF WakeUnsleep
<1>2. w \in Fibers /\ Holds(k, w)
  <2>1. held[k] \in Seq(Waiters) /\ held[k] # << >> /\ IsInjective(held[k])
    BY <1>1 DEF Types, WakerInv, QueueInv
  <2> QED
    BY <1>1, <2>1, MembersOfFront DEF OnlyFibers, Holds, Last
<1>3. next' \in [Wakers -> Fibers \cup {None}]
  BY <1>1 DEF Types
<1> HIDE DEF w
<1> QED
  BY <1>1, <1>2, <1>3, UnsleepHeldStep

\* The last detached fiber is made ready.
LEMMA WakeReadyStep ==
  ASSUME IInv, NEW k \in Wakers, WakeReady(k)
  PROVE  IInv'
<1> USE DEF IInv
<1>1. /\ pc[k] = "ready" /\ held[k] \in Seq(Waiters) /\ held[k] # << >> /\ IsInjective(held[k])
      /\ OnlyFibers(held[k])
  BY DEF WakeReady, Types, WakerInv, QueueInv
<1>2. PICK w \in Fibers : w = Last(held[k])
  BY <1>1, MembersOfFront DEF OnlyFibers, Last
<1> DEFINE s == Front(held[k])
           l == IF s = << >> THEN "idle" ELSE IF s = <<next[k]>> THEN "ready" ELSE "wakeRest"
<1>3. /\ ready' = [ready EXCEPT ![w] = @ + 1]
      /\ held' = [held EXCEPT ![k] = s] /\ pc' = [pc EXCEPT ![k] = l]
      /\ next' = [next EXCEPT ![k] = IF s = << >> THEN None ELSE @]
      /\ UNCHANGED <<value, waiters, lock, bw, sig, curWaiter, interrupted, seen, target>>
  BY <1>2 DEF WakeReady, ReadyToRun, Goto
<1>4. /\ Holds(k, w) /\ OnlyFibers(s)
      /\ s \in Seq(Waiters) /\ IsInjective(s) /\ ToSet(s) = ToSet(held[k]) \ {w}
  BY <1>1, <1>2, MembersOfFront DEF OnlyFibers, Holds, Last, Front
<1>5. /\ l \in {"idle", "wakeAll", "wakeRest", "ready"} /\ (l = "idle" <=> s = << >>)
  OBVIOUS
<1> HIDE DEF s, l
<1>6. /\ next' \in [Wakers -> Fibers \cup {None}] /\ ready' \in [Fibers -> Nat]
      /\ sig' \in [Pthreads -> BOOLEAN] /\ w \in Waiters
  BY <1>3 DEF Types, Waiters
<1>7. /\ Woken(w) = 0 => Woken(w)' = 1
      /\ \A v \in Waiters : v # w => Woken(v)' = Woken(v)
  BY <1>3 DEF Types, Woken, Waiters
<1>8. Wakens(k, w, s, l)
  BY <1>3, <1>4, <1>5, <1>6, <1>7 DEF Wakens
<1> QED
  BY <1>6, <1>8, WakenStep

-----------------------------------------------------------------------------
(* The specification *)

\* Initially nobody waits.
LEMMA InitInv == Init => IInv
<1> SUFFICES ASSUME Init PROVE IInv
  OBVIOUS
<1>1. NoWaiter \in ButexWaiter
  BY ValueAssumption DEF NoWaiter, ButexWaiter
<1>2. Types
  <2>1. value \in [Butexes -> 0..MaxValue]
    BY ValueAssumption DEF Init
  <2>2. LabelTypes
    BY ActorKinds DEF Init, LabelTypes, Labels, FiberLabels, EraserLabels, PthreadLabels,
         WakerLabels, Kinds
  <2> QED
    BY <1>1, <2>1, <2>2 DEF Init, Types
<1>3. /\ \A a \in Actors : pc[a] = "idle"
      /\ \A w \in Waiters : bw[w].container = None
      /\ \A k \in Wakers : held[k] = << >>
      /\ \A b \in Butexes : waiters[b] = << >>
      /\ \A i \in Interrupters : target[i] = None
      /\ \A f \in Fibers : ready[f] = 0 /\ ~curWaiter[f]
      /\ \A p \in Pthreads : ~sig[p]
  BY DEF Init, NoWaiter
<1>4. /\ \A f \in Fibers : f \in Waiters /\ pc[f] = "idle" /\ pc[TimerOf(f)] = "idle"
      /\ \A i \in Interrupters : pc[i] = "idle"
      /\ \A k \in Wakers : pc[k] = "idle"
      /\ \A p \in Pthreads : pc[p] = "idle"
  BY <1>3, ActorKinds DEF Kinds
<1>5. \A k \in Wakers : \A w \in Waiters : ~Holds(k, w)
  BY <1>3, MembersOfEmpty DEF Holds
<1>6. QueueInv
  BY <1>3, MembersOfEmpty, ActorKinds DEF QueueInv, Kinds
<1>7. PlaceInv
  <2> SUFFICES ASSUME NEW w \in Waiters PROVE Place(w)
    BY DEF PlaceInv
  <2>1. Free(w) /\ bw[w].container = None
    BY <1>3, <1>4, <1>5 DEF Free, InterruptWaking, TimerWaking
  <2>2. Woken(w) = 0 /\ ~Suspended(w)
    BY <1>3, <1>4, ActorKinds DEF Kinds, Woken, Suspended
  <2> QED
    BY <2>1, <2>2 DEF Place, Free
<1>8. WakerInv
  BY <1>3, <1>4 DEF WakerInv
<1>9. TimerInv /\ SeenInv
  BY <1>4 DEF TimerInv, SeenInv
<1>10. InterruptInv
  BY <1>3, <1>4 DEF InterruptInv
<1>11. LockInv /\ StateInv
  BY <1>3, <1>4, <1>5 DEF LockInv, StateInv
<1> QED
  BY <1>2, <1>6, <1>7, <1>8, <1>9, <1>10, <1>11 DEF IInv

\* The invariant does not speak of who sleeps nor of the futexes still to be woken.
waitVars == <<value, waiters, lock, bw, ready, sig, curWaiter, interrupted, pc, seen, target,
              held, next>>

\* A step of the kernel's futexes only.
LEMMA FutexOnly ==
  ASSUME IInv, UNCHANGED waitVars
  PROVE  IInv'
BY DEF waitVars, IInv, Types, LabelTypes, QueueInv, PlaceInv, Place, Free, Holds,
     InterruptWaking, TimerWaking, Woken, Suspended, WakerInv, OnlyFibers, TimerInv,
     InterruptInv, SeenInv, LockInv, StateInv

\* Every step preserves the invariant.
LEMMA NextInv == IInv /\ [Next]_vars => IInv'
<1> SUFFICES ASSUME IInv, [Next]_vars PROVE IInv'
  OBVIOUS
<1>1. CASE UNCHANGED vars
  BY <1>1, FutexOnly DEF vars, waitVars
<1>2. ASSUME NEW f \in Fibers, NEW b \in Butexes, NEW e \in 0..MaxValue, NEW timed \in Timeouts,
             FiberWait(f, b, e, timed)
      PROVE  IInv'
  BY <1>2, FiberWaitStep
<1>3. ASSUME NEW f \in Fibers, FiberStep(f) PROVE IInv'
  <2>1. CASE WaitForButexCheck(f)
    BY <2>1, WaitForButexLockStep, WaitForButexBackStep
  <2> QED
    BY <1>3, <2>1, WaitForButexAppendStep, ResumeStep, UnsleepStep, ConsumeWaiterStep,
         FiberReturnStep
       DEF FiberStep
<1>4. ASSUME NEW f \in Fibers, TimerStep(f) PROVE IInv'
  BY <1>4, TimerFireStep, TimerLoadStep, TimerLockRetryStep, TimerLockEraseStep, TimerWakeupStep
       DEF TimerStep
<1>5. ASSUME NEW i \in Interrupters, InterruptStep(i) PROVE IInv'
  <2>1. PICK f \in Fibers : target[i] = f
    BY <1>5 DEF InterruptStep, InterruptLoad, InterruptLock, InterruptWakeup, InterruptPutBack,
         IInv, InterruptInv
  <2> QED
    BY <1>5, <2>1, InterruptLoadStep, InterruptLockRetryStep, InterruptLockEraseStep,
         InterruptWakeupStep,
       InterruptPutBackStep DEF InterruptStep
<1>6. ASSUME NEW i \in Interrupters, NEW f \in Fibers, InterruptConsume(i, f) PROVE IInv'
  BY <1>6, InterruptConsumeStep, InterruptNobodyStep
<1>7. ASSUME NEW p \in Pthreads, PthreadStep(p) PROVE IInv'
  <2>1. CASE PthreadSignalled(p)
    BY <2>1, PthreadReturnStep DEF PthreadSignalled
  <2>2. CASE PthreadErased(p)
    BY <2>2, PthreadReturnStep DEF PthreadErased
  <2>3. CASE PthreadNotErased(p) /\ sig[p]
    BY <2>3, PthreadReturnStep DEF PthreadNotErased
  <2>4. CASE PthreadNotErased(p) /\ ~sig[p]
    BY <2>4, PthreadNotErasedStep
  <2> QED
    BY <1>7, <2>1, <2>2, <2>3, <2>4, PthreadTimeoutStep, PthreadEraseLoadStep,
         PthreadEraseLockRetryStep,
       PthreadEraseLockEraseStep DEF PthreadStep
<1>8. ASSUME NEW p \in Pthreads, NEW b \in Butexes, NEW e \in 0..MaxValue, NEW timed \in Timeouts,
             PthreadWait(p, b, e, timed)
      PROVE  IInv'
  BY <1>8, PthreadWaitStep
<1>9. ASSUME NEW k \in Wakers, WakerStep(k) PROVE IInv'
  <2>1. CASE FutexWake(k)
    BY <2>1, FutexOnly DEF FutexWake, waitVars
  <2> QED
    BY <1>9, <2>1, ButexWakeStep, ButexWakeAllStep, ButexWakeExceptStep, ButexRequeueStep,
         WakePthreadStep,
       WakeNextStep, WakeUnsleepStep, WakeReadyStep DEF WakerStep
<1>10. ASSUME NEW k \in Wakers, NEW b \in Butexes, NEW v \in 0..MaxValue, SetValue(k, b, v)
       PROVE  IInv'
  BY <1>10, SetValueStep
<1>11. ASSUME NEW p \in Pthreads, PthreadSleep(p) \/ PthreadInterrupted(p) PROVE IInv'
  BY <1>11, FutexOnly DEF PthreadSleep, PthreadInterrupted, waitVars
<1> QED
  BY <1>1, <1>2, <1>3, <1>4, <1>5, <1>6, <1>7, <1>8, <1>9, <1>10, <1>11 DEF Next

\* What IInv says of one waiter, counted.
LEMMA Counted ==
  ASSUME IInv, NEW w \in Waiters
  PROVE  /\ Queues(w) = {bw[w].container} \ {None}
         /\ Cardinality(Queues(w)) = IF bw[w].container = None THEN 0 ELSE 1
         /\ Cardinality(Waking(w)) = IF Free(w) THEN 0 ELSE 1
<1> USE DEF IInv
<1>1. Queues(w) = {bw[w].container} \ {None}
  <2>1. bw[w].container \in Butexes \cup {None} /\ None \notin Butexes
    BY ActorKinds DEF Types, ButexWaiter, Kinds
  <2> QED
    BY <2>1 DEF QueueInv, Queues
<1>2. Cardinality(Queues(w)) = IF bw[w].container = None THEN 0 ELSE 1
  <2>1. bw[w].container = None => Queues(w) = {}
    BY <1>1
  <2>2. bw[w].container # None => Queues(w) = {bw[w].container}
    BY <1>1
  <2> QED
    BY <2>1, <2>2, FS_EmptySet, FS_Singleton
<1>3. Place(w)
  BY DEF PlaceInv
<1> HIDE DEF IInv
<1>4. /\ \A k \in Wakers : k \in Waking(w) <=> Holds(k, w)
      /\ \A i \in Interrupters : i \in Waking(w) <=> InterruptWaking(i, w)
      /\ \A f \in Fibers : TimerOf(f) \in Waking(w) <=> f = w /\ TimerWaking(w)
      /\ \A a \in Waking(w) : a \in Wakers \/ a \in Interrupters \/ \E f \in Fibers : a = TimerOf(f)
  <2>1. \A f \in Fibers : TimerOf(f) = TimerOf(w) <=> f = w
    BY DEF TimerOf
  <2> QED
    BY <2>1, ActorKinds, TimerActors DEF Waking, Kinds, InterruptWaking, TimerWaking
<1>5. CASE Free(w)
  <2>1. Waking(w) = {}
    BY <1>4, <1>5 DEF Free
  <2> QED
    BY <1>1, <1>2, <1>5, <2>1, FS_EmptySet
<1>6. ASSUME NEW k \in Wakers, Holds(k, w) PROVE Waking(w) = {k}
  BY <1>3, <1>4, <1>6 DEF Place
<1>7. ASSUME NEW i \in Interrupters, InterruptWaking(i, w) PROVE Waking(w) = {i}
  <2>1. \A j \in Interrupters : InterruptWaking(j, w) => j = i
    BY <1>7, ActorKinds DEF IInv, InterruptInv, InterruptWaking, Kinds
  <2> QED
    BY <1>3, <1>4, <1>7, <2>1 DEF Place
<1>8. ASSUME TimerWaking(w) PROVE Waking(w) = {TimerOf(w)}
  BY <1>3, <1>4, <1>8 DEF Place, TimerWaking
<1>9. CASE ~Free(w)
  <2>1. \E a : Waking(w) = {a}
    BY <1>6, <1>7, <1>8, <1>9 DEF Free
  <2> QED
    BY <1>1, <1>2, <1>9, <2>1, FS_Singleton
<1> QED
  BY <1>5, <1>9

-----------------------------------------------------------------------------
(* The sleep of the pthreads *)

HearInv == FutexTypes /\ SignalHeard

\* Initially nobody sleeps.
LEMMA InitHear == Init => HearInv
BY DEF Init, HearInv, FutexTypes, SignalHeard

\* A step that leaves the signals, the sleepers and the futexes alone.
LEMMA HearKept ==
  ASSUME HearInv, UNCHANGED <<sig, asleep, futex>>
  PROVE  HearInv'
BY DEF HearInv, FutexTypes, SignalHeard

\* The pthread returns and takes its signal with it.
LEMMA ReturnHear ==
  ASSUME IInv, HearInv, NEW p \in Pthreads, PthreadReturn(p), UNCHANGED futex
  PROVE  HearInv'
BY DEF PthreadReturn, IInv, Types, HearInv, FutexTypes, SignalHeard

\* A step that lets pthreads only wake up, and that keeps signals and futexes.
LEMMA WakeHear ==
  ASSUME HearInv, NEW p \in Pthreads, asleep' = [asleep EXCEPT ![p] = FALSE],
         UNCHANGED <<sig, futex>>
  PROVE  HearInv'
BY DEF HearInv, FutexTypes, SignalHeard

\* The pthread falls asleep only without a signal.
LEMMA SleepHear ==
  ASSUME HearInv, NEW p \in Pthreads, PthreadSleep(p)
  PROVE  HearInv'
BY DEF PthreadSleep, HearInv, FutexTypes, SignalHeard

\* Whoever sets the signal has then the futex to wake, and no other one.
LEMMA SignalHear ==
  ASSUME IInv, HearInv, NEW k \in Wakers, WakePthread(k)
  PROVE  HearInv'
<1>1. PICK w \in Pthreads : WakeupPthread(k, w)
  BY DEF WakePthread
<1>2. futex[k] = None /\ UNCHANGED asleep /\ None \notin Pthreads
  BY ActorKinds DEF WakePthread, Kinds
<1>3. FutexTypes'
  BY <1>1, <1>2 DEF WakeupPthread, HearInv, FutexTypes
<1>4. ASSUME NEW p \in Pthreads, asleep'[p], sig'[p] PROVE \E h \in Wakers : futex'[h] = p
  <2>1. CASE p = w
    BY <1>1, <2>1 DEF WakeupPthread, HearInv, FutexTypes
  <2>2. CASE p # w
    <3>1. PICK h \in Wakers : futex[h] = p
      BY <1>1, <1>2, <1>4, <2>2 DEF WakeupPthread, IInv, Types, HearInv, SignalHeard
    <3>2. h # k /\ futex'[h] = p
      BY <1>1, <1>2, <3>1 DEF WakeupPthread, HearInv, FutexTypes
    <3> QED
      BY <3>2
  <2> QED
    BY <2>1, <2>2
<1> QED
  BY <1>3, <1>4 DEF HearInv, SignalHeard

\* futex_wake_private wakes the pthread whose signal the waker set.
LEMMA FutexHear ==
  ASSUME HearInv, NEW k \in Wakers, FutexWake(k)
  PROVE  HearInv'
<1>1. PICK w \in Pthreads : w = futex[k]
  BY DEF FutexWake, HearInv, FutexTypes
<1>2. /\ asleep' = [asleep EXCEPT ![w] = FALSE] /\ futex' = [futex EXCEPT ![k] = None]
      /\ UNCHANGED sig
  BY <1>1 DEF FutexWake
<1>3. FutexTypes'
  BY <1>2 DEF HearInv, FutexTypes
<1>4. ASSUME NEW p \in Pthreads, asleep'[p], sig'[p] PROVE \E h \in Wakers : futex'[h] = p
  <2>1. p # w /\ asleep[p] /\ sig[p]
    BY <1>2, <1>4 DEF HearInv, FutexTypes
  <2>2. PICK h \in Wakers : futex[h] = p
    BY <2>1 DEF HearInv, SignalHeard
  <2>3. h # k /\ futex'[h] = p
    BY <1>1, <1>2, <2>1, <2>2 DEF HearInv, FutexTypes
  <2> QED
    BY <2>3
<1> QED
  BY <1>3, <1>4 DEF HearInv, SignalHeard

\* No step lets a pthread sleep through its signal.
LEMMA NextHear == IInv /\ HearInv /\ [Next]_vars => HearInv'
<1> SUFFICES ASSUME IInv, HearInv, [Next]_vars PROVE HearInv'
  OBVIOUS
<1>1. CASE UNCHANGED vars
  BY <1>1, HearKept DEF vars
<1>2. ASSUME NEW f \in Fibers, NEW b \in Butexes, NEW e \in 0..MaxValue, NEW timed \in Timeouts,
             FiberWait(f, b, e, timed)
      PROVE  HearInv'
  BY <1>2, HearKept DEF FiberWait, futexVars
<1>3. ASSUME NEW f \in Fibers, FiberStep(f) PROVE HearInv'
  BY <1>3, HearKept DEF FiberStep, WaitForButexCheck, WaitForButexAppend, Resume, Unsleep,
       ConsumeWaiter, FiberReturn, futexVars
<1>4. ASSUME NEW f \in Fibers, TimerStep(f) PROVE HearInv'
  BY <1>4, HearKept DEF TimerStep, TimerFire, TimerLoad, TimerLock, TimerWakeup, futexVars
<1>5. ASSUME NEW i \in Interrupters, InterruptStep(i) PROVE HearInv'
  BY <1>5, HearKept DEF InterruptStep, InterruptLoad, InterruptLock, InterruptWakeup,
       InterruptPutBack, futexVars
<1>6. ASSUME NEW i \in Interrupters, NEW f \in Fibers, InterruptConsume(i, f) PROVE HearInv'
  BY <1>6, HearKept DEF InterruptConsume, futexVars
<1>7. ASSUME NEW p \in Pthreads, PthreadStep(p) PROVE HearInv'
  <2>1. CASE PthreadSignalled(p)
    BY <2>1, ReturnHear DEF PthreadSignalled
  <2>2. CASE PthreadErased(p)
    BY <2>2, ReturnHear DEF PthreadErased
  <2>3. CASE PthreadNotErased(p)
    BY <2>3, ReturnHear, HearKept DEF PthreadNotErased
  <2>4. CASE PthreadTimeout(p)
    BY <2>4, WakeHear DEF PthreadTimeout
  <2>5. CASE PthreadEraseLoad(p) \/ PthreadEraseLock(p)
    BY <2>5, HearKept DEF PthreadEraseLoad, PthreadEraseLock, futexVars
  <2> QED
    BY <1>7, <2>1, <2>2, <2>3, <2>4, <2>5 DEF PthreadStep
<1>8. ASSUME NEW p \in Pthreads, NEW b \in Butexes, NEW e \in 0..MaxValue, NEW timed \in Timeouts,
             PthreadWait(p, b, e, timed)
      PROVE  HearInv'
  BY <1>8, HearKept DEF PthreadWait, futexVars
<1>9. ASSUME NEW k \in Wakers, WakerStep(k) PROVE HearInv'
  <2>1. CASE ButexWake(k) \/ ButexWakeAll(k)
    BY <2>1, HearKept DEF ButexWake, ButexWakeAll, Detach, futexVars
  <2>2. ASSUME NEW x \in Fibers \cup {None}, ButexWakeExcept(k, x) PROVE HearInv'
    BY <2>2, HearKept DEF ButexWakeExcept, Detach, futexVars
  <2>3. ASSUME NEW m \in Butexes, ButexRequeue(k, m) PROVE HearInv'
    BY <2>3, HearKept DEF ButexRequeue, Detach, futexVars
  <2>4. CASE WakeNext(k) \/ WakeUnsleep(k) \/ WakeReady(k)
    BY <2>4, HearKept DEF WakeNext, WakeUnsleep, WakeReady, futexVars
  <2> QED
    BY <1>9, <2>1, <2>2, <2>3, <2>4, SignalHear, FutexHear DEF WakerStep
<1>10. ASSUME NEW k \in Wakers, NEW b \in Butexes, NEW v \in 0..MaxValue, SetValue(k, b, v)
       PROVE  HearInv'
  BY <1>10, HearKept DEF SetValue, futexVars
<1>11. ASSUME NEW p \in Pthreads, PthreadSleep(p) \/ PthreadInterrupted(p) PROVE HearInv'
  BY <1>11, SleepHear, WakeHear DEF PthreadInterrupted
<1> QED
  BY <1>1, <1>2, <1>3, <1>4, <1>5, <1>6, <1>7, <1>8, <1>9, <1>10, <1>11 DEF Next

-----------------------------------------------------------------------------
(* The properties *)

\* The invariant counts to WaiterSound.
LEMMA InvWaiterSound == IInv /\ HearInv => WaiterSound
<1> SUFFICES ASSUME IInv, HearInv PROVE WaiterSound
  OBVIOUS
<1>1. OnePlace
  <2> SUFFICES ASSUME NEW w \in Waiters
               PROVE  Cardinality(Queues(w)) + Cardinality(Waking(w)) + Woken(w)
                        = IF Suspended(w) THEN 1 ELSE 0
    BY DEF OnePlace
  <2>1. Place(w) /\ Woken(w) \in 0..1
    BY DEF IInv, PlaceInv, Place
  <2> QED
    BY <2>1, Counted DEF Place
<1>2. ContainerMatches
  BY Counted DEF ContainerMatches
<1>3. WaiterAlive
  <2>1. \A f \in Fibers : pc[TimerOf(f)] # "idle" => pc[f] \in {"blocked", "unsleep"}
    BY DEF IInv, TimerInv
  <2>2. \A i \in Interrupters : target[i] # None => pc[target[i]] \notin {"idle", "finish"}
    BY DEF IInv, InterruptInv
  <2>3. \A k \in Wakers, w \in Waiters : Holds(k, w) => pc[w] # "idle"
    BY DEF IInv, PlaceInv, Place, Free, Suspended
  <2> QED
    BY <2>1, <2>2, <2>3 DEF WaiterAlive
<1> QED
  BY <1>1, <1>2, <1>3 DEF WaiterSound, HearInv

\* The invariant implies the type invariant.
LEMMA InvTypeOK == IInv /\ HearInv => TypeOK
BY DEF IInv, HearInv, TypeOK, PlaceInv, Place, Woken, Waiters

\* The state of a detached fiber is still READY.
LEMMA InvWakeNotLost == IInv => WakeNotLost
<1> SUFFICES ASSUME IInv, NEW k \in Wakers, NEW f \in Fibers, Holds(k, f)
             PROVE  WaitResult(f) \in {"ok", "EINTR"}
  BY DEF WakeNotLost
<1>1. bw[f].state = "READY"
  BY DEF IInv, StateInv
<1> QED
  BY <1>1 DEF WaitResult

\* IInv is an invariant.
LEMMA SpecInv == Spec => []IInv
BY InitInv, NextInv, PTL DEF Spec

\* And so is HearInv.
LEMMA SpecHear == Spec => []HearInv
BY InitHear, NextHear, SpecInv, PTL DEF Spec

\* Every variable keeps its type, and a fiber is in at most one run queue, whoever
\* wakes, interrupts or times out its waits.
THEOREM TypeCorrect == Spec => []TypeOK
BY SpecInv, SpecHear, InvTypeOK, PTL

\* A suspended waiter is on one queue, with one waker, or woken once
\* (erase_from_butex, butex_wake, butex_wake_all, butex_requeue), and nobody reads or
\* writes its ButexWaiter after butex_wait has returned; futex_wake_private alone may
\* get the address of a pthread's waiter that is gone (wakeup_pthread), and a pthread
\* never sleeps through its signal for that.
THEOREM WaiterSoundCorrect == Spec => []WaiterSound
BY SpecInv, SpecHear, InvWaiterSound, PTL

\* butex_wait never answers a timeout or an unmatched value to a fiber that a wake
\* function has detached.
THEOREM WakeNotLostCorrect == Spec => []WakeNotLost
BY SpecInv, InvWakeNotLost, PTL

-----------------------------------------------------------------------------
(* No lost wakeup *)

\* w is queued on b, or about to be, and the value it expects is stale.
Stale(b, w) == /\ bw[w].home = b /\ bw[w].expected # value[b]
               /\ bw[w].container = b \/ (w \in Fibers /\ pc[w] = "append")
Pending(b) == \E k \in Wakers : pc[k] = "set" /\ target[k] = b

\* A step that makes nobody stale and forgets no pending wake.
LEMMA ValueKept ==
  ASSUME ValueInv, \A b \in Butexes, w \in Waiters : Stale(b, w)' => Stale(b, w),
         \A b \in Butexes : Pending(b) => Pending(b)'
  PROVE  ValueInv'
BY DEF ValueInv, Stale, Pending

\* No value changes, nobody comes closer to a queue, and no waker forgets its butex.
SameWait(w) == bw'[w].home = bw[w].home /\ bw'[w].expected = bw[w].expected
Quiet ==
    /\ UNCHANGED value
    /\ \A w \in Waiters : bw'[w].container # None =>
          bw'[w].container = bw[w].container /\ SameWait(w)
    /\ \A f \in Fibers : pc'[f] = "append" => pc[f] = "append" /\ SameWait(f)
    /\ \A k \in Wakers : pc[k] = "set" => pc'[k] = "set" /\ target'[k] = target[k]

\* A quiet step.
LEMMA ValueSame ==
  ASSUME ValueInv, Quiet
  PROVE  ValueInv'
<1>1. \A b \in Butexes, w \in Waiters : Stale(b, w)' => Stale(b, w)
  BY ActorKinds DEF Stale, Kinds, Quiet, SameWait
<1>2. \A b \in Butexes : Pending(b) => Pending(b)'
  BY DEF Pending, Quiet
<1> QED
  BY <1>1, <1>2, ValueKept

\* At most one waiter is written, and neither its butex nor the value it expects.
LEMMA OneWaiter ==
  ASSUME bw \in [Waiters -> ButexWaiter], NEW w \in Waiters, NEW r, bw' = [bw EXCEPT ![w] = r],
         r.home = bw[w].home, r.expected = bw[w].expected, r.container \in {None, bw[w].container}
  PROVE  \A v \in Waiters : /\ SameWait(v)
                            /\ bw'[v].container # None => bw'[v].container = bw[v].container
BY DEF SameWait

\* The steps that are quiet.
LEMMA FiberWaitQuiet ==
  ASSUME IInv, NEW f \in Fibers, NEW b \in Butexes, NEW e \in 0..MaxValue, NEW timed \in Timeouts,
         FiberWait(f, b, e, timed)
  PROVE  Quiet
BY ActorKinds DEF IInv, Types, LabelTypes, Kinds, ButexWaiter, Quiet, SameWait, FiberWait, Goto,
     NoWaiter

\* A fiber that is resumed is a quiet step.
LEMMA ResumeQuiet ==
  ASSUME IInv, NEW f \in Fibers, Resume(f)
  PROVE  Quiet
BY ActorKinds DEF IInv, Types, LabelTypes, Kinds, ButexWaiter, Quiet, SameWait, Resume, Goto

\* unsleep_if_necessary is a quiet step.
LEMMA UnsleepQuiet ==
  ASSUME IInv, NEW f \in Fibers, Unsleep(f)
  PROVE  Quiet
BY ActorKinds DEF IInv, Types, LabelTypes, Kinds, ButexWaiter, Quiet, SameWait, Unsleep

\* A fiber that takes its waiter back is a quiet step.
LEMMA ConsumeQuiet ==
  ASSUME IInv, NEW f \in Fibers, ConsumeWaiter(f)
  PROVE  Quiet
BY ActorKinds DEF IInv, Types, LabelTypes, Kinds, ButexWaiter, Quiet, SameWait, ConsumeWaiter, Goto

\* The return of butex_wait is a quiet step.
LEMMA ReturnQuiet ==
  ASSUME IInv, NEW f \in Fibers, FiberReturn(f)
  PROVE  Quiet
BY ActorKinds DEF IInv, Types, LabelTypes, Kinds, ButexWaiter, Quiet, SameWait, FiberReturn,
     Goto, NoWaiter

\* A timer that fires is a quiet step.
LEMMA TimerFireQuiet ==
  ASSUME IInv, NEW f \in Fibers, TimerFire(f)
  PROVE  Quiet
BY ActorKinds DEF IInv, Types, LabelTypes, Kinds, ButexWaiter, Quiet, SameWait, TimerFire, Goto

\* The timer's first look at the container is a quiet step.
LEMMA TimerLoadQuiet ==
  ASSUME IInv, NEW f \in Fibers, TimerLoad(f)
  PROVE  Quiet
BY ActorKinds DEF IInv, Types, LabelTypes, Kinds, ButexWaiter, Quiet, SameWait, TimerLoad,
     EraseLoad, Goto

\* The timer's wakeup of a waiter it has erased is a quiet step.
LEMMA TimerWakeupQuiet ==
  ASSUME IInv, NEW f \in Fibers, TimerWakeup(f)
  PROVE  Quiet
BY ActorKinds DEF IInv, Types, LabelTypes, Kinds, ButexWaiter, Quiet, SameWait, TimerWakeup,
     ReadyToRun, Goto

\* An interrupter that takes the waiter is a quiet step.
LEMMA InterruptConsumeQuiet ==
  ASSUME IInv, NEW i \in Interrupters, NEW f \in Fibers, InterruptConsume(i, f)
  PROVE  Quiet
BY ActorKinds DEF IInv, Types, LabelTypes, Kinds, ButexWaiter, Quiet, SameWait,
     InterruptConsume, Goto

\* The interrupter's first look at the container is a quiet step.
LEMMA InterruptLoadQuiet ==
  ASSUME IInv, NEW i \in Interrupters, InterruptLoad(i)
  PROVE  Quiet
BY ActorKinds DEF IInv, Types, LabelTypes, Kinds, ButexWaiter, Quiet, SameWait, InterruptLoad,
     EraseLoad, Goto

\* The interrupter's wakeup of a waiter it has erased is a quiet step.
LEMMA InterruptWakeupQuiet ==
  ASSUME IInv, NEW i \in Interrupters, InterruptWakeup(i)
  PROVE  Quiet
BY ActorKinds DEF IInv, Types, LabelTypes, Kinds, ButexWaiter, Quiet, SameWait, InterruptWakeup,
     ReadyToRun, Goto

\* The interrupter that puts the waiter back is a quiet step.
LEMMA InterruptPutBackQuiet ==
  ASSUME IInv, NEW i \in Interrupters, InterruptPutBack(i)
  PROVE  Quiet
BY ActorKinds DEF IInv, Types, LabelTypes, Kinds, ButexWaiter, Quiet, SameWait,
     InterruptPutBack, Goto

\* The return of a pthread is a quiet step.
LEMMA PthreadReturnQuiet ==
  ASSUME IInv, NEW p \in Pthreads, PthreadReturn(p), UNCHANGED <<value, waiters, lock, ready,
                                                                 curWaiter, interrupted, seen,
                                                                 target, held, next>>
  PROVE  Quiet
BY ActorKinds DEF IInv, Types, LabelTypes, Kinds, ButexWaiter, Quiet, SameWait, PthreadReturn,
     NoWaiter, Goto

\* The timeout of a pthread is a quiet step.
LEMMA PthreadTimeoutQuiet ==
  ASSUME IInv, NEW p \in Pthreads, PthreadTimeout(p)
  PROVE  Quiet
BY ActorKinds DEF IInv, Types, LabelTypes, Kinds, ButexWaiter, Quiet, SameWait, PthreadTimeout, Goto

\* The pthread's first look at its container is a quiet step.
LEMMA PthreadEraseLoadQuiet ==
  ASSUME IInv, NEW p \in Pthreads, PthreadEraseLoad(p)
  PROVE  Quiet
BY ActorKinds DEF IInv, Types, LabelTypes, Kinds, ButexWaiter, Quiet, SameWait,
     PthreadEraseLoad, EraseLoad, Goto

\* The wakeup of a detached pthread is a quiet step.
LEMMA WakePthreadQuiet ==
  ASSUME IInv, NEW k \in Wakers, WakePthread(k)
  PROVE  Quiet
BY ActorKinds DEF IInv, Types, LabelTypes, Kinds, ButexWaiter, Quiet, SameWait, WakePthread, Goto

\* The wakeup of a detached fiber is a quiet step.
LEMMA WakeReadyQuiet ==
  ASSUME IInv, NEW k \in Wakers, WakeReady(k)
  PROVE  Quiet
BY ActorKinds DEF IInv, Types, LabelTypes, Kinds, ButexWaiter, Quiet, SameWait, WakeReady,
     ReadyToRun, Goto

\* wait_for_butex queues nobody.
LEMMA BackQuiet ==
  ASSUME IInv, NEW f \in Fibers, WaitForButexCheck(f),
         ~(value[bw[f].home] = bw[f].expected /\ bw[f].state = "READY" /\ ~interrupted[f])
  PROVE  Quiet
<1> DEFINE r == IF value[bw[f].home] # bw[f].expected
                THEN [bw[f] EXCEPT !.state = "UNMATCHEDVALUE"] ELSE bw[f]
<1>1. /\ bw' = [bw EXCEPT ![f] = r] /\ pc' = [pc EXCEPT ![f] = "blocked"]
      /\ UNCHANGED <<value, target>> /\ f \in Waiters /\ bw \in [Waiters -> ButexWaiter]
  BY DEF IInv, Types, Waiters, WaitForButexCheck, ReadyToRun, Goto
<1>2. r.home = bw[f].home /\ r.expected = bw[f].expected /\ r.container = bw[f].container
  BY <1>1 DEF ButexWaiter
<1> HIDE DEF r
<1>3. \A v \in Waiters : /\ SameWait(v)
                         /\ bw'[v].container # None => bw'[v].container = bw[v].container
  BY <1>1, <1>2, OneWaiter
<1>4. pc \in [Actors -> Labels]
  BY DEF IInv, Types, LabelTypes
<1> QED
  BY <1>1, <1>3, <1>4, ActorKinds DEF Quiet, Kinds

\* erase_from_butex, whoever calls it.
LEMMA EraseQuiet ==
  ASSUME IInv, NEW a \in Erasers, NEW w \in Waiters, NEW state, NEW l, l # "append",
         EraseLock(a, w, state, l), UNCHANGED <<value, target>>
  PROVE  Quiet
<1> DEFINE r == [bw[w] EXCEPT !.container = None,
    !.state = IF w \in Fibers THEN state ELSE bw[w].state]
<1>1. /\ bw' = bw \/ bw' = [bw EXCEPT ![w] = r]
      /\ \E m : m # "append" /\ pc' = [pc EXCEPT ![a] = m]
      /\ bw \in [Waiters -> ButexWaiter] /\ pc \in [Actors -> Labels]
  BY DEF IInv, Types, LabelTypes, EraseLock, Goto
<1>2. r.home = bw[w].home /\ r.expected = bw[w].expected /\ r.container = None
  BY <1>1 DEF ButexWaiter
<1> HIDE DEF r
<1>3. \A v \in Waiters : /\ SameWait(v)
                         /\ bw'[v].container # None => bw'[v].container = bw[v].container
  <2>1. CASE bw' = bw
    BY <2>1 DEF SameWait
  <2>2. CASE bw' = [bw EXCEPT ![w] = r]
    BY <1>1, <1>2, <2>2, OneWaiter
  <2> QED
    BY <1>1, <2>1, <2>2
<1>4. \A f \in Fibers : f \in Waiters /\ f \in Actors
  BY ActorKinds DEF Kinds
<1>5. \A k \in Wakers : k # a /\ k \in Actors
  BY ActorKinds DEF Kinds
<1>6. /\ \A f \in Fibers : pc'[f] = "append" => pc[f] = "append"
      /\ \A k \in Wakers : pc'[k] = pc[k]
  BY <1>1, <1>4, <1>5
<1> QED
  BY <1>3, <1>4, <1>6 DEF Quiet

\* A pthread that waits for its signal changes only the timeout.
LEMMA PthreadNotErasedQuiet ==
  ASSUME IInv, NEW p \in Pthreads, PthreadNotErased(p), ~sig[p]
  PROVE  Quiet
<1> DEFINE r == [bw[p] EXCEPT !.timed = FALSE]
<1>1. /\ bw' = [bw EXCEPT ![p] = r] /\ pc' = [pc EXCEPT ![p] = "blocked"]
      /\ UNCHANGED <<value, target>> /\ p \in Waiters /\ bw \in [Waiters -> ButexWaiter]
  BY DEF IInv, Types, Waiters, PthreadNotErased, Goto
<1>2. r.home = bw[p].home /\ r.expected = bw[p].expected /\ r.container = bw[p].container
  BY <1>1 DEF ButexWaiter
<1> HIDE DEF r
<1>3. \A v \in Waiters : /\ SameWait(v)
                         /\ bw'[v].container # None => bw'[v].container = bw[v].container
  BY <1>1, <1>2, OneWaiter
<1>4. pc \in [Actors -> Labels]
  BY DEF IInv, Types, LabelTypes
<1> QED
  BY <1>1, <1>3, <1>4, ActorKinds DEF Quiet, Kinds

\* unsleep_if_necessary changes no queue and no value.
LEMMA UnsleepHeldQuiet ==
  ASSUME IInv, NEW k \in Wakers, NEW x \in Fibers, NEW m, pc[k] # "set", UnsleepHeld(k, x, m),
         UNCHANGED <<value, target>>
  PROVE  Quiet
<1> DEFINE r == IF UnsleepOk(x) THEN [bw[x] EXCEPT !.sleep = FALSE] ELSE bw[x]
           l == IF bw[x].sleep /\ UnsleepOk(x) THEN "idle" ELSE pc[TimerOf(x)]
<1>1. /\ bw' = [bw EXCEPT ![x] = r]
      /\ x \in Waiters /\ bw \in [Waiters -> ButexWaiter] /\ pc \in [Actors -> Labels]
  BY DEF IInv, Types, LabelTypes, Waiters, UnsleepHeld
<1>2. r.home = bw[x].home /\ r.expected = bw[x].expected /\ r.container = bw[x].container
  BY <1>1 DEF ButexWaiter
<1>3. pc' = [pc EXCEPT ![k] = m, ![TimerOf(x)] = l]
  BY <1>1, ActorKinds DEF UnsleepHeld, Kinds
<1> HIDE DEF r, l
<1>4. \A v \in Waiters : /\ SameWait(v)
                         /\ bw'[v].container # None => bw'[v].container = bw[v].container
  BY <1>1, <1>2, OneWaiter
<1>5. \A f \in Fibers : f \in Waiters /\ pc'[f] = pc[f]
  BY <1>1, <1>3, ActorKinds DEF Kinds
<1>6. \A h \in Wakers : h # k => pc'[h] = pc[h]
  BY <1>1, <1>3, ActorKinds DEF Kinds
<1> QED
  BY <1>4, <1>5, <1>6 DEF Quiet

\* The value was as expected when waiter_lock was taken.
LEMMA LockValue ==
  ASSUME IInv, ValueInv, NEW f \in Fibers, WaitForButexCheck(f),
         value[bw[f].home] = bw[f].expected, bw[f].state = "READY", ~interrupted[f]
  PROVE  ValueInv'
<1>1. UNCHANGED <<value, bw,
                  target>> /\ pc' = [pc EXCEPT ![f] = "append"] /\ pc \in [Actors -> Labels]
  BY DEF IInv, Types, LabelTypes, WaitForButexCheck, Goto
<1>2. /\ \A g \in Fibers : g # f => pc'[g] = pc[g]
      /\ \A k \in Wakers : pc'[k] = pc[k]
  BY <1>1, ActorKinds DEF Kinds
<1>3. \A b \in Butexes, w \in Waiters : Stale(b, w)' => Stale(b, w)
  BY <1>1, <1>2 DEF Stale
<1>4. \A b \in Butexes : Pending(b) => Pending(b)'
  BY <1>1, <1>2 DEF Pending
<1> QED
  BY <1>3, <1>4, ValueKept

\* A stale waiter was about to be queued already.
LEMMA AppendValue ==
  ASSUME IInv, ValueInv, NEW f \in Fibers, WaitForButexAppend(f)
  PROVE  ValueInv'
<1> DEFINE r == [bw[f] EXCEPT !.container = bw[f].home, !.sleep = bw[f].timed]
           l == IF bw[f].timed THEN "scheduled" ELSE "idle"
<1>1. /\ UNCHANGED <<value, target>> /\ bw' = [bw EXCEPT ![f] = r] /\ pc[f] = "append"
      /\ pc' = [pc EXCEPT ![f] = "blocked", ![TimerOf(f)] = l]
      /\ f \in Waiters /\ bw \in [Waiters -> ButexWaiter] /\ pc \in [Actors -> Labels]
  BY DEF IInv, Types, LabelTypes, WaitForButexAppend, Waiters
<1>2. r.home = bw[f].home /\ r.expected = bw[f].expected
  BY <1>1 DEF ButexWaiter
<1> HIDE DEF r, l
<1>3. /\ \A g \in Fibers : g # f => pc'[g] = pc[g]
      /\ \A k \in Wakers : pc'[k] = pc[k]
  BY <1>1, ActorKinds DEF Kinds
<1>4. bw'[f] = r /\ \A w \in Waiters : w # f => bw'[w] = bw[w]
  BY <1>1
<1>5. \A b \in Butexes, w \in Waiters : Stale(b, w)' => Stale(b, w)
  BY <1>1, <1>2, <1>3, <1>4 DEF Stale
<1>6. \A b \in Butexes : Pending(b) => Pending(b)'
  BY <1>1, <1>3 DEF Pending
<1> QED
  BY <1>5, <1>6, ValueKept

\* The value is compared in the critical section that queues the pthread.
LEMMA PthreadWaitValue ==
  ASSUME IInv, ValueInv, NEW p \in Pthreads, NEW b \in Butexes, NEW e \in 0..MaxValue,
         NEW timed \in Timeouts, PthreadWait(p, b, e, timed)
  PROVE  ValueInv'
<1> DEFINE r == [NoWaiter EXCEPT !.container = b, !.home = b, !.expected = e, !.timed = timed]
<1>1. /\ UNCHANGED <<value, target>> /\ bw' = [bw EXCEPT ![p] = r] /\ value[b] = e
      /\ pc' = [pc EXCEPT ![p] = "blocked"]
      /\ p \in Waiters /\ bw \in [Waiters -> ButexWaiter] /\ pc \in [Actors -> Labels]
  BY DEF IInv, Types, LabelTypes, PthreadWait, Goto, Waiters
<1>2. r.home = b /\ r.expected = e
  BY DEF NoWaiter
<1> HIDE DEF r
<1>3. /\ \A g \in Fibers : g # p /\ pc'[g] = pc[g]
      /\ \A k \in Wakers : pc'[k] = pc[k]
  BY <1>1, ActorKinds DEF Kinds
<1>4. bw'[p] = r /\ \A w \in Waiters : w # p => bw'[w] = bw[w]
  BY <1>1
<1>5. \A d \in Butexes, w \in Waiters : Stale(d, w)' => Stale(d, w)
  BY <1>1, <1>2, <1>3, <1>4 DEF Stale
<1>6. \A d \in Butexes : Pending(d) => Pending(d)'
  BY <1>1, <1>3 DEF Pending
<1> QED
  BY <1>5, <1>6, ValueKept

\* Who changes the value has still to wake.
LEMMA SetValueValue ==
  ASSUME IInv, ValueInv, NEW k \in Wakers, NEW b \in Butexes, NEW v \in 0..MaxValue, SetValue(k, b, v)
  PROVE  ValueInv'
<1>1. /\ pc[k] = "idle" /\ UNCHANGED bw /\ value' = [value EXCEPT ![b] = v]
      /\ target' = [target EXCEPT ![k] = b] /\ pc' = [pc EXCEPT ![k] = "set"]
      /\ value \in [Butexes -> 0..MaxValue] /\ pc \in [Actors -> Labels]
      /\ target \in [Interrupters \cup Wakers -> Fibers \cup Butexes \cup {None}]
  BY DEF IInv, Types, LabelTypes, SetValue, Goto
<1>2. /\ \A g \in Fibers : pc'[g] = pc[g]
      /\ \A h \in Wakers : h # k => pc'[h] = pc[h] /\ target'[h] = target[h]
      /\ pc'[k] = "set" /\ target'[k] = b
      /\ \A d \in Butexes : d # b => value'[d] = value[d]
  BY <1>1, ActorKinds DEF Kinds
<1>3. Pending(b)'
  BY <1>2 DEF Pending
<1>4. \A d \in Butexes : d # b => (Pending(d) => Pending(d)')
  BY <1>1, <1>2 DEF Pending
<1>5. \A d \in Butexes, w \in Waiters : d # b => (Stale(d, w)' => Stale(d, w))
  BY <1>1, <1>2 DEF Stale
<1> QED
  BY <1>3, <1>4, <1>5 DEF ValueInv, Stale, Pending

\* butex_wake_all empties the queue, and nobody is inside wait_for_butex.
LEMMA WakeAllValue ==
  ASSUME IInv, ValueInv, NEW k \in Wakers, ButexWakeAll(k)
  PROVE  ValueInv'
<1>0. pc[k] = "set" /\ target[k] \in Butexes
  BY DEF ButexWakeAll, IInv, WakerInv
<1> PICK b \in Butexes : b = target[k]
  BY <1>0
<1> DEFINE D == ToSet(waiters[b])
           l == IF waiters[b] = << >> THEN "idle" ELSE "wakeAll"
<1>1. /\ lock[b] = None /\ b = target[k] /\ bw' = Uncontain(D) /\ UNCHANGED value
      /\ target' = [target EXCEPT ![k] = None] /\ pc' = [pc EXCEPT ![k] = l]
      /\ pc \in [Actors -> Labels] /\ bw \in [Waiters -> ButexWaiter]
      /\ target \in [Interrupters \cup Wakers -> Fibers \cup Butexes \cup {None}]
  BY DEF IInv, Types, LabelTypes, ButexWakeAll, Detach, Goto
<1>2. /\ \A g \in Fibers : pc'[g] = pc[g]
      /\ \A h \in Wakers : h # k => pc'[h] = pc[h] /\ target'[h] = target[h]
  BY <1>1, ActorKinds DEF Kinds
<1>3. \A w \in Waiters : w \in D <=> bw[w].container = b
  BY DEF IInv, QueueInv
<1> HIDE DEF D, l
<1>4. /\ \A w \in Waiters : w \in D =>
            bw'[w].container = None /\ bw'[w].home = bw[w].home /\ bw'[w].expected = bw[w].expected
      /\ \A w \in Waiters : w \notin D => bw'[w] = bw[w]
  <2>1. ASSUME NEW w \in Waiters, w \in D PROVE bw'[w] = [bw[w] EXCEPT !.container = None]
    BY <1>1, <2>1 DEF Uncontain
  <2>2. \A w \in Waiters : w \notin D => bw'[w] = bw[w]
    BY <1>1 DEF Uncontain
  <2> QED
    BY <1>1, <2>1, <2>2 DEF ButexWaiter
<1>5. \A f \in Fibers : pc[f] = "append" => bw[f].home # b
  BY <1>1, ActorKinds DEF IInv, LockInv, Kinds
<1>6. \A w \in Waiters : ~Stale(b, w)'
  <2>1. \A w \in Waiters : bw'[w].container # b
    BY <1>3, <1>4, ActorKinds DEF Kinds
  <2>2. \A w \in Waiters : bw'[w].home = bw[w].home
    BY <1>4
  <2> QED
    BY <1>2, <1>5, <2>1, <2>2 DEF Stale
<1>7. \A d \in Butexes, w \in Waiters : Stale(d, w)' => Stale(d, w)
  BY <1>1, <1>2, <1>3, <1>4, ActorKinds DEF Stale, Kinds
<1>8. \A d \in Butexes : d # b /\ Pending(d) => Pending(d)'
  BY <1>1, <1>2 DEF Pending
<1> QED
  BY <1>6, <1>7, <1>8 DEF ValueInv, Stale, Pending

\* Every step preserves ValueInv when all wakes are butex_wake_all.
LEMMA NextValue == IInv /\ ValueInv /\ WakeOps = {"wake_all"} /\ [Next]_vars => ValueInv'
<1> SUFFICES ASSUME IInv, ValueInv, WakeOps = {"wake_all"}, [Next]_vars PROVE ValueInv'
  OBVIOUS
<1>1. CASE UNCHANGED vars
  BY <1>1 DEF vars, ValueInv
<1>2. ASSUME NEW f \in Fibers, NEW b \in Butexes, NEW e \in 0..MaxValue, NEW timed \in Timeouts,
             FiberWait(f, b, e, timed)
      PROVE  ValueInv'
  BY <1>2, FiberWaitQuiet, ValueSame
<1>3. ASSUME NEW f \in Fibers, FiberStep(f) PROVE ValueInv'
  <2>1. CASE WaitForButexCheck(f)
    BY <2>1, LockValue, BackQuiet, ValueSame
  <2> QED
    BY <1>3, <2>1, AppendValue, ResumeQuiet, UnsleepQuiet, ConsumeQuiet, ReturnQuiet, ValueSame
         DEF FiberStep
<1>4. ASSUME NEW f \in Fibers, TimerStep(f) PROVE ValueInv'
  <2>1. CASE TimerLock(f)
    <3>1. TimerOf(f) \in Erasers /\ f \in Waiters
      BY ActorKinds DEF Kinds
    <3> QED
      BY <2>1, <3>1, EraseQuiet, ValueSame DEF TimerLock
  <2> QED
    BY <1>4, <2>1, TimerFireQuiet, TimerLoadQuiet, TimerWakeupQuiet, ValueSame DEF TimerStep
<1>5. ASSUME NEW i \in Interrupters, InterruptStep(i) PROVE ValueInv'
  <2>1. CASE InterruptLock(i)
    <3>1. i \in Erasers /\ target[i] \in Waiters
      BY <2>1, ActorKinds DEF Kinds, InterruptLock, IInv, InterruptInv
    <3> QED
      BY <2>1, <3>1, EraseQuiet, ValueSame DEF InterruptLock
  <2> QED
    BY <1>5, <2>1, InterruptLoadQuiet, InterruptWakeupQuiet, InterruptPutBackQuiet, ValueSame
         DEF InterruptStep
<1>6. ASSUME NEW i \in Interrupters, NEW f \in Fibers, InterruptConsume(i, f) PROVE ValueInv'
  BY <1>6, InterruptConsumeQuiet, ValueSame
<1>7. ASSUME NEW p \in Pthreads, PthreadStep(p) PROVE ValueInv'
  <2>1. CASE PthreadEraseLock(p)
    <3>1. p \in Erasers /\ p \in Waiters
      BY ActorKinds DEF Kinds
    <3> QED
      BY <2>1, <3>1, EraseQuiet, ValueSame DEF PthreadEraseLock
  <2>2. CASE PthreadSignalled(p) \/ PthreadErased(p)
    BY <2>2, PthreadReturnQuiet, ValueSame DEF PthreadSignalled, PthreadErased
  <2>3. CASE PthreadNotErased(p) /\ sig[p]
    BY <2>3, PthreadReturnQuiet, ValueSame DEF PthreadNotErased
  <2>4. CASE PthreadNotErased(p) /\ ~sig[p]
    BY <2>4, PthreadNotErasedQuiet, ValueSame
  <2> QED
    BY <1>7, <2>1, <2>2, <2>3, <2>4, PthreadTimeoutQuiet, PthreadEraseLoadQuiet, ValueSame DEF
         PthreadStep
<1>8. ASSUME NEW p \in Pthreads, NEW b \in Butexes, NEW e \in 0..MaxValue, NEW timed \in Timeouts,
             PthreadWait(p, b, e, timed)
      PROVE  ValueInv'
  BY <1>8, PthreadWaitValue
<1>9. ASSUME NEW k \in Wakers, WakerStep(k) PROVE ValueInv'
  <2>1. ~ButexWake(k) /\ (\A x \in Fibers \cup {None} : ~ButexWakeExcept(k, x))
        /\ \A m \in Butexes : ~ButexRequeue(k, m)
    BY DEF ButexWake, ButexWakeExcept, ButexRequeue
  <2>2. ASSUME OnlyFibers(held[k]), pc[k] \in {"wakeAll", "wakeRest"}
        PROVE  Head(held[k]) \in Fibers /\ Last(held[k]) \in Fibers
    <3>1. held[k] \in Seq(Waiters) /\ held[k] # << >> /\ IsInjective(held[k])
      BY <2>2 DEF IInv, Types, WakerInv, QueueInv
    <3> QED
      BY <2>2, <3>1, MembersOfTail, MembersOfFront DEF OnlyFibers, Last
  <2>3. CASE WakeNext(k)
    BY <2>2, <2>3, UnsleepHeldQuiet, ValueSame DEF WakeNext
  <2>4. CASE WakeUnsleep(k)
    BY <2>2, <2>4, UnsleepHeldQuiet, ValueSame DEF WakeUnsleep
  <2>5. CASE FutexWake(k)
    BY <2>5 DEF FutexWake, ValueInv
  <2> QED
    BY <1>9, <2>1, <2>3, <2>4, <2>5, WakeAllValue, WakePthreadQuiet, WakeReadyQuiet, ValueSame DEF
         WakerStep
<1>10. ASSUME NEW k \in Wakers, NEW b \in Butexes, NEW v \in 0..MaxValue, SetValue(k, b, v)
       PROVE  ValueInv'
  BY <1>10, SetValueValue
<1>11. ASSUME NEW p \in Pthreads, PthreadSleep(p) \/ PthreadInterrupted(p) PROVE ValueInv'
  BY <1>11 DEF PthreadSleep, PthreadInterrupted, ValueInv
<1> QED
  BY <1>1, <1>2, <1>3, <1>4, <1>5, <1>6, <1>7, <1>8, <1>9, <1>10, <1>11 DEF Next

\* With butex_wake_all, a waiter whose expected value is stale is queued only while the
\* thread that changed the value has still to wake (wait_for_butex looks at the value
\* again under waiter_lock).
THEOREM NoLostWakeupCorrect ==
  ASSUME WakeOps = {"wake_all"}
  PROVE  Spec => []NoLostWakeup
<1>1. Init => ValueInv
  BY ActorKinds DEF Init, ValueInv, NoWaiter, Kinds
<1>2. IInv /\ ValueInv /\ [Next]_vars => ValueInv'
  BY NextValue
<1>3. ValueInv => NoLostWakeup
  BY DEF ValueInv, NoLostWakeup
<1> QED
  BY <1>1, <1>2, <1>3, SpecInv, PTL DEF Spec
=============================================================================
