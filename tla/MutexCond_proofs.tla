--------------------------- MODULE MutexCond_proofs ---------------------------
(***************************************************************************)
(* The mutex excludes and forgets no waiter, for any number of fibers and  *)
(* pthreads, of calls and of timeouts and interruptions.                   *)
(***************************************************************************)
EXTENDS MutexCond, Integers, FiniteSets, Sequences, SequencesExt, SequenceTheorems,
        FiniteSetTheorems, TLAPS

\* The two queues are sequences in which nobody occurs twice; what the
\* operations on such a list do to its set of members.

\* The members of a list.
LEMMA MembersOfSeq ==
  ASSUME NEW S, NEW s \in Seq(S)
  PROVE  /\ ToSet(s) = {s[i] : i \in 1..Len(s)}
         /\ ToSet(s) \subseteq S
         /\ ToSet(s) = {} <=> s = << >>
         /\ IsInjective(s) <=> \A i, j \in 1..Len(s) : s[i] = s[j] => i = j
<1>1. DOMAIN s = 1..Len(s) /\ Len(s) \in Nat /\ \A i \in 1..Len(s) : s[i] \in S
  OBVIOUS
<1>2. s # << >> => 1 \in 1..Len(s)
  BY EmptySeq
<1>3. ToSet(s) = {s[i] : i \in 1..Len(s)}
  BY <1>1 DEF ToSet
<1>4. ToSet(s) = {} <=> s = << >>
  <2>1. s = << >> => Len(s) = 0
    OBVIOUS
  <2> QED
    BY <1>1, <1>2, <1>3, <2>1
<1>5. IsInjective(s) <=> \A i, j \in 1..Len(s) : s[i] = s[j] => i = j
  BY <1>1 DEF IsInjective
<1> QED
  BY <1>1, <1>3, <1>4, <1>5

\* The empty list.
LEMMA MembersOfEmpty == ToSet(<< >>) = {} /\ IsInjective(<< >>)
BY DEF ToSet, IsInjective

\* A new member at the end of the list.
LEMMA MembersOfAppend ==
  ASSUME NEW S, NEW s \in Seq(S), NEW e \in S
  PROVE  /\ Append(s, e) \in Seq(S) /\ Append(s, e) # << >>
         /\ ToSet(Append(s, e)) = ToSet(s) \cup {e}
         /\ IsInjective(s) /\ e \notin ToSet(s) => IsInjective(Append(s, e))
<1> DEFINE t == Append(s, e)
<1>1. /\ t \in Seq(S) /\ t # << >> /\ Len(t) = Len(s) + 1 /\ Len(s) \in Nat
      /\ \A i \in 1..Len(s) : t[i] = s[i]
      /\ t[Len(s) + 1] = e
  BY AppendProperties
<1> HIDE DEF t
<1>2. ToSet(t) = ToSet(s) \cup {e}
  BY <1>1, MembersOfSeq
<1>3. ASSUME IsInjective(s), e \notin ToSet(s) PROVE IsInjective(t)
  <2>1. \A i \in 1..Len(s) : s[i] # e
    BY <1>3, MembersOfSeq
  <2>2. \A i, j \in 1..Len(s) : s[i] = s[j] => i = j
    BY <1>3, MembersOfSeq
  <2>3. \A i, j \in 1..Len(t) : t[i] = t[j] => i = j
    BY <1>1, <2>1, <2>2
  <2> QED
    BY <1>1, <2>3, MembersOfSeq
<1> QED
  BY <1>1, <1>2, <1>3 DEF t

\* The head is taken off the list.
LEMMA MembersOfTail ==
  ASSUME NEW S, NEW s \in Seq(S), s # << >>, IsInjective(s)
  PROVE  /\ Tail(s) \in Seq(S) /\ IsInjective(Tail(s))
         /\ Head(s) \in ToSet(s)
         /\ ToSet(Tail(s)) = ToSet(s) \ {Head(s)}
<1> DEFINE t == Tail(s)
<1>1. /\ t \in Seq(S) /\ Len(t) = Len(s) - 1 /\ Len(s) \in Nat \ {0}
      /\ \A i \in 1..Len(t) : t[i] = s[i + 1]
  BY HeadTailProperties, EmptySeq
<1>2. Head(s) = s[1]
  BY <1>1
<1> HIDE DEF t
<1>3. \A i, j \in 1..Len(s) : s[i] = s[j] => i = j
  BY MembersOfSeq
<1>4. IsInjective(t)
  <2>1. \A i, j \in 1..Len(t) : t[i] = t[j] => i = j
    BY <1>1, <1>3
  <2> QED
    BY <1>1, <2>1, MembersOfSeq
<1>5. ToSet(t) = {t[i] : i \in 1..Len(t)} /\ ToSet(s) = {s[i] : i \in 1..Len(s)}
  BY <1>1, MembersOfSeq
<1>6. ToSet(t) \subseteq ToSet(s) \ {Head(s)}
  BY <1>1, <1>2, <1>3, <1>5
<1>7. ASSUME NEW x \in ToSet(s) \ {Head(s)} PROVE x \in ToSet(t)
  <2>1. PICK i \in 1..Len(s) : s[i] = x
    BY <1>5
  <2>2. i - 1 \in 1..Len(t) /\ t[i - 1] = x
    BY <1>1, <1>2, <2>1
  <2> QED
    BY <1>5, <2>2
<1>8. Head(s) \in ToSet(s)
  BY <1>1, <1>2, <1>5
<1> QED
  BY <1>1, <1>4, <1>6, <1>7, <1>8 DEF t

\* One list after another.
LEMMA MembersOfConcat ==
  ASSUME NEW S, NEW s \in Seq(S), NEW t \in Seq(S)
  PROVE  /\ s \o t \in Seq(S)
         /\ ToSet(s \o t) = ToSet(s) \cup ToSet(t)
         /\ IsInjective(s) /\ IsInjective(t) /\ ToSet(s) \cap ToSet(t) = {}
              => IsInjective(s \o t)
<1> DEFINE u == s \o t
<1>1. /\ u \in Seq(S) /\ Len(u) = Len(s) + Len(t) /\ Len(s) \in Nat /\ Len(t) \in Nat
      /\ \A i \in 1..Len(s) + Len(t) : u[i] = IF i <= Len(s) THEN s[i] ELSE t[i - Len(s)]
  BY ConcatProperties
<1> HIDE DEF u
<1>2. /\ \A i \in 1..Len(s) : i \in 1..Len(u) /\ u[i] = s[i]
      /\ \A i \in 1..Len(t) : i + Len(s) \in 1..Len(u) /\ u[i + Len(s)] = t[i]
      /\ \A i \in 1..Len(u) : \/ i \in 1..Len(s) /\ u[i] = s[i]
                              \/ i - Len(s) \in 1..Len(t) /\ u[i] = t[i - Len(s)]
  BY <1>1
<1>3. /\ ToSet(s) = {s[i] : i \in 1..Len(s)} /\ ToSet(t) = {t[i] : i \in 1..Len(t)}
      /\ ToSet(u) = {u[i] : i \in 1..Len(u)}
  BY <1>1, MembersOfSeq
<1>4. ToSet(u) \subseteq ToSet(s) \cup ToSet(t)
  BY <1>2, <1>3
<1>5. ToSet(s) \subseteq ToSet(u) /\ ToSet(t) \subseteq ToSet(u)
  BY <1>2, <1>3
<1>6. ASSUME IsInjective(s), IsInjective(t), ToSet(s) \cap ToSet(t) = {}
      PROVE  IsInjective(u)
  <2>1. /\ \A i, j \in 1..Len(s) : s[i] = s[j] => i = j
        /\ \A i, j \in 1..Len(t) : t[i] = t[j] => i = j
    BY <1>6, MembersOfSeq
  <2>2. \A i \in 1..Len(s), j \in 1..Len(t) : s[i] # t[j]
    BY <1>3, <1>6
  <2>3. ASSUME NEW i \in 1..Len(u), NEW j \in 1..Len(u), u[i] = u[j] PROVE i = j
    <3>1. CASE i \in 1..Len(s) /\ u[i] = s[i]
      <4>1. ~(j - Len(s) \in 1..Len(t) /\ u[j] = t[j - Len(s)])
        BY <2>2, <2>3, <3>1
      <4>2. j \in 1..Len(s) /\ s[i] = s[j]
        BY <1>2, <2>3, <3>1, <4>1
      <4> QED
        BY <2>1, <3>1, <4>2
    <3>2. CASE i - Len(s) \in 1..Len(t) /\ u[i] = t[i - Len(s)]
      <4>1. j \notin 1..Len(s)
        BY <1>2, <2>2, <2>3, <3>2
      <4>2. j - Len(s) \in 1..Len(t) /\ t[i - Len(s)] = t[j - Len(s)]
        BY <1>2, <2>3, <3>2, <4>1
      <4> QED
        BY <1>1, <2>1, <3>2, <4>2
    <3> QED
      BY <1>2, <3>1, <3>2
  <2> QED
    BY <1>1, <2>3, MembersOfSeq
<1> QED
  BY <1>1, <1>4, <1>5, <1>6 DEF u

\* RemoveFromList: one member leaves, wherever it is.
LEMMA MembersOfRemove ==
  ASSUME NEW S, NEW s \in Seq(S), NEW e, IsInjective(s)
  PROVE  /\ RemoveFirst(s, e) \in Seq(S) /\ IsInjective(RemoveFirst(s, e))
         /\ ToSet(RemoveFirst(s, e)) = ToSet(s) \ {e}
<1>0. /\ Len(s) \in Nat /\ ToSet(s) = {s[i] : i \in 1..Len(s)}
      /\ \A i, j \in 1..Len(s) : s[i] = s[j] => i = j
      /\ \A i \in 1..Len(s) : s[i] \in S
  BY MembersOfSeq
<1>1. CASE ~ \E i \in 1..Len(s) : s[i] = e
  BY <1>0, <1>1 DEF RemoveFirst
<1>2. ASSUME NEW k \in 1..Len(s), s[k] = e
      PROVE  /\ RemoveFirst(s, e) \in Seq(S) /\ IsInjective(RemoveFirst(s, e))
             /\ ToSet(RemoveFirst(s, e)) = ToSet(s) \ {e}
  <2> DEFINE a == SubSeq(s, 1, k - 1)
             b == SubSeq(s, k + 1, Len(s))
  <2>1. RemoveFirst(s, e) = a \o b
    <3>1. {i \in 1..Len(s) : s[i] = e} = {k}
      BY <1>0, <1>2
    <3>2. Min({k}) = k
      BY DEF Min
    <3>3. SelectInSeq(s, LAMBDA v : v = e) = k
      BY <3>1, <3>2 DEF SelectInSeq
    <3> QED
      BY <1>2, <3>3 DEF RemoveFirst, RemoveAt
  <2>2. /\ a \in Seq(S) /\ Len(a) = k - 1 /\ \A i \in 1..(k - 1) : a[i] = s[i]
        /\ b \in Seq(S) /\ Len(b) = Len(s) - k
        /\ \A i \in 1..(Len(s) - k) : b[i] = s[k + i]
    BY <1>0
  <2> HIDE DEF a, b
  <2>3. IsInjective(a) /\ IsInjective(b)
    <3>1. ASSUME NEW i \in 1..Len(a), NEW j \in 1..Len(a), a[i] = a[j] PROVE i = j
      <4>1. i \in 1..Len(s) /\ j \in 1..Len(s) /\ a[i] = s[i] /\ a[j] = s[j]
        BY <1>0, <2>2
      <4> QED
        BY <1>0, <3>1, <4>1
    <3>2. ASSUME NEW i \in 1..Len(b), NEW j \in 1..Len(b), b[i] = b[j] PROVE i = j
      <4>1. /\ k + i \in 1..Len(s) /\ k + j \in 1..Len(s)
            /\ b[i] = s[k + i] /\ b[j] = s[k + j]
        BY <1>0, <2>2
      <4>2. k + i = k + j
        BY <1>0, <3>2, <4>1
      <4> QED
        BY <2>2, <4>2
    <3> QED
      BY <2>2, <3>1, <3>2, MembersOfSeq
  <2>4. ToSet(a) = {a[i] : i \in 1..Len(a)} /\ ToSet(b) = {b[i] : i \in 1..Len(b)}
    BY <2>2, MembersOfSeq
  <2>5. ToSet(a) \cap ToSet(b) = {}
    <3>1. ASSUME NEW i \in 1..Len(a), NEW j \in 1..Len(b) PROVE a[i] # b[j]
      <4>1. /\ i \in 1..Len(s) /\ k + j \in 1..Len(s) /\ i # k + j
            /\ a[i] = s[i] /\ b[j] = s[k + j]
        BY <1>0, <2>2
      <4> QED
        BY <1>0, <4>1
    <3> QED
      BY <2>4, <3>1
  <2>6. ToSet(a) \cup ToSet(b) \subseteq ToSet(s) \ {e}
    BY <1>0, <1>2, <2>2, <2>4
  <2>7. ASSUME NEW x \in ToSet(s) \ {e} PROVE x \in ToSet(a) \cup ToSet(b)
    <3>1. PICK i \in 1..Len(s) : s[i] = x
      BY <1>0
    <3>2. CASE i < k
      BY <1>0, <2>2, <2>4, <3>1, <3>2
    <3>3. CASE i > k
      <4>1. i - k \in 1..Len(b) /\ b[i - k] = x
        BY <1>0, <2>2, <3>1, <3>3
      <4> QED
        BY <2>4, <4>1
    <3> QED
      BY <1>0, <1>2, <3>1, <3>2, <3>3
  <2> QED
    BY <2>1, <2>2, <2>3, <2>5, <2>6, <2>7, MembersOfConcat
<1> QED
  BY <1>1, <1>2

\* A list without duplicates is as long as it has members.
LEMMA CountMembers ==
  ASSUME NEW S, NEW s \in Seq(S), IsInjective(s)
  PROVE  IsFiniteSet(ToSet(s)) /\ Cardinality(ToSet(s)) = Len(s)
<1>1. /\ Len(s) \in Nat /\ ToSet(s) = {s[i] : i \in 1..Len(s)}
      /\ \A i, j \in 1..Len(s) : s[i] = s[j] => i = j
      /\ s \in [1..Len(s) -> S]
  BY MembersOfSeq
<1>2. s \in Bijection(1..Len(s), ToSet(s))
  BY <1>1 DEF Bijection, Injection, Surjection, IsInjective
<1>3. ExistsBijection(1..Len(s), ToSet(s))
  BY <1>2 DEF ExistsBijection
<1>4. IsFiniteSet(1..Len(s)) /\ Cardinality(1..Len(s)) = Len(s)
  BY <1>1, FS_Interval
<1> QED
  BY <1>3, <1>4, FS_Bijection

\* A set of which one possible member is decided anew.
LEMMA CountChange ==
  ASSUME NEW A, NEW B, NEW x, IsFiniteSet(A), A \ {x} = B \ {x}
  PROVE  /\ IsFiniteSet(B) /\ Cardinality(A) \in Nat /\ Cardinality(B) \in Nat
         /\ Cardinality(B) = Cardinality(A) + (IF x \in B THEN 1 ELSE 0)
                                            - (IF x \in A THEN 1 ELSE 0)
<1>1. /\ IsFiniteSet(A \ {x}) /\ Cardinality(A) \in Nat
      /\ Cardinality(A \ {x}) = IF x \in A THEN Cardinality(A) - 1 ELSE Cardinality(A)
  BY FS_RemoveElement, FS_CardinalityType
<1>2. B = IF x \in B THEN (A \ {x}) \cup {x} ELSE A \ {x}
  OBVIOUS
<1>3. /\ IsFiniteSet((A \ {x}) \cup {x})
      /\ Cardinality((A \ {x}) \cup {x}) = Cardinality(A \ {x}) + 1
  BY <1>1, FS_AddElement
<1>4. IsFiniteSet(B)
  BY <1>1, <1>2, <1>3
<1>5. Cardinality(B) \in Nat
  BY <1>4, FS_CardinalityType
<1>6. Cardinality(B) = IF x \in B THEN Cardinality(A \ {x}) + 1 ELSE Cardinality(A \ {x})
  BY <1>2, <1>3
<1> QED
  BY <1>1, <1>4, <1>5, <1>6

-----------------------------------------------------------------------------

\* Nobody is queued twice, and only a thread in butex_wait has been woken.
QueueInv ==
    /\ IsInjective(mq) /\ IsInjective(cq) /\ ToSet(mq) \cap ToSet(cq) = {}
    /\ ToSet(mq) \cup ToSet(cq) = Waiters
    /\ \A t \in Threads : woken[t] => Queued(t)

\* Where unlock, signal and broadcast return to: a signal made under the mutex
\* returns to the critical section, an unlock never does.
ReturnInv ==
    \A t \in Threads : /\ pc[t] = "unlocked" => next[t] \in {"idle", "cwait"}
                       /\ pc[t] \in {"signal", "broadcast"} => next[t] \in {"idle", "hold"}

\* MutualExclusion without counting.
HolderInv ==
    /\ word = "free" <=> Holders = {}
    /\ \A t, u \in Holders : t = u

Producers == {t \in Threads : job[t] = "produce"}
Owers == {t \in Threads : owes[t]}

\* Every item and every notification is due to a call of its own.
CountInv ==
    /\ items + Cardinality(Producers) <= calls
    /\ seq + Cardinality(Owers) + Cardinality(Producers) <= calls

IInv == Types /\ QueueInv /\ ReturnInv /\ HolderInv /\ CountInv /\ MutexWaitersHaveWaker

\* What the steps below use of the constants.
LEMMA Constants == IsFiniteSet(Threads) /\ MaxCalls \in Nat /\ MaxBreaks \in Nat
BY BoundsAssumption, ThreadsAssumption, FS_Union DEF Threads

\* Sets of threads are finite.
LEMMA Counts ==
  ASSUME NEW A, A \subseteq Threads
  PROVE  IsFiniteSet(A) /\ Cardinality(A) \in Nat
BY Constants, FS_Subset, FS_CardinalityType

\* Two lists of different members.
LEMMA CountBoth ==
  ASSUME NEW S, NEW s \in Seq(S), NEW t \in Seq(S), IsInjective(s), IsInjective(t),
         ToSet(s) \cap ToSet(t) = {}
  PROVE  Len(s) + Len(t) = Cardinality(ToSet(s) \cup ToSet(t))
<1>1. /\ IsFiniteSet(ToSet(s)) /\ Cardinality(ToSet(s)) = Len(s)
      /\ IsFiniteSet(ToSet(t)) /\ Cardinality(ToSet(t)) = Len(t)
      /\ Len(s) \in Nat /\ Len(t) \in Nat
  <2>1. IsFiniteSet(ToSet(s)) /\ Cardinality(ToSet(s)) = Len(s)
    BY CountMembers
  <2>2. IsFiniteSet(ToSet(t)) /\ Cardinality(ToSet(t)) = Len(t)
    BY CountMembers
  <2>3. Len(s) \in Nat
    BY LenProperties
  <2>4. Len(t) \in Nat
    BY LenProperties
  <2> QED
    BY <2>1, <2>2, <2>3, <2>4
<1>2. Cardinality(ToSet(s) \cup ToSet(t))
        = Cardinality(ToSet(s)) + Cardinality(ToSet(t)) - Cardinality(ToSet(s) \cap ToSet(t))
  BY <1>1, FS_Union
<1>3. Cardinality(ToSet(s) \cap ToSet(t)) = 0
  BY FS_EmptySet
<1> QED
  BY <1>1, <1>2, <1>3

\* The properties that the runs check follow from the invariant.
LEMMA InvImplies == IInv => TypeOK /\ MutualExclusion
<1> SUFFICES ASSUME IInv PROVE TypeOK /\ MutualExclusion
  OBVIOUS
<1>1. TypeOK
  BY CountBoth DEF IInv, TypeOK, Types, QueueInv
<1>2. Holders \subseteq Threads
  BY DEF Holders
<1>3. Holders = {} \/ \E t : Holders = {t}
  BY DEF IInv, HolderInv
<1>4. Cardinality(Holders) = IF Holders = {} THEN 0 ELSE 1
  BY <1>3, FS_EmptySet, FS_Singleton
<1> QED
  BY <1>1, <1>4 DEF IInv, HolderInv, MutualExclusion

\* A free mutex without waiters satisfies the invariant.
LEMMA InitInv == Init => IInv
<1> SUFFICES ASSUME Init PROVE IInv
  OBVIOUS
<1> USE Constants DEF Init
<1>1. Types
  <2>1. mq \in Seq(Threads) /\ cq \in Seq(Threads)
    BY EmptySeq
  <2>2. /\ bound \in BOOLEAN /\ lost \in BOOLEAN /\ timed \in [Threads -> BOOLEAN]
        /\ woken \in [Threads -> BOOLEAN] /\ owes \in [Threads -> BOOLEAN]
    BY Zenon
  <2>3. /\ pc \in [Threads -> {"idle", "hold", "exchange", "wait", "queued", "unlocked", "bound",
                               "cwait", "cqueued", "signal", "broadcast"}]
        /\ next \in [Threads -> {"idle", "hold", "cwait"}]
        /\ job \in [Threads -> {"none", "consume", "produce"}]
        /\ exp \in [Threads -> 0..MaxCalls]
    OBVIOUS
  <2> QED
    BY <2>1, <2>2, <2>3 DEF Types
<1>2. Waiters = {} /\ Holders = {}
  BY DEF Waiters, Queued, Holders
<1>3. QueueInv
  BY <1>2, MembersOfEmpty DEF QueueInv
<1>4. ReturnInv /\ HolderInv /\ MutexWaitersHaveWaker
  BY <1>2 DEF ReturnInv, HolderInv, MutexWaitersHaveWaker
<1>5. Producers = {} /\ Owers = {}
  BY DEF Producers, Owers
<1>6. CountInv
  BY <1>5, FS_EmptySet DEF CountInv
<1> QED
  BY <1>1, <1>3, <1>4, <1>6 DEF IInv

\* Every step of the threads preserves the invariant.
LEMMA NextInv == IInv /\ [Next]_vars => IInv'
<1> SUFFICES ASSUME IInv, [Next]_vars PROVE IInv'
  OBVIOUS
<1> USE Constants DEF IInv, threadVars
<1>0. /\ IsFiniteSet(Producers) /\ Cardinality(Producers) \in Nat
      /\ IsFiniteSet(Owers) /\ Cardinality(Owers) \in Nat
      /\ seq \in Nat /\ items \in Nat /\ calls \in Nat
  BY Counts DEF Producers, Owers, Types
<1>1. ASSUME NEW t \in Threads, NEW j \in {"consume", "produce"}, NEW withTime \in BOOLEAN,
           Lock(t, j, withTime)
     PROVE  IInv'
  <2>1. CountInv'
    <3>1. Producers \ {t} = Producers' \ {t} /\ Owers \ {t} = Owers' \ {t}
      BY <1>1 DEF Lock, Call, Goto, Types, Producers, Owers
    <3>2. /\ Cardinality(Producers') = Cardinality(Producers) + (IF t \in Producers' THEN 1 ELSE 0)
                                                            - (IF t \in Producers THEN 1 ELSE 0)
          /\ Cardinality(Owers') = Cardinality(Owers) + (IF t \in Owers' THEN 1 ELSE 0)
                                                    - (IF t \in Owers THEN 1 ELSE 0)
      BY <1>0, <3>1, CountChange
    <3> QED
      BY <1>0, <1>1, <3>2 DEF Lock, Call, Goto, Types, Producers, Owers, CountInv
  <2>0. Cardinality(Producers') \in Nat /\ Cardinality(Owers') \in Nat
    BY Counts DEF Producers, Owers
  <2>2. Types'
    BY <1>0, <1>1, <2>1 DEF Lock, Call, Goto, Types, CountInv
  <2>3. QueueInv'
    <3>1. Waiters' = Waiters
      BY <1>1 DEF Lock, Call, Goto, Types, Waiters, Queued, QueueInv
    <3> QED
      BY <1>1, <3>1 DEF Lock, Call, Goto, Types, QueueInv, Queued
  <2>4. ReturnInv'
    BY <1>1 DEF Lock, Call, Goto, Types, ReturnInv
  <2>5. HolderInv'
    BY <1>1 DEF Lock, Call, Goto, Types, HolderInv, Holders, ReturnInv
  <2>6. MutexWaitersHaveWaker'
    BY <1>1 DEF Lock, Call, Goto, Types, MutexWaitersHaveWaker, MutexWaker, Queued
  <2> QED
    BY <2>1, <2>2, <2>3, <2>4, <2>5, <2>6
<1>2. ASSUME NEW t \in Threads, LockExchange(t) PROVE IInv'
  <2>1. CountInv'
    <3>1. Producers' = Producers /\ Owers' = Owers
      BY <1>2 DEF LockExchange, Goto, Producers, Owers
    <3> QED
      BY <1>2, <3>1 DEF LockExchange, Goto, CountInv
  <2>2. Types'
    BY <1>0, <1>2, <2>1 DEF LockExchange, Goto, Types, CountInv
  <2>3. QueueInv'
    <3>1. Waiters' = Waiters
      BY <1>2 DEF LockExchange, Goto, Types, Waiters, Queued, QueueInv
    <3> QED
      BY <1>2, <3>1 DEF LockExchange, Goto, Types, QueueInv, Queued
  <2>4. ReturnInv'
    BY <1>2 DEF LockExchange, Goto, Types, ReturnInv
  <2>5. HolderInv'
    BY <1>2 DEF LockExchange, Goto, Types, HolderInv, Holders, ReturnInv
  <2>6. MutexWaitersHaveWaker'
    BY <1>2 DEF LockExchange, Goto, Types, MutexWaitersHaveWaker, MutexWaker, Queued
  <2> QED
    BY <2>1, <2>2, <2>3, <2>4, <2>5, <2>6
<1>3. ASSUME NEW t \in Threads, LockWait(t) PROVE IInv'
  <2>1. CountInv'
    <3>1. Producers' = Producers /\ Owers' = Owers
      BY <1>3 DEF LockWait, Goto, Producers, Owers
    <3> QED
      BY <1>3, <3>1 DEF LockWait, Goto, CountInv
  <2>2. Types'
    <3>1. mq' \in Seq(Threads)
      <4>1. Append(mq, t) \in Seq(Threads)
        BY AppendProperties DEF Types
      <4>2. mq' = Append(mq, t) \/ UNCHANGED mq
        BY <1>3 DEF LockWait
      <4> QED
        BY <4>1, <4>2 DEF Types
    <3>2. pc' \in [Threads -> {"idle", "hold", "exchange", "wait", "queued", "unlocked", "bound",
                              "cwait", "cqueued", "signal", "broadcast"}]
      BY <1>3 DEF LockWait, Goto, Types
    <3> QED
      BY <1>3, <3>1, <3>2 DEF LockWait, Types
  <2>3. QueueInv'
    <3>0. /\ t \notin Waiters /\ ~woken[t] /\ UNCHANGED <<woken, cq>>
      BY <1>3 DEF LockWait, Waiters, Queued, QueueInv
    <3>1. CASE word = "contended"
      <4>1. mq' = Append(mq, t) /\ pc' = [pc EXCEPT ![t] = "queued"]
        BY <1>3, <3>1 DEF LockWait, Goto
      <4>2. Waiters' = Waiters \cup {t} /\ \A u \in Threads : Queued(u) => Queued(u)'
        BY <3>0, <4>1 DEF Waiters, Queued, Types
      <4>3. ToSet(mq') = ToSet(mq) \cup {t} /\ IsInjective(mq')
        BY <3>0, <4>1, MembersOfAppend DEF Types, QueueInv
      <4> QED
        BY <3>0, <4>2, <4>3 DEF QueueInv
    <3>2. CASE ~(word = "contended")
      <4>1. UNCHANGED mq /\ pc' = [pc EXCEPT ![t] = "exchange"] /\ ~Queued(t)
        BY <1>3, <3>2 DEF LockWait, Goto, Queued
      <4>2. Waiters' = Waiters /\ \A u \in Threads : Queued(u) => Queued(u)'
        BY <3>0, <4>1 DEF Waiters, Queued, Types
      <4> QED
        BY <3>0, <4>1, <4>2 DEF QueueInv
    <3> QED
      BY <3>1, <3>2
  <2>4. ReturnInv'
    BY <1>3 DEF LockWait, Goto, Types, ReturnInv
  <2>5. HolderInv'
    BY <1>3 DEF LockWait, Goto, Types, HolderInv, Holders, ReturnInv
  <2>6. MutexWaitersHaveWaker'
    BY <1>3 DEF LockWait, Goto, Types, MutexWaitersHaveWaker, MutexWaker, Queued
  <2> QED
    BY <2>1, <2>2, <2>3, <2>4, <2>5, <2>6
<1>4. ASSUME NEW t \in Threads, Unlock(t) PROVE IInv'
  <2>1. CountInv'
    <3>1. Producers \ {t} = Producers' \ {t} /\ Owers \ {t} = Owers' \ {t}
      BY <1>4 DEF Unlock, Release, Goto, Types, Producers, Owers
    <3>2. /\ Cardinality(Producers') = Cardinality(Producers) + (IF t \in Producers' THEN 1 ELSE 0)
                                                            - (IF t \in Producers THEN 1 ELSE 0)
          /\ Cardinality(Owers') = Cardinality(Owers) + (IF t \in Owers' THEN 1 ELSE 0)
                                                    - (IF t \in Owers THEN 1 ELSE 0)
      BY <1>0, <3>1, CountChange
    <3> QED
      BY <1>0, <1>4, <3>2 DEF Unlock, Release, Goto, Types, Producers, Owers, CountInv
  <2>2. Types'
    BY <1>0, <1>4, <2>1 DEF Unlock, Release, Goto, Types, CountInv
  <2>3. QueueInv'
    <3>1. Waiters' = Waiters
      BY <1>4 DEF Unlock, Release, Goto, Types, Waiters, Queued, QueueInv
    <3> QED
      BY <1>4, <3>1 DEF Unlock, Release, Goto, Types, QueueInv, Queued
  <2>4. ReturnInv'
    BY <1>4 DEF Unlock, Release, Goto, Types, ReturnInv
  <2>5. HolderInv'
    <3>1. t \in Holders /\ Holders = {t} /\ word' = "free"
      BY <1>4 DEF Unlock, Release, Holders, HolderInv
    <3>2. /\ pc'[t] \in {"idle", "unlocked", "cwait"}
          /\ \A u \in Threads \ {t} : pc'[u] = pc[u] /\ next'[u] = next[u]
      BY <1>4 DEF Unlock, Release, Goto, Types
    <3>3. Holders' = {}
      BY <3>1, <3>2 DEF Holders
    <3> QED
      BY <3>1, <3>3 DEF HolderInv
  <2>6. MutexWaitersHaveWaker'
    BY <1>4 DEF Unlock, Release, Goto, Types, MutexWaitersHaveWaker, MutexWaker, Queued
  <2> QED
    BY <2>1, <2>2, <2>3, <2>4, <2>5, <2>6
<1>5. ASSUME NEW t \in Threads, UnlockWake(t) PROVE IInv'
  <2>1. CountInv'
    <3>1. Producers' = Producers /\ Owers' = Owers
      BY <1>5 DEF UnlockWake, Return, Goto, Woken, Producers, Owers
    <3> QED
      BY <1>5, <3>1 DEF UnlockWake, Return, Goto, Woken, CountInv
  <2>2. Types'
    <3>1. mq' \in Seq(Threads)
      <4>1. mq # << >> => Tail(mq) \in Seq(Threads)
        BY HeadTailProperties DEF Types
      <4>2. UNCHANGED mq \/ (mq # << >> /\ mq' = Tail(mq))
        BY <1>5 DEF UnlockWake
      <4> QED
        BY <4>1, <4>2 DEF Types
    <3>2. /\ pc' \in [Threads -> {"idle", "hold", "exchange", "wait", "queued", "unlocked", "bound",
                              "cwait", "cqueued", "signal", "broadcast"}]
          /\ next' \in [Threads -> {"idle", "hold", "cwait"}]
      BY <1>5 DEF UnlockWake, Return, Goto, Types
    <3>3. woken' \in [Threads -> BOOLEAN]
      BY <1>5 DEF UnlockWake, Woken, Types
    <3> QED
      BY <1>5, <3>1, <3>2, <3>3 DEF UnlockWake, Types
  <2>3. QueueInv'
    <3>0. pc' = [pc EXCEPT ![t] = next[t]] /\ next[t] \in {"idle", "hold", "cwait"} /\ ~Queued(t)
      BY <1>5 DEF UnlockWake, Return, Goto, Types, Queued
    <3>1. \A u \in Threads : Queued(u)' <=> Queued(u)
      BY <3>0 DEF Queued, Types
    <3>2. CASE mq = << >>
      <4>1. Waiters' = Waiters
        BY <1>5, <3>1, <3>2 DEF UnlockWake, Waiters
      <4> QED
        BY <1>5, <3>1, <3>2, <4>1 DEF UnlockWake, QueueInv
    <3>3. CASE mq # << >>
      <4> DEFINE h == Head(mq)
      <4>1. /\ Tail(mq) \in Seq(Threads) /\ IsInjective(Tail(mq))
            /\ h \in ToSet(mq) /\ ToSet(Tail(mq)) = ToSet(mq) \ {h}
        BY <3>3, MembersOfTail DEF Types, QueueInv
      <4>2. h \in Waiters /\ h \in Threads /\ Queued(h)
        BY <4>1 DEF QueueInv, Waiters
      <4>3. /\ mq' = Tail(mq) /\ UNCHANGED cq
            /\ woken' = [woken EXCEPT ![h] = TRUE]
        BY <1>5, <3>3 DEF UnlockWake, Woken
      <4>4. Waiters' = Waiters \ {h}
        BY <3>1, <4>2, <4>3 DEF Waiters, Types
      <4> HIDE DEF h
      <4> QED
        BY <3>1, <4>1, <4>2, <4>3, <4>4 DEF QueueInv, Types
    <3> QED
      BY <3>2, <3>3
  <2>4. ReturnInv'
    BY <1>5 DEF UnlockWake, Return, Goto, Woken, Types, ReturnInv
  <2>5. HolderInv'
    <3>1. UNCHANGED word /\ \A u \in Threads \ {t} : pc'[u] = pc[u] /\ next'[u] = next[u]
      BY <1>5 DEF UnlockWake, Return, Goto, Types
    <3>2. t \in Holders' <=> t \in Holders
      BY <1>5 DEF UnlockWake, Return, Goto, Types, Holders, ReturnInv
    <3>3. Holders' = Holders
      BY <3>1, <3>2 DEF Holders
    <3> QED
      BY <3>1, <3>3 DEF HolderInv
  <2>6. MutexWaitersHaveWaker'
    <3>1. CASE mq = << >>
      BY <1>5, <3>1 DEF UnlockWake, MutexWaitersHaveWaker
    <3>2. CASE mq # << >>
      <4>1. PICK h \in Threads : h = Head(mq) /\ Queued(h)
        BY <3>2, MembersOfTail DEF Types, QueueInv, Waiters
      <4>2. pc[t] = "unlocked" /\ pc' = [pc EXCEPT ![t] = next[t]] /\ woken'[h]
        BY <1>5, <3>2, <4>1 DEF UnlockWake, Return, Goto, Woken, Types
      <4>3. MutexWaker(h)'
        BY <4>1, <4>2 DEF MutexWaker, Queued, Types
      <4> QED
        BY <4>3 DEF MutexWaitersHaveWaker
    <3> QED
      BY <3>1, <3>2
  <2> QED
    BY <2>1, <2>2, <2>3, <2>4, <2>5, <2>6
<1>6. ASSUME NEW t \in Threads, NEW withTime \in BOOLEAN, CondWait(t, withTime) PROVE IInv'
  <2>1. CountInv'
    <3>1. Producers' = Producers /\ Owers' = Owers
      BY <1>6 DEF CondWait, Goto, Producers, Owers
    <3> QED
      BY <1>6, <3>1 DEF CondWait, Goto, CountInv
  <2>2. Types'
    BY <1>0, <1>6, <2>1 DEF CondWait, Goto, Types, CountInv
  <2>3. QueueInv'
    <3>1. Waiters' = Waiters
      BY <1>6 DEF CondWait, Goto, Types, Waiters, Queued, QueueInv
    <3> QED
      BY <1>6, <3>1 DEF CondWait, Goto, Types, QueueInv, Queued
  <2>4. ReturnInv'
    BY <1>6 DEF CondWait, Goto, Types, ReturnInv
  <2>5. HolderInv'
    BY <1>6 DEF CondWait, Goto, Types, HolderInv, Holders, ReturnInv
  <2>6. MutexWaitersHaveWaker'
    BY <1>6 DEF CondWait, Goto, Types, MutexWaitersHaveWaker, MutexWaker, Queued
  <2> QED
    BY <2>1, <2>2, <2>3, <2>4, <2>5, <2>6
<1>7. ASSUME NEW t \in Threads, CondUnlock(t) PROVE IInv'
  <2>1. CountInv'
    <3>1. Producers' = Producers /\ Owers' = Owers
      BY <1>7 DEF CondUnlock, Release, Goto, Producers, Owers
    <3> QED
      BY <1>7, <3>1 DEF CondUnlock, Release, Goto, CountInv
  <2>2. Types'
    BY <1>0, <1>7, <2>1 DEF CondUnlock, Release, Goto, Types, CountInv
  <2>3. QueueInv'
    <3>1. Waiters' = Waiters
      BY <1>7 DEF CondUnlock, Release, Goto, Types, Waiters, Queued, QueueInv
    <3> QED
      BY <1>7, <3>1 DEF CondUnlock, Release, Goto, Types, QueueInv, Queued
  <2>4. ReturnInv'
    BY <1>7 DEF CondUnlock, Release, Goto, Types, ReturnInv
  <2>5. HolderInv'
    <3>1. t \in Holders /\ Holders = {t} /\ word' = "free"
      BY <1>7 DEF CondUnlock, Release, Holders, HolderInv
    <3>2. /\ pc'[t] \in {"idle", "unlocked", "cwait"}
          /\ \A u \in Threads \ {t} : pc'[u] = pc[u] /\ next'[u] = next[u]
      BY <1>7 DEF CondUnlock, Release, Goto, Types
    <3>3. Holders' = {}
      BY <3>1, <3>2 DEF Holders
    <3> QED
      BY <3>1, <3>3 DEF HolderInv
  <2>6. MutexWaitersHaveWaker'
    BY <1>7 DEF CondUnlock, Release, Goto, Types, MutexWaitersHaveWaker, MutexWaker, Queued
  <2> QED
    BY <2>1, <2>2, <2>3, <2>4, <2>5, <2>6
<1>8. ASSUME NEW t \in Threads, CondQueue(t) PROVE IInv'
  <2>1. CountInv'
    <3>1. Producers' = Producers /\ Owers' = Owers
      BY <1>8 DEF CondQueue, Goto, Producers, Owers
    <3> QED
      BY <1>8, <3>1 DEF CondQueue, Goto, CountInv
  <2>2. Types'
    <3>1. cq' \in Seq(Threads)
      <4>1. Append(cq, t) \in Seq(Threads)
        BY AppendProperties DEF Types
      <4>2. cq' = Append(cq, t) \/ UNCHANGED cq
        BY <1>8 DEF CondQueue
      <4> QED
        BY <4>1, <4>2 DEF Types
    <3>2. pc' \in [Threads -> {"idle", "hold", "exchange", "wait", "queued", "unlocked", "bound",
                              "cwait", "cqueued", "signal", "broadcast"}]
      BY <1>8 DEF CondQueue, Goto, Types
    <3>3. timed' \in [Threads -> BOOLEAN]
      BY <1>8 DEF CondQueue, Types
    <3>4. exp' \in [Threads -> 0..MaxCalls]
      BY <1>8 DEF CondQueue, Types
    <3> QED
      BY <1>8, <3>1, <3>2, <3>3, <3>4 DEF CondQueue, Types
  <2>3. QueueInv'
    <3>0. /\ t \notin Waiters /\ ~woken[t] /\ UNCHANGED <<woken, mq>>
      BY <1>8 DEF CondQueue, Waiters, Queued, QueueInv
    <3>1. CASE seq = exp[t]
      <4>1. cq' = Append(cq, t) /\ pc' = [pc EXCEPT ![t] = "cqueued"]
        BY <1>8, <3>1 DEF CondQueue, Goto
      <4>2. Waiters' = Waiters \cup {t} /\ \A u \in Threads : Queued(u) => Queued(u)'
        BY <3>0, <4>1 DEF Waiters, Queued, Types
      <4>3. ToSet(cq') = ToSet(cq) \cup {t} /\ IsInjective(cq')
        BY <3>0, <4>1, MembersOfAppend DEF Types, QueueInv
      <4> QED
        BY <3>0, <4>2, <4>3 DEF QueueInv
    <3>2. CASE ~(seq = exp[t])
      <4>1. UNCHANGED cq /\ pc' = [pc EXCEPT ![t] = "exchange"] /\ ~Queued(t)
        BY <1>8, <3>2 DEF CondQueue, Goto, Queued
      <4>2. Waiters' = Waiters /\ \A u \in Threads : Queued(u) => Queued(u)'
        BY <3>0, <4>1 DEF Waiters, Queued, Types
      <4> QED
        BY <3>0, <4>1, <4>2 DEF QueueInv
    <3> QED
      BY <3>1, <3>2
  <2>4. ReturnInv'
    BY <1>8 DEF CondQueue, Goto, Types, ReturnInv
  <2>5. HolderInv'
    BY <1>8 DEF CondQueue, Goto, Types, HolderInv, Holders, ReturnInv
  <2>6. MutexWaitersHaveWaker'
    BY <1>8 DEF CondQueue, Goto, Types, MutexWaitersHaveWaker, MutexWaker, Queued
  <2> QED
    BY <2>1, <2>2, <2>3, <2>4, <2>5, <2>6
<1>9. ASSUME NEW t \in Threads, WaitReturns(t) PROVE IInv'
  <2>1. CountInv'
    <3>1. Producers' = Producers /\ Owers' = Owers
      BY <1>9 DEF WaitReturns, Goto, Producers, Owers
    <3> QED
      BY <1>9, <3>1 DEF WaitReturns, Goto, CountInv
  <2>2. Types'
    BY <1>0, <1>9, <2>1 DEF WaitReturns, Goto, Types, CountInv
  <2>3. QueueInv'
    <3>1. Waiters' = Waiters
      BY <1>9 DEF WaitReturns, Goto, Types, Waiters, Queued, QueueInv
    <3> QED
      BY <1>9, <3>1 DEF WaitReturns, Goto, Types, QueueInv, Queued
  <2>4. ReturnInv'
    BY <1>9 DEF WaitReturns, Goto, Types, ReturnInv
  <2>5. HolderInv'
    <3>1. Holders' = Holders
      BY <1>9 DEF WaitReturns, Goto, Types, Holders, Queued
    <3> QED
      BY <1>9, <3>1 DEF WaitReturns, Goto, HolderInv
  <2>6. MutexWaitersHaveWaker'
    BY <1>9 DEF WaitReturns, Goto, Types, MutexWaitersHaveWaker, MutexWaker, Queued
  <2> QED
    BY <2>1, <2>2, <2>3, <2>4, <2>5, <2>6
<1>10. ASSUME NEW t \in Threads, WaitTimedOut(t) PROVE IInv'
  <2>1. CountInv'
    <3>1. Producers \ {t} = Producers' \ {t} /\ Owers \ {t} = Owers' \ {t}
      BY <1>10 DEF WaitTimedOut, TimedOut, Break, Goto, Types, Producers, Owers
    <3>2. /\ Cardinality(Producers') = Cardinality(Producers) + (IF t \in Producers' THEN 1 ELSE 0)
                                                            - (IF t \in Producers THEN 1 ELSE 0)
          /\ Cardinality(Owers') = Cardinality(Owers) + (IF t \in Owers' THEN 1 ELSE 0)
                                                    - (IF t \in Owers THEN 1 ELSE 0)
      BY <1>0, <3>1, CountChange
    <3> QED
      <4>1. /\ t \in Producers' => t \in Producers
            /\ Owers' = Owers /\ UNCHANGED <<items, seq, calls>>
        BY <1>10 DEF WaitTimedOut, TimedOut, Types, Producers, Owers
      <4> QED
        BY <1>0, <3>2, <4>1 DEF CountInv
  <2>2. Types'
    <3>1. mq' \in Seq(Threads) /\ cq' \in Seq(Threads)
      BY <1>10, MembersOfRemove DEF WaitTimedOut, QueueInv, Types
    <3>2. pc' \in [Threads -> {"idle", "hold", "exchange", "wait", "queued", "unlocked", "bound",
                              "cwait", "cqueued", "signal", "broadcast"}]
      <4>1. pc' = [pc EXCEPT ![t] = "idle"] \/ pc' = [pc EXCEPT ![t] = "exchange"]
        BY <1>10 DEF WaitTimedOut, TimedOut, Goto
      <4> QED
        BY <4>1 DEF Types
    <3>3. breaks' \in 0..MaxBreaks
      BY <1>10 DEF WaitTimedOut, Break, Types
    <3>4. job' \in [Threads -> {"none", "consume", "produce"}]
      BY <1>10 DEF WaitTimedOut, TimedOut, Types
    <3>5. timed' \in [Threads -> BOOLEAN]
      BY <1>10 DEF WaitTimedOut, TimedOut, Types
    <3> QED
      BY <1>10, <3>1, <3>2, <3>3, <3>4, <3>5 DEF WaitTimedOut, TimedOut, Types
  <2>3. QueueInv'
    <3>1. /\ mq' = RemoveFirst(mq, t) /\ cq' = RemoveFirst(cq, t) /\ UNCHANGED woken
          /\ ~woken[t] /\ pc'[t] \notin {"queued", "cqueued"}
          /\ \A u \in Threads \ {t} : pc'[u] = pc[u]
      BY <1>10 DEF WaitTimedOut, TimedOut, Goto, Types
    <3>2. Waiters' = Waiters \ {t} /\ \A u \in Threads : woken'[u] => Queued(u)'
      BY <3>1 DEF Waiters, Queued, QueueInv
    <3>3. /\ ToSet(mq') = ToSet(mq) \ {t} /\ IsInjective(mq')
          /\ ToSet(cq') = ToSet(cq) \ {t} /\ IsInjective(cq')
      BY <3>1, MembersOfRemove DEF QueueInv, Types
    <3> QED
      BY <3>2, <3>3 DEF QueueInv
  <2>4. ReturnInv'
    BY <1>10 DEF WaitTimedOut, TimedOut, Break, Goto, Types, ReturnInv
  <2>5. HolderInv'
    <3>1. Holders' = Holders
      BY <1>10 DEF WaitTimedOut, TimedOut, Break, Goto, Types, Holders, Queued
    <3> QED
      BY <1>10, <3>1 DEF WaitTimedOut, TimedOut, Break, Goto, HolderInv
  <2>6. MutexWaitersHaveWaker'
    <3>1. mq' # << >> => mq # << >>
      <4>1. mq' = RemoveFirst(mq, t)
        BY <1>10 DEF WaitTimedOut
      <4>2. mq' \in Seq(Threads) /\ ToSet(mq') = ToSet(mq) \ {t}
        BY <4>1, MembersOfRemove DEF QueueInv, Types
      <4> QED
        BY <4>2, MembersOfSeq DEF Types
    <3> QED
      BY <1>10, <3>1 DEF WaitTimedOut, TimedOut, Goto, Types, MutexWaitersHaveWaker, MutexWaker,
           Queued
  <2> QED
    BY <2>1, <2>2, <2>3, <2>4, <2>5, <2>6
<1>11. ASSUME NEW t \in Threads, WokenTimedOut(t) PROVE IInv'
  <2>1. CountInv'
    <3>1. Producers \ {t} = Producers' \ {t} /\ Owers \ {t} = Owers' \ {t}
      BY <1>11 DEF WokenTimedOut, TimedOut, Break, Goto, Types, Producers, Owers
    <3>2. /\ Cardinality(Producers') = Cardinality(Producers) + (IF t \in Producers' THEN 1 ELSE 0)
                                                            - (IF t \in Producers THEN 1 ELSE 0)
          /\ Cardinality(Owers') = Cardinality(Owers) + (IF t \in Owers' THEN 1 ELSE 0)
                                                    - (IF t \in Owers THEN 1 ELSE 0)
      BY <1>0, <3>1, CountChange
    <3> QED
      <4>1. /\ t \in Producers' => t \in Producers
            /\ Owers' = Owers /\ UNCHANGED <<items, seq, calls>>
        BY <1>11 DEF WokenTimedOut, TimedOut, Types, Producers, Owers
      <4> QED
        BY <1>0, <3>2, <4>1 DEF CountInv
  <2>2. Types'
    <3>1. lost' \in BOOLEAN
      BY <1>11 DEF WokenTimedOut, Types
    <3>2. pc' \in [Threads -> {"idle", "hold", "exchange", "wait", "queued", "unlocked", "bound",
                              "cwait", "cqueued", "signal", "broadcast"}]
      <4>1. pc' = [pc EXCEPT ![t] = "idle"] \/ pc' = [pc EXCEPT ![t] = "exchange"]
        BY <1>11 DEF WokenTimedOut, TimedOut, Goto
      <4> QED
        BY <4>1 DEF Types
    <3>3. breaks' \in 0..MaxBreaks
      BY <1>11 DEF WokenTimedOut, Break, Types
    <3>4. job' \in [Threads -> {"none", "consume", "produce"}]
      BY <1>11 DEF WokenTimedOut, TimedOut, Types
    <3>5. timed' \in [Threads -> BOOLEAN] /\ woken' \in [Threads -> BOOLEAN]
      BY <1>11 DEF WokenTimedOut, TimedOut, Types
    <3> QED
      BY <1>11, <3>1, <3>2, <3>3, <3>4, <3>5 DEF WokenTimedOut, TimedOut, Types
  <2>3. QueueInv'
    <3>1. Waiters' = Waiters
      BY <1>11 DEF WokenTimedOut, TimedOut, Break, Goto, Types, Waiters, Queued, QueueInv
    <3> QED
      BY <1>11, <3>1 DEF WokenTimedOut, TimedOut, Break, Goto, Types, QueueInv, Queued
  <2>4. ReturnInv'
    BY <1>11 DEF WokenTimedOut, TimedOut, Break, Goto, Types, ReturnInv
  <2>5. HolderInv'
    <3>1. Holders' = Holders
      BY <1>11 DEF WokenTimedOut, TimedOut, Break, Goto, Types, Holders, Queued
    <3> QED
      BY <1>11, <3>1 DEF WokenTimedOut, TimedOut, Break, Goto, HolderInv
  <2>6. MutexWaitersHaveWaker'
    BY <1>11 DEF WokenTimedOut, TimedOut, Break, Goto, Types, MutexWaitersHaveWaker, MutexWaker,
         Queued
  <2> QED
    BY <2>1, <2>2, <2>3, <2>4, <2>5, <2>6
<1>12. ASSUME NEW t \in Threads, WaitInterrupted(t) PROVE IInv'
  <2>1. CountInv'
    <3>1. Producers' = Producers /\ Owers' = Owers
      BY <1>12 DEF WaitInterrupted, Break, Goto, Producers, Owers
    <3> QED
      BY <1>12, <3>1 DEF WaitInterrupted, Break, Goto, CountInv
  <2>2. Types'
    <3>1. mq' \in Seq(Threads) /\ cq' \in Seq(Threads)
      BY <1>12, MembersOfRemove DEF WaitInterrupted, QueueInv, Types
    <3>2. /\ pc' \in [Threads -> {"idle", "hold", "exchange", "wait", "queued", "unlocked", "bound",
                              "cwait", "cqueued", "signal", "broadcast"}]
          /\ breaks' \in 0..MaxBreaks
      BY <1>12 DEF WaitInterrupted, Goto, Break, Types
    <3>3. timed' \in [Threads -> BOOLEAN]
      BY <1>12 DEF WaitInterrupted, Types
    <3> QED
      BY <1>12, <3>1, <3>2, <3>3 DEF WaitInterrupted, Types
  <2>3. QueueInv'
    <3>1. /\ mq' = RemoveFirst(mq, t) /\ cq' = RemoveFirst(cq, t) /\ UNCHANGED woken
          /\ ~woken[t] /\ pc'[t] \notin {"queued", "cqueued"}
          /\ \A u \in Threads \ {t} : pc'[u] = pc[u]
      BY <1>12 DEF WaitInterrupted, Goto, Types
    <3>2. Waiters' = Waiters \ {t} /\ \A u \in Threads : woken'[u] => Queued(u)'
      BY <3>1 DEF Waiters, Queued, QueueInv
    <3>3. /\ ToSet(mq') = ToSet(mq) \ {t} /\ IsInjective(mq')
          /\ ToSet(cq') = ToSet(cq) \ {t} /\ IsInjective(cq')
      BY <3>1, MembersOfRemove DEF QueueInv, Types
    <3> QED
      BY <3>2, <3>3 DEF QueueInv
  <2>4. ReturnInv'
    BY <1>12 DEF WaitInterrupted, Break, Goto, Types, ReturnInv
  <2>5. HolderInv'
    <3>1. Holders' = Holders
      BY <1>12 DEF WaitInterrupted, Break, Goto, Types, Holders, Queued
    <3> QED
      BY <1>12, <3>1 DEF WaitInterrupted, Break, Goto, HolderInv
  <2>6. MutexWaitersHaveWaker'
    <3>1. mq' # << >> => mq # << >>
      <4>1. mq' = RemoveFirst(mq, t)
        BY <1>12 DEF WaitInterrupted
      <4>2. mq' \in Seq(Threads) /\ ToSet(mq') = ToSet(mq) \ {t}
        BY <4>1, MembersOfRemove DEF QueueInv, Types
      <4> QED
        BY <4>2, MembersOfSeq DEF Types
    <3> QED
      BY <1>12, <3>1 DEF WaitInterrupted, Goto, Types, MutexWaitersHaveWaker, MutexWaker, Queued
  <2> QED
    BY <2>1, <2>2, <2>3, <2>4, <2>5, <2>6
<1>13. ASSUME NEW t \in Threads, Consume(t) PROVE IInv'
  <2>1. CountInv'
    <3>1. Producers \ {t} = Producers' \ {t} /\ Owers \ {t} = Owers' \ {t}
      BY <1>13 DEF Consume, Types, Producers, Owers
    <3>2. /\ Cardinality(Producers') = Cardinality(Producers) + (IF t \in Producers' THEN 1 ELSE 0)
                                                            - (IF t \in Producers THEN 1 ELSE 0)
          /\ Cardinality(Owers') = Cardinality(Owers) + (IF t \in Owers' THEN 1 ELSE 0)
                                                    - (IF t \in Owers THEN 1 ELSE 0)
      BY <1>0, <3>1, CountChange
    <3> QED
      BY <1>0, <1>13, <3>2 DEF Consume, Types, Producers, Owers, CountInv
  <2>2. Types'
    BY <1>0, <1>13, <2>1 DEF Consume, Types, CountInv
  <2>3. QueueInv'
    <3>1. Waiters' = Waiters
      BY <1>13 DEF Consume, Types, Waiters, Queued, QueueInv
    <3> QED
      BY <1>13, <3>1 DEF Consume, Types, QueueInv, Queued
  <2>4. ReturnInv'
    BY <1>13 DEF Consume, Types, ReturnInv
  <2>5. HolderInv'
    BY <1>13 DEF Consume, Types, HolderInv, Holders, ReturnInv
  <2>6. MutexWaitersHaveWaker'
    BY <1>13 DEF Consume, Types, MutexWaitersHaveWaker, MutexWaker, Queued
  <2> QED
    BY <2>1, <2>2, <2>3, <2>4, <2>5, <2>6
<1>14. ASSUME NEW t \in Threads, Produce(t) PROVE IInv'
  <2>1. CountInv'
    <3>1. Producers \ {t} = Producers' \ {t} /\ Owers \ {t} = Owers' \ {t}
      BY <1>14 DEF Produce, Types, Producers, Owers
    <3>2. /\ Cardinality(Producers') = Cardinality(Producers) + (IF t \in Producers' THEN 1 ELSE 0)
                                                            - (IF t \in Producers THEN 1 ELSE 0)
          /\ Cardinality(Owers') = Cardinality(Owers) + (IF t \in Owers' THEN 1 ELSE 0)
                                                    - (IF t \in Owers THEN 1 ELSE 0)
      BY <1>0, <3>1, CountChange
    <3>3. t \in Producers /\ t \notin Producers' /\ t \in Owers'
      BY <1>14 DEF Produce, Types, Producers, Owers
    <3>4. items' = items + 1 /\ seq' = seq /\ calls' = calls
      BY <1>14 DEF Produce
    <3>5. /\ Cardinality(Producers') = Cardinality(Producers) - 1
          /\ \/ Cardinality(Owers') = Cardinality(Owers) + 1
             \/ Cardinality(Owers') = Cardinality(Owers)
      BY <1>0, <3>2, <3>3
    <3> QED
      BY <1>0, <3>4, <3>5 DEF CountInv
  <2>0. Cardinality(Producers') \in Nat /\ Cardinality(Owers') \in Nat
    BY Counts DEF Producers, Owers
  <2>2. Types'
    <3>1. items' \in 0..MaxCalls
      BY <1>0, <1>14, <2>0, <2>1 DEF Produce, CountInv, Types
    <3> QED
      BY <1>14, <3>1 DEF Produce, Types
  <2>3. QueueInv'
    <3>1. Waiters' = Waiters
      BY <1>14 DEF Produce, Types, Waiters, Queued, QueueInv
    <3> QED
      BY <1>14, <3>1 DEF Produce, Types, QueueInv, Queued
  <2>4. ReturnInv'
    BY <1>14 DEF Produce, Types, ReturnInv
  <2>5. HolderInv'
    BY <1>14 DEF Produce, Types, HolderInv, Holders, ReturnInv
  <2>6. MutexWaitersHaveWaker'
    BY <1>14 DEF Produce, Types, MutexWaitersHaveWaker, MutexWaker, Queued
  <2> QED
    BY <2>1, <2>2, <2>3, <2>4, <2>5, <2>6
<1>15. ASSUME NEW t \in Threads, NEW how \in {"signal", "broadcast"}, Notify(t, how) PROVE IInv'
  <2>1. CountInv'
    <3>1. Producers \ {t} = Producers' \ {t} /\ Owers \ {t} = Owers' \ {t}
      BY <1>15 DEF Notify, Goto, Types, Producers, Owers
    <3>2. /\ Cardinality(Producers') = Cardinality(Producers) + (IF t \in Producers' THEN 1 ELSE 0)
                                                            - (IF t \in Producers THEN 1 ELSE 0)
          /\ Cardinality(Owers') = Cardinality(Owers) + (IF t \in Owers' THEN 1 ELSE 0)
                                                    - (IF t \in Owers THEN 1 ELSE 0)
      BY <1>0, <3>1, CountChange
    <3> QED
      BY <1>0, <1>15, <3>2 DEF Notify, Goto, Types, Producers, Owers, CountInv
  <2>0. Cardinality(Producers') \in Nat /\ Cardinality(Owers') \in Nat
    BY Counts DEF Producers, Owers
  <2>2. Types'
    <3>1. /\ pc' \in [Threads -> {"idle", "hold", "exchange", "wait", "queued", "unlocked", "bound",
                              "cwait", "cqueued", "signal", "broadcast"}]
          /\ next' \in [Threads -> {"idle", "hold", "cwait"}] /\ owes' \in [Threads -> BOOLEAN]
      BY <1>15 DEF Notify, Goto, Types
    <3>2. seq' \in 0..MaxCalls
      <4>1. seq' \in Nat /\ calls' \in 0..MaxCalls
        BY <1>0, <1>15 DEF Notify, Types
      <4> QED
        BY <2>0, <2>1, <4>1 DEF CountInv
    <3> QED
      BY <1>15, <3>1, <3>2 DEF Notify, Types
  <2>3. QueueInv'
    <3>1. Waiters' = Waiters
      BY <1>15 DEF Notify, Goto, Types, Waiters, Queued, QueueInv
    <3> QED
      BY <1>15, <3>1 DEF Notify, Goto, Types, QueueInv, Queued
  <2>4. ReturnInv'
    BY <1>15 DEF Notify, Goto, Types, ReturnInv
  <2>5. HolderInv'
    <3>1. UNCHANGED word /\ \A u \in Threads \ {t} : pc'[u] = pc[u] /\ next'[u] = next[u]
      BY <1>15 DEF Notify, Goto, Types
    <3>2. t \in Holders' <=> t \in Holders
      BY <1>15 DEF Notify, Goto, Types, Holders, ReturnInv
    <3>3. Holders' = Holders
      BY <3>1, <3>2 DEF Holders
    <3> QED
      BY <3>1, <3>3 DEF HolderInv
  <2>6. MutexWaitersHaveWaker'
    BY <1>15 DEF Notify, Goto, Types, MutexWaitersHaveWaker, MutexWaker, Queued
  <2> QED
    BY <2>1, <2>2, <2>3, <2>4, <2>5, <2>6
<1>16. ASSUME NEW t \in Threads, SignalWake(t) PROVE IInv'
  <2>1. CountInv'
    <3>1. Producers' = Producers /\ Owers' = Owers
      BY <1>16 DEF SignalWake, Return, Goto, Woken, Producers, Owers
    <3> QED
      BY <1>16, <3>1 DEF SignalWake, Return, Goto, Woken, CountInv
  <2>2. Types'
    <3>1. cq' \in Seq(Threads)
      <4>1. cq # << >> => Tail(cq) \in Seq(Threads)
        BY HeadTailProperties DEF Types
      <4>2. UNCHANGED cq \/ (cq # << >> /\ cq' = Tail(cq))
        BY <1>16 DEF SignalWake
      <4> QED
        BY <4>1, <4>2 DEF Types
    <3>2. /\ pc' \in [Threads -> {"idle", "hold", "exchange", "wait", "queued", "unlocked", "bound",
                              "cwait", "cqueued", "signal", "broadcast"}]
          /\ next' \in [Threads -> {"idle", "hold", "cwait"}]
      BY <1>16 DEF SignalWake, Return, Goto, Types
    <3>3. woken' \in [Threads -> BOOLEAN]
      BY <1>16 DEF SignalWake, Woken, Types
    <3> QED
      BY <1>16, <3>1, <3>2, <3>3 DEF SignalWake, Types
  <2>3. QueueInv'
    <3>0. pc' = [pc EXCEPT ![t] = next[t]] /\ next[t] \in {"idle", "hold", "cwait"} /\ ~Queued(t)
      BY <1>16 DEF SignalWake, Return, Goto, Types, Queued
    <3>1. \A u \in Threads : Queued(u)' <=> Queued(u)
      BY <3>0 DEF Queued, Types
    <3>2. CASE cq = << >>
      <4>1. Waiters' = Waiters
        BY <1>16, <3>1, <3>2 DEF SignalWake, Waiters
      <4> QED
        BY <1>16, <3>1, <3>2, <4>1 DEF SignalWake, QueueInv
    <3>3. CASE cq # << >>
      <4> DEFINE h == Head(cq)
      <4>1. /\ Tail(cq) \in Seq(Threads) /\ IsInjective(Tail(cq))
            /\ h \in ToSet(cq) /\ ToSet(Tail(cq)) = ToSet(cq) \ {h}
        BY <3>3, MembersOfTail DEF Types, QueueInv
      <4>2. h \in Waiters /\ h \in Threads /\ Queued(h)
        BY <4>1 DEF QueueInv, Waiters
      <4>3. /\ cq' = Tail(cq) /\ UNCHANGED mq
            /\ woken' = [woken EXCEPT ![h] = TRUE]
        BY <1>16, <3>3 DEF SignalWake, Woken
      <4>4. Waiters' = Waiters \ {h}
        BY <3>1, <4>2, <4>3 DEF Waiters, Types
      <4> HIDE DEF h
      <4> QED
        BY <3>1, <4>1, <4>2, <4>3, <4>4 DEF QueueInv, Types
    <3> QED
      BY <3>2, <3>3
  <2>4. ReturnInv'
    BY <1>16 DEF SignalWake, Return, Goto, Woken, Types, ReturnInv
  <2>5. HolderInv'
    BY <1>16 DEF SignalWake, Return, Goto, Woken, Types, HolderInv, Holders, ReturnInv
  <2>6. MutexWaitersHaveWaker'
    BY <1>16 DEF SignalWake, Return, Goto, Woken, Types, MutexWaitersHaveWaker, MutexWaker, Queued
  <2> QED
    BY <2>1, <2>2, <2>3, <2>4, <2>5, <2>6
<1>17. ASSUME NEW t \in Threads, BroadcastRequeue(t) PROVE IInv'
  <2>1. CountInv'
    <3>1. Producers' = Producers /\ Owers' = Owers
      BY <1>17 DEF BroadcastRequeue, Return, Goto, Woken, Producers, Owers
    <3> QED
      BY <1>17, <3>1 DEF BroadcastRequeue, Return, Goto, Woken, CountInv
  <2>2. Types'
    <3>1. mq' \in Seq(Threads) /\ cq' \in Seq(Threads)
      <4>1. cq # << >> => Tail(cq) \in Seq(Threads)
        BY HeadTailProperties DEF Types
      <4>2. cq # << >> => mq \o Tail(cq) \in Seq(Threads)
        BY <4>1, ConcatProperties DEF Types
      <4>3. \/ UNCHANGED <<cq, mq>>
            \/ cq # << >> /\ cq' = << >> /\ mq' = mq \o Tail(cq)
        BY <1>17 DEF BroadcastRequeue
      <4> QED
        BY <4>2, <4>3, EmptySeq DEF Types
    <3>2. /\ pc' \in [Threads -> {"idle", "hold", "exchange", "wait", "queued", "unlocked", "bound",
                              "cwait", "cqueued", "signal", "broadcast"}]
          /\ next' \in [Threads -> {"idle", "hold", "cwait"}]
      BY <1>17 DEF BroadcastRequeue, Return, Goto, Types
    <3>3. woken' \in [Threads -> BOOLEAN]
      BY <1>17 DEF BroadcastRequeue, Woken, Types
    <3> QED
      BY <1>17, <3>1, <3>2, <3>3 DEF BroadcastRequeue, Types
  <2>3. QueueInv'
    <3>0. pc' = [pc EXCEPT ![t] = next[t]] /\ next[t] \in {"idle", "hold", "cwait"} /\ ~Queued(t)
      BY <1>17 DEF BroadcastRequeue, Return, Goto, Types, Queued
    <3>1. \A u \in Threads : Queued(u)' <=> Queued(u)
      BY <3>0 DEF Queued, Types
    <3>2. CASE cq = << >>
      <4>1. Waiters' = Waiters
        BY <1>17, <3>1, <3>2 DEF BroadcastRequeue, Waiters
      <4> QED
        BY <1>17, <3>1, <3>2, <4>1 DEF BroadcastRequeue, QueueInv
    <3>3. CASE cq # << >>
      <4> DEFINE h == Head(cq)
                 r == Tail(cq)
      <4>1. /\ r \in Seq(Threads) /\ IsInjective(r)
            /\ h \in ToSet(cq) /\ ToSet(r) = ToSet(cq) \ {h}
        BY <3>3, MembersOfTail DEF Types, QueueInv
      <4>2. h \in Waiters /\ h \in Threads /\ Queued(h)
        BY <4>1 DEF QueueInv, Waiters
      <4>3. /\ cq' = << >> /\ mq' = mq \o r
            /\ woken' = [woken EXCEPT ![h] = TRUE]
        BY <1>17, <3>3 DEF BroadcastRequeue, Woken
      <4>4. Waiters' = Waiters \ {h}
        BY <3>1, <4>2, <4>3 DEF Waiters, Types
      <4> HIDE DEF h, r
      <4>5. ToSet(mq \o r) = ToSet(mq) \cup ToSet(r) /\ IsInjective(mq \o r)
        BY <4>1, MembersOfConcat DEF QueueInv, Types
      <4> QED
        <5>1. IsInjective(mq') /\ IsInjective(cq') /\ ToSet(mq') \cap ToSet(cq') = {}
          BY <4>3, <4>5, MembersOfEmpty
        <5>2. ToSet(mq') \cup ToSet(cq') = Waiters'
          BY <4>1, <4>2, <4>3, <4>4, <4>5, MembersOfEmpty DEF QueueInv
        <5>3. \A u \in Threads : woken'[u] => Queued(u)'
          BY <3>1, <4>2, <4>3 DEF QueueInv, Types
        <5> QED
          BY <5>1, <5>2, <5>3 DEF QueueInv
    <3> QED
      BY <3>2, <3>3
  <2>4. ReturnInv'
    BY <1>17 DEF BroadcastRequeue, Return, Goto, Woken, Types, ReturnInv
  <2>5. HolderInv'
    BY <1>17 DEF BroadcastRequeue, Return, Goto, Woken, Types, HolderInv, Holders, ReturnInv
  <2>6. MutexWaitersHaveWaker'
    <3>1. CASE cq = << >>
      BY <1>17, <3>1 DEF BroadcastRequeue, Return, Goto, Types, MutexWaitersHaveWaker, MutexWaker,
                         Queued
    <3>2. CASE cq # << >>
      <4>1. PICK h \in Threads : h = Head(cq) /\ Queued(h)
        BY <3>2, MembersOfTail DEF Types, QueueInv, Waiters
      <4>2. pc[t] = "broadcast" /\ pc' = [pc EXCEPT ![t] = next[t]] /\ woken'[h]
        BY <1>17, <3>2, <4>1 DEF BroadcastRequeue, Return, Goto, Woken, Types
      <4>3. MutexWaker(h)'
        BY <4>1, <4>2 DEF MutexWaker, Queued, Types
      <4> QED
        BY <4>3 DEF MutexWaitersHaveWaker
    <3> QED
      BY <3>1, <3>2
  <2> QED
    BY <2>1, <2>2, <2>3, <2>4, <2>5, <2>6
<1>18. CASE UNCHANGED vars
  <2>1. Waiters' = Waiters /\ Holders' = Holders /\ Producers' = Producers /\ Owers' = Owers
    BY <1>18 DEF vars, Waiters, Queued, Holders, Producers, Owers
  <2> QED
    BY <1>18, <2>1 DEF vars, Types, QueueInv, Queued, ReturnInv, HolderInv, CountInv,
                      MutexWaitersHaveWaker, MutexWaker
<1> QED
  BY <1>1, <1>2, <1>3, <1>4, <1>5, <1>6, <1>7, <1>8, <1>9, <1>10, <1>11, <1>12, <1>13, <1>14,
       <1>15, <1>16, <1>17, <1>18 DEF Next, Step, Notifies

\* IInv is an invariant, and inductive.
LEMMA SpecInv == Spec => []IInv
BY InitInv, NextInv, PTL DEF Spec

\* The variables have their types, and whoever sleeps in butex_wait is in exactly one
\* of the two queues: butex_requeue neither drops nor doubles a waiter, also when
\* timeouts and interruptions take waiters out of the middle.
THEOREM TypeCorrect == Spec => []TypeOK
BY SpecInv, InvImplies, PTL

\* At most one thread is between fiber_mutex_lock and fiber_mutex_unlock, by way of the
\* fast path, the contended path, a requeue or the lock at the end of cond_wait.
THEOREM MutexCorrect == Spec => []MutualExclusion
BY SpecInv, InvImplies, PTL

\* fiber_mutex_unlock, or a locker under way, sees to whoever is queued on the mutex,
\* unless a pthread has taken the wake of an unlock and reported ETIMEDOUT.
THEOREM WakerCorrect == Spec => []MutexWaitersHaveWaker
BY SpecInv, PTL DEF IInv

=============================================================================
