--------------------------- MODULE Session_proofs ---------------------------
(***************************************************************************)
(* Safety of the session identifiers.  IInv shows that a session is held   *)
(* by one thread with an identifier of the session, whatever the number of *)
(* threads, versions and incarnations, until an old identifier gets into a *)
(* slot that is created anew; FreshInv, that none does before the versions *)
(* of the slot run out (NoWrap); WaitInv, that nobody is forgotten, as     *)
(* long as they do not come back to where they began (NoLap).              *)
(***************************************************************************)
EXTENDS Session, Integers, FiniteSets, Sequences, SequencesExt, SequenceTheorems,
        FiniteSetTheorems, TLAPS

\* The lists of lockers are sequences in which nobody occurs twice; what the
\* operations on such a list do to its set of members.

\* The members of a list.
LEMMA MembersOfSeq ==
  ASSUME NEW S, NEW s \in Seq(S)
  PROVE  /\ ToSet(s) = {s[i] : i \in 1..Len(s)}
         /\ ToSet(s) \subseteq S
         /\ ToSet(s) = {} <=> s = << >>
         /\ IsInjective(s) <=> \A i, j \in 1..Len(s) : s[i] = s[j] => i = j
<1>1. DOMAIN s = 1..Len(s) /\ Len(s) \in Nat /\ \A i \in 1..Len(s) : s[i] \in S
  OBVIOUS
<1>2. s # << >> => 1 \in 1..Len(s)
  BY EmptySeq
<1>3. ToSet(s) = {s[i] : i \in 1..Len(s)}
  BY <1>1 DEF ToSet
<1>4. ToSet(s) = {} <=> s = << >>
  <2>1. s = << >> => Len(s) = 0
    OBVIOUS
  <2> QED
    BY <1>1, <1>2, <1>3, <2>1
<1>5. IsInjective(s) <=> \A i, j \in 1..Len(s) : s[i] = s[j] => i = j
  BY <1>1 DEF IsInjective
<1> QED
  BY <1>1, <1>3, <1>4, <1>5

\* The empty list.
LEMMA MembersOfEmpty == ToSet(<< >>) = {} /\ IsInjective(<< >>)
BY DEF ToSet, IsInjective

\* A new member at the end of the list.
LEMMA MembersOfAppend ==
  ASSUME NEW S, NEW s \in Seq(S), NEW e \in S
  PROVE  /\ Append(s, e) \in Seq(S) /\ Append(s, e) # << >>
         /\ ToSet(Append(s, e)) = ToSet(s) \cup {e}
         /\ IsInjective(s) /\ e \notin ToSet(s) => IsInjective(Append(s, e))
<1> DEFINE t == Append(s, e)
<1>1. /\ t \in Seq(S) /\ t # << >> /\ Len(t) = Len(s) + 1 /\ Len(s) \in Nat
      /\ \A i \in 1..Len(s) : t[i] = s[i]
      /\ t[Len(s) + 1] = e
  BY AppendProperties
<1> HIDE DEF t
<1>2. ToSet(t) = ToSet(s) \cup {e}
  BY SMTT(30), <1>1, MembersOfSeq
<1>3. ASSUME IsInjective(s), e \notin ToSet(s) PROVE IsInjective(t)
  <2>1. \A i \in 1..Len(s) : s[i] # e
    BY <1>3, MembersOfSeq
  <2>2. \A i, j \in 1..Len(s) : s[i] = s[j] => i = j
    BY <1>3, MembersOfSeq
  <2>3. \A i, j \in 1..Len(t) : t[i] = t[j] => i = j
    BY <1>1, <2>1, <2>2
  <2> QED
    BY <1>1, <2>3, MembersOfSeq
<1> QED
  BY <1>1, <1>2, <1>3 DEF t

\* The head is taken off the list.
LEMMA MembersOfTail ==
  ASSUME NEW S, NEW s \in Seq(S), s # << >>, IsInjective(s)
  PROVE  /\ Tail(s) \in Seq(S) /\ IsInjective(Tail(s))
         /\ Head(s) \in ToSet(s)
         /\ ToSet(Tail(s)) = ToSet(s) \ {Head(s)}
<1> DEFINE t == Tail(s)
<1>1. /\ t \in Seq(S) /\ Len(t) = Len(s) - 1 /\ Len(s) \in Nat \ {0}
      /\ \A i \in 1..Len(t) : t[i] = s[i + 1]
  BY HeadTailProperties, EmptySeq
<1>2. Head(s) = s[1]
  BY <1>1
<1> HIDE DEF t
<1>3. \A i, j \in 1..Len(s) : s[i] = s[j] => i = j
  BY MembersOfSeq
<1>4. IsInjective(t)
  <2>1. \A i, j \in 1..Len(t) : t[i] = t[j] => i = j
    BY <1>1, <1>3
  <2> QED
    BY <1>1, <2>1, MembersOfSeq
<1>5. ToSet(t) = {t[i] : i \in 1..Len(t)} /\ ToSet(s) = {s[i] : i \in 1..Len(s)}
  BY <1>1, MembersOfSeq
<1>6. ToSet(t) \subseteq ToSet(s) \ {Head(s)}
  BY <1>1, <1>2, <1>3, <1>5
<1>7. ASSUME NEW x \in ToSet(s) \ {Head(s)} PROVE x \in ToSet(t)
  <2>1. PICK i \in 1..Len(s) : s[i] = x
    BY <1>5
  <2>2. i - 1 \in 1..Len(t) /\ t[i - 1] = x
    BY <1>1, <1>2, <2>1
  <2> QED
    BY <1>5, <2>2
<1>8. Head(s) \in ToSet(s)
  BY <1>1, <1>2, <1>5
<1> QED
  BY <1>1, <1>4, <1>6, <1>7, <1>8 DEF t

\* One list after another.
LEMMA MembersOfConcat ==
  ASSUME NEW S, NEW s \in Seq(S), NEW t \in Seq(S)
  PROVE  /\ s \o t \in Seq(S)
         /\ ToSet(s \o t) = ToSet(s) \cup ToSet(t)
         /\ IsInjective(s) /\ IsInjective(t) /\ ToSet(s) \cap ToSet(t) = {}
              => IsInjective(s \o t)
<1> DEFINE u == s \o t
<1>1. /\ u \in Seq(S) /\ Len(u) = Len(s) + Len(t) /\ Len(s) \in Nat /\ Len(t) \in Nat
      /\ \A i \in 1..Len(s) + Len(t) : u[i] = IF i <= Len(s) THEN s[i] ELSE t[i - Len(s)]
  BY ConcatProperties
<1> HIDE DEF u
<1>2. /\ \A i \in 1..Len(s) : i \in 1..Len(u) /\ u[i] = s[i]
      /\ \A i \in 1..Len(t) : i + Len(s) \in 1..Len(u) /\ u[i + Len(s)] = t[i]
      /\ \A i \in 1..Len(u) : \/ i \in 1..Len(s) /\ u[i] = s[i]
                              \/ i - Len(s) \in 1..Len(t) /\ u[i] = t[i - Len(s)]
  BY <1>1
<1>3. /\ ToSet(s) = {s[i] : i \in 1..Len(s)} /\ ToSet(t) = {t[i] : i \in 1..Len(t)}
      /\ ToSet(u) = {u[i] : i \in 1..Len(u)}
  BY <1>1, MembersOfSeq
<1>4. ToSet(u) \subseteq ToSet(s) \cup ToSet(t)
  BY <1>2, <1>3
<1>5. ToSet(s) \subseteq ToSet(u) /\ ToSet(t) \subseteq ToSet(u)
  BY <1>2, <1>3
<1>6. ASSUME IsInjective(s), IsInjective(t), ToSet(s) \cap ToSet(t) = {}
      PROVE  IsInjective(u)
  <2>1. /\ \A i, j \in 1..Len(s) : s[i] = s[j] => i = j
        /\ \A i, j \in 1..Len(t) : t[i] = t[j] => i = j
    BY <1>6, MembersOfSeq
  <2>2. \A i \in 1..Len(s), j \in 1..Len(t) : s[i] # t[j]
    BY <1>3, <1>6
  <2>3. ASSUME NEW i \in 1..Len(u), NEW j \in 1..Len(u), u[i] = u[j] PROVE i = j
    <3>1. CASE i \in 1..Len(s) /\ u[i] = s[i]
      <4>1. ~(j - Len(s) \in 1..Len(t) /\ u[j] = t[j - Len(s)])
        BY <2>2, <2>3, <3>1
      <4>2. j \in 1..Len(s) /\ s[i] = s[j]
        BY <1>2, <2>3, <3>1, <4>1
      <4> QED
        BY <2>1, <3>1, <4>2
    <3>2. CASE i - Len(s) \in 1..Len(t) /\ u[i] = t[i - Len(s)]
      <4>1. j \notin 1..Len(s)
        BY <1>2, <2>2, <2>3, <3>2
      <4>2. j - Len(s) \in 1..Len(t) /\ t[i - Len(s)] = t[j - Len(s)]
        BY <1>2, <2>3, <3>2, <4>1
      <4> QED
        BY <1>1, <2>1, <3>2, <4>2
    <3> QED
      BY <1>2, <3>1, <3>2
  <2> QED
    BY <1>1, <2>3, MembersOfSeq
<1> QED
  BY <1>1, <1>4, <1>5, <1>6 DEF u

\* RemoveFromList: one member leaves, wherever it is.
LEMMA MembersOfRemove ==
  ASSUME NEW S, NEW s \in Seq(S), NEW e, IsInjective(s)
  PROVE  /\ RemoveFirst(s, e) \in Seq(S) /\ IsInjective(RemoveFirst(s, e))
         /\ ToSet(RemoveFirst(s, e)) = ToSet(s) \ {e}
<1>0. /\ Len(s) \in Nat /\ ToSet(s) = {s[i] : i \in 1..Len(s)}
      /\ \A i, j \in 1..Len(s) : s[i] = s[j] => i = j
      /\ \A i \in 1..Len(s) : s[i] \in S
  BY MembersOfSeq
<1>1. CASE ~ \E i \in 1..Len(s) : s[i] = e
  BY <1>0, <1>1 DEF RemoveFirst
<1>2. ASSUME NEW k \in 1..Len(s), s[k] = e
      PROVE  /\ RemoveFirst(s, e) \in Seq(S) /\ IsInjective(RemoveFirst(s, e))
             /\ ToSet(RemoveFirst(s, e)) = ToSet(s) \ {e}
  <2> DEFINE a == SubSeq(s, 1, k - 1)
             b == SubSeq(s, k + 1, Len(s))
  <2>1. RemoveFirst(s, e) = a \o b
    <3>1. {i \in 1..Len(s) : s[i] = e} = {k}
      BY <1>0, <1>2
    <3>2. Min({k}) = k
      BY DEF Min
    <3>3. SelectInSeq(s, LAMBDA v : v = e) = k
      BY <3>1, <3>2 DEF SelectInSeq
    <3> QED
      BY <1>2, <3>3 DEF RemoveFirst, RemoveAt
  <2>2. /\ a \in Seq(S) /\ Len(a) = k - 1 /\ \A i \in 1..(k - 1) : a[i] = s[i]
        /\ b \in Seq(S) /\ Len(b) = Len(s) - k
        /\ \A i \in 1..(Len(s) - k) : b[i] = s[k + i]
    BY <1>0
  <2> HIDE DEF a, b
  <2>3. IsInjective(a) /\ IsInjective(b)
    <3>1. ASSUME NEW i \in 1..Len(a), NEW j \in 1..Len(a), a[i] = a[j] PROVE i = j
      <4>1. i \in 1..Len(s) /\ j \in 1..Len(s) /\ a[i] = s[i] /\ a[j] = s[j]
        BY <1>0, <2>2
      <4> QED
        BY <1>0, <3>1, <4>1
    <3>2. ASSUME NEW i \in 1..Len(b), NEW j \in 1..Len(b), b[i] = b[j] PROVE i = j
      <4>1. /\ k + i \in 1..Len(s) /\ k + j \in 1..Len(s)
            /\ b[i] = s[k + i] /\ b[j] = s[k + j]
        BY <1>0, <2>2
      <4>2. k + i = k + j
        BY <1>0, <3>2, <4>1
      <4> QED
        BY <2>2, <4>2
    <3> QED
      BY <2>2, <3>1, <3>2, MembersOfSeq
  <2>4. ToSet(a) = {a[i] : i \in 1..Len(a)} /\ ToSet(b) = {b[i] : i \in 1..Len(b)}
    BY <2>2, MembersOfSeq
  <2>5. ToSet(a) \cap ToSet(b) = {}
    <3>1. ASSUME NEW i \in 1..Len(a), NEW j \in 1..Len(b) PROVE a[i] # b[j]
      <4>1. /\ i \in 1..Len(s) /\ k + j \in 1..Len(s) /\ i # k + j
            /\ a[i] = s[i] /\ b[j] = s[k + j]
        BY <1>0, <2>2
      <4> QED
        BY <1>0, <4>1
    <3> QED
      BY <2>4, <3>1
  <2>6. ToSet(a) \cup ToSet(b) \subseteq ToSet(s) \ {e}
    BY <1>0, <1>2, <2>2, <2>4
  <2>7. ASSUME NEW x \in ToSet(s) \ {e} PROVE x \in ToSet(a) \cup ToSet(b)
    <3>1. PICK i \in 1..Len(s) : s[i] = x
      BY <1>0
    <3>2. CASE i < k
      BY <1>0, <2>2, <2>4, <3>1, <3>2
    <3>3. CASE i > k
      <4>1. i - k \in 1..Len(b) /\ b[i - k] = x
        BY <1>0, <2>2, <3>1, <3>3
      <4> QED
        BY <2>4, <4>1
    <3> QED
      BY <1>0, <1>2, <3>1, <3>2, <3>3
  <2> QED
    BY <2>1, <2>2, <2>3, <2>5, <2>6, <2>7, MembersOfConcat
<1> QED
  BY <1>1, <1>2

-----------------------------------------------------------------------------


\* The session is there: it is created, and not destroyed yet.
Live == firstVer < lockedVer /\ Creators = {}
DestroyLabels == {"destroyWakeLockers", "destroyWakeJoiners", "destroyReturn"}

\* The words of a live session are in order below VerMod; the words of one that is
\* not live are equal, and the slot is in the pool at most once.
VerInv ==
    /\ pooled <= 1 /\ 0 \notin issued
    /\ ~Live /\ Creators = {} => firstVer = lockedVer /\ butex = firstVer
    /\ Live => /\ pooled = 0 /\ 0 < firstVer /\ firstVer + MaxRange + 2 < VerMod
               /\ lockedVer <= firstVer + MaxRange
               /\ butex \in {firstVer, lockedVer, lockedVer + 1, lockedVer + 2}

\* One thread at a time creates the session.  *butex has its first version, and the
\* other words follow it one after the other.
CreateInv ==
    /\ \A t, u \in Creators : t = u
    /\ \A t \in Creators :
          /\ pooled = 0 /\ expect[t] \in 1..MaxRange
          /\ 0 < butex /\ butex + MaxRange + 2 < VerMod
          /\ pc[t] # "createJoin" => joinButex = butex
          /\ pc[t] \in {"createJoin", "createFirst"} => firstVer = lockedVer
          /\ pc[t] \in {"createLocked", "createId"} => firstVer = butex
          /\ pc[t] = "createId" => lockedVer = butex + expect[t]

\* One thread at a time destroys the session, and the slot is not in the pool before
\* it has finished.
DestroyInv ==
    /\ \A t \in Threads : pc[t] \in DestroyLabels => pooled = 0 /\ ~Live /\ Creators = {}
    /\ \A t, u \in Threads : pc[t] \in DestroyLabels /\ pc[u] \in DestroyLabels => t = u

\* HeldRightly without counting.
HoldInv ==
    /\ Holders # {} <=> Live /\ butex # firstVer
    /\ \A t, u \in Holders : t = u
    /\ HolderIsCurrent

\* Pending errors are for this incarnation, and there is a holder to deliver them.
PendInv == \A v \in ToSet(pending) : HasVersion(v) /\ Holders # {}

\* Who is blocked is queued, and the other way round.
QueueInv ==
    /\ IsInjective(lockQueue)
    /\ \A t \in Threads : pc[t] = "lockBlocked" <=> t \in ToSet(lockQueue)
    /\ \A t \in Threads : pc[t] = "joinBlocked" <=> t \in ToSet(joinQueue)

\* What holds whoever gets in, and what holds until an old identifier does.
Base == TypeOK /\ QueueInv
Core == VerInv /\ CreateInv /\ DestroyInv /\ HoldInv /\ PendInv
IInv == Base /\ (~intruded => Core)

-----------------------------------------------------------------------------

\* What the steps below use of the constants.
LEMMA Constants ==
  /\ VerMod \in Nat /\ MaxRange \in Nat /\ MaxRange > 0 /\ MaxRange + 3 < VerMod
  /\ FirstVer \in 0..(VerMod - 1) /\ MaxCreates \in Nat /\ MaxPending \in Nat
BY VersionAssumption, BoundsAssumption

\* A version below VerMod is itself.
LEMMA VerSmall ==
  ASSUME NEW n \in 0..(VerMod - 1)
  PROVE  Ver(n) = n
BY Constants DEF Ver

\* A version that is past VerMod, but not twice, wraps once.
LEMMA VerWrap ==
  ASSUME NEW n \in VerMod..(2 * VerMod - 1)
  PROVE  Ver(n) = n - VerMod
<1> DEFINE q == n \div VerMod
           r == n % VerMod
<1>1. VerMod > 0 /\ n = VerMod * q + r /\ q \in Int /\ r \in 0..(VerMod - 1)
  BY Constants
<1> HIDE DEF q, r
<1>2. q > 0
  <2>1. q <= 0 => VerMod * q <= 0
    BY Constants, <1>1
  <2> QED
    BY Constants, <1>1, <2>1
<1>3. q < 2
  <2>1. q >= 2 => VerMod * q >= 2 * VerMod
    BY Constants, <1>1
  <2> QED
    BY Constants, <1>1, <2>1
<1>4. VerMod * q = VerMod
  BY <1>1, <1>2, <1>3, Constants
<1> QED
  BY <1>1, <1>4, Constants DEF Ver, r

\* A new incarnation has room for its whole range and the three words after it.
LEMMA StartVerRoom ==
  ASSUME butex \in 0..(VerMod - 1)
  PROVE  /\ StartVer \in Nat /\ 0 < StartVer /\ StartVer + MaxRange + 2 < VerMod
         /\ \/ StartVer = butex /\ 0 < butex
            \/ StartVer = 1 /\ (butex = 0 \/ butex + MaxRange + 2 >= VerMod)
<1>1. CASE butex + MaxRange + 2 < VerMod
  <2>1. Ver(butex + MaxRange + 2) = butex + MaxRange + 2
    BY <1>1, VerSmall, Constants
  <2> QED
    BY <1>1, <2>1, Constants DEF StartVer
<1>2. CASE butex + MaxRange + 2 >= VerMod
  <2>1. Ver(butex + MaxRange + 2) = butex + MaxRange + 2 - VerMod
    BY <1>2, VerWrap, Constants
  <2> QED
    BY <1>2, <2>1, Constants DEF StartVer
<1> QED
  BY <1>1, <1>2, Constants

\* The words of a live session, computed.
LEMMA Words ==
  ASSUME TypeOK, VerInv, Live
  PROVE  /\ firstVer \in Nat /\ lockedVer \in Nat /\ butex \in Nat
         /\ ContendedVer = lockedVer + 1 /\ UnlockableVer = lockedVer + 2
         /\ EndVer = IF lockedVer + 3 = VerMod THEN 0 ELSE lockedVer + 3
         /\ EndVer \in 0..(VerMod - 1)
<1>1. firstVer \in Nat /\ lockedVer \in Nat /\ butex \in Nat /\ lockedVer + 2 < VerMod
  BY Constants DEF TypeOK, VerInv
<1>2. ContendedVer = lockedVer + 1 /\ UnlockableVer = lockedVer + 2
  BY <1>1, VerSmall, Constants DEF ContendedVer, UnlockableVer
<1>3. CASE lockedVer + 3 = VerMod
  BY <1>1, <1>2, <1>3, VerWrap, Constants DEF EndVer
<1>4. CASE lockedVer + 3 < VerMod
  BY <1>1, <1>2, <1>4, VerSmall, Constants DEF EndVer
<1> QED
  BY <1>1, <1>3, <1>4, Constants

\* A version is a version, whatever it is computed from.
LEMMA VerType ==
  ASSUME NEW n \in Nat
  PROVE  Ver(n) \in 0..(VerMod - 1)
BY Constants DEF Ver

\* A call that gets past has_version() without intruding sees a live session.
LEMMA AddressedLive ==
  ASSUME TypeOK, NEW v \in Nat, Addressed(v), ~intruded'
  PROVE  Live /\ HasVersion(v) /\ Creators = {} /\ ~intruded
<1>1. HasVersion(v) /\ Creators = {} /\ ~intruded
  BY Zenon DEF Addressed
<1>2. firstVer < lockedVer
  BY <1>1, Constants DEF TypeOK, HasVersion
<1> QED
  BY <1>1, <1>2 DEF Live

\* The record of intruders is kept.
LEMMA AddressedType ==
  ASSUME NEW v, Addressed(v)
  PROVE  intruded' \in BOOLEAN
BY Zenon DEF Addressed

\* Identifiers and words are numbers.
LEMMA Numbers ==
  ASSUME TypeOK
  PROVE  /\ firstVer \in 0..(VerMod - 1) /\ lockedVer \in 0..(VerMod - 1)
         /\ butex \in 0..(VerMod - 1) /\ joinButex \in 0..(VerMod - 1)
         /\ \A v \in issued : v \in Nat
         /\ \A t \in Threads : id[t] \in Nat /\ expect[t] \in 0..(VerMod - 1)
<1>1. issued \subseteq 0..(VerMod - 1) /\ \A t \in Threads : id[t] \in {0} \cup issued
  BY DEF TypeOK
<1>2. \A v \in issued : v \in Nat
  BY <1>1, Constants
<1>3. \A t \in Threads : id[t] \in Nat
  <2>1. 0 \in Nat
    OBVIOUS
  <2> QED
    BY <1>1, <1>2, <2>1, Zenon
<1>4. expect \in [Threads -> 0..(VerMod - 1)]
  BY DEF TypeOK
<1>5. {firstVer, lockedVer, butex, joinButex} \subseteq 0..(VerMod - 1)
  BY DEF TypeOK
<1>6. /\ firstVer \in 0..(VerMod - 1) /\ lockedVer \in 0..(VerMod - 1)
      /\ butex \in 0..(VerMod - 1) /\ joinButex \in 0..(VerMod - 1)
  BY <1>5, Zenon
<1> QED
  BY <1>2, <1>3, <1>4, <1>6

\* What the words are moved to.
LEMMA WordTypes ==
  ASSUME TypeOK
  PROVE  /\ ContendedVer \in 0..(VerMod - 1) /\ UnlockableVer \in 0..(VerMod - 1)
         /\ EndVer \in 0..(VerMod - 1)
<1>1. lockedVer \in Nat
  BY Numbers, Constants
<1> QED
  BY <1>1, VerType DEF ContendedVer, UnlockableVer, EndVer

\* What is typed over the identifiers given out stays so when more are.
LEMMA IssuedGrows ==
  ASSUME NEW B, issued \subseteq B, TypeOK
  PROVE  pending \in Seq(B) /\ id \in [Threads -> {0} \cup B]
<1>1. pending \in Seq(issued) /\ id \in [Threads -> {0} \cup issued]
  BY DEF TypeOK
<1>2. pending \in Seq(B)
  BY <1>1, SeqMonotonic
<1> QED
  BY <1>1, <1>2

\* The properties that the runs check follow from the invariant.
LEMMA InvImplies ==
  IInv => HeldRightly /\ VersionsOrdered /\ (~intruded => ErrorsHaveHolder)
<1> SUFFICES ASSUME IInv, ~intruded
             PROVE  HeldRightly /\ VersionsOrdered /\ ErrorsHaveHolder
  BY Zenon DEF HeldRightly, VersionsOrdered
<1>0. TypeOK /\ Core
  BY DEF IInv, Base
<1>1. Holders = {} \/ \E t : Holders = {t}
  BY <1>0 DEF Core, HoldInv
<1>2. Cardinality(Holders) <= 1
  <2>1. CASE Holders = {}
    BY <2>1, FS_EmptySet
  <2>2. ASSUME NEW t, Holders = {t} PROVE Cardinality(Holders) <= 1
    <3>1. Cardinality({t}) = 1
      BY FS_Singleton
    <3> QED
      BY <2>2, <3>1
  <2> QED
    BY <1>1, <2>1, <2>2
<1>3. HeldRightly
  <2>1. CASE Creators = {}
    BY <1>0, <1>2, <2>1 DEF Core, HoldInv, HeldRightly, MutualExclusion, Live
  <2>2. ASSUME NEW t \in Creators PROVE HeldRightly
    <3>1. pc[t] \in CreateLabels
      BY DEF Creators
    <3>2. firstVer = lockedVer \/ butex = firstVer
      BY <1>0, <3>1 DEF Core, CreateInv, CreateLabels
    <3>3. firstVer \in Nat /\ lockedVer \in Nat
      BY <1>0, Numbers, Constants
    <3>4. Holders = {}
      BY <1>0 DEF Core, HoldInv, Live
    <3> QED
      BY <1>0, <1>2, <3>2, <3>3, <3>4 DEF Core, HoldInv, HeldRightly, MutualExclusion
  <2> QED
    BY <2>1, <2>2
<1>4. VersionsOrdered
  <2>1. CASE Live
    <3>1. /\ firstVer \in Nat /\ lockedVer \in Nat
          /\ ContendedVer = lockedVer + 1 /\ UnlockableVer = lockedVer + 2
      BY <1>0, <2>1, Words DEF Core
    <3> QED
      BY <1>0, <2>1, <3>1 DEF Core, VerInv, VersionsOrdered
  <2>2. CASE ~Live
    BY <2>2 DEF VersionsOrdered, Live
  <2> QED
    BY <2>1, <2>2
<1>5. ErrorsHaveHolder
  <2>1. pending # << >> => \E v : v \in ToSet(pending)
    BY <1>0, MembersOfSeq DEF TypeOK
  <2> QED
    BY <1>0, <2>1 DEF Core, PendInv, ErrorsHaveHolder
<1> QED
  BY <1>3, <1>4, <1>5

\* The slot before its first creation.
LEMMA InitInv == Init => IInv
<1> SUFFICES ASSUME Init PROVE IInv
  OBVIOUS
<1> USE Constants DEF Init
<1>1. TypeOK
  <2>1. pending \in Seq(issued) /\ lockQueue \in Seq(Threads) /\ joinQueue \in Seq(Threads)
    BY EmptySeq
  <2>2. stranded \in BOOLEAN /\ intruded \in BOOLEAN
    BY Zenon
  <2>3. pc \in [Threads -> Labels] /\ id \in [Threads -> {0} \cup issued]
    BY DEF Labels
  <2> QED
    BY <2>1, <2>2, <2>3 DEF TypeOK
<1>2. Holders = {} /\ ~Live /\ Creators = {}
  BY DEF Holders, Live, Creators, CreateLabels
<1>3. VerInv /\ CreateInv /\ DestroyInv /\ HoldInv
  BY <1>2 DEF VerInv, CreateInv, DestroyInv, DestroyLabels, HoldInv, HolderIsCurrent
<1>4. PendInv /\ QueueInv
  BY MembersOfEmpty DEF PendInv, QueueInv
<1> QED
  BY <1>1, <1>3, <1>4 DEF IInv, Base, Core

\* butex_wake moves the first locker of the queue, and its caller.
LEMMA WakesOne ==
  ASSUME Base, NEW t \in Threads, WakeOne(t)
  PROVE  /\ pc[t] = "wakeOne" /\ pc'[t] = "idle" /\ pc' \in [Threads -> Labels]
         /\ \A u \in Threads \ {t} :
               IF lockQueue # << >> /\ u = Head(lockQueue)
               THEN pc[u] = "lockBlocked" /\ pc'[u] = "relock" ELSE pc'[u] = pc[u]
<1> USE Constants DEF Base, slotVars, verVars, queues
<1>1. lockQueue # << >> => Head(lockQueue) \in ToSet(lockQueue)
  BY MembersOfTail DEF TypeOK, QueueInv
<1>2. pc[t] = "wakeOne" /\ t \notin ToSet(lockQueue)
  BY DEF WakeOne, QueueInv
<1>3. /\ pc'[t] = "idle"
      /\ \A u \in Threads \ {t} : pc'[u] = IF lockQueue # << >> /\ u = Head(lockQueue)
                                           THEN "relock" ELSE pc[u]
  BY <1>1, <1>2 DEF WakeOne
<1>4. pc' \in [Threads -> Labels]
  BY <1>3 DEF WakeOne, TypeOK, Labels
<1> QED
  BY <1>1, <1>2, <1>3, <1>4 DEF QueueInv

\* butex_wake_except moves the lockers of the queue, and its caller.
LEMMA WakesLockers ==
  ASSUME Base, NEW t \in Threads, WakeLockers(t)
  PROVE  /\ \/ pc[t] = "wakeLockers" /\ pc'[t] = "holding"
            \/ pc[t] = "destroyWakeLockers" /\ pc'[t] = "destroyWakeJoiners"
         /\ pc' \in [Threads -> Labels]
         /\ \A u \in Threads \ {t} : IF u \in ToSet(lockQueue)
                                      THEN pc[u] = "lockBlocked" /\ pc'[u] = "relock"
                                      ELSE pc'[u] = pc[u]
<1> USE Constants DEF Base, slotVars, verVars, queues
<1>1. pc[t] \in {"wakeLockers", "destroyWakeLockers"} /\ t \notin ToSet(lockQueue)
  BY DEF WakeLockers, QueueInv
<1>2. /\ pc'[t] = IF pc[t] = "wakeLockers" THEN "holding" ELSE "destroyWakeJoiners"
      /\ \A u \in Threads \ {t} : pc'[u] = IF u \in ToSet(lockQueue) THEN "relock" ELSE pc[u]
  BY <1>1 DEF WakeLockers
<1>3. pc' \in [Threads -> Labels]
  BY <1>2 DEF WakeLockers, TypeOK, Labels
<1> QED
  BY <1>1, <1>2, <1>3 DEF QueueInv

\* butex_wake_all moves the joiners of the queue, and its caller.
LEMMA WakesJoiners ==
  ASSUME Base, NEW t \in Threads, DestroyWakeJoiners(t)
  PROVE  /\ pc[t] = "destroyWakeJoiners" /\ pc'[t] = "destroyReturn" /\ pc' \in [Threads -> Labels]
         /\ \A u \in Threads \ {t} : IF u \in ToSet(joinQueue)
                                      THEN pc[u] = "joinBlocked" /\ pc'[u] = "join"
                                      ELSE pc'[u] = pc[u]
<1> USE Constants DEF Base, slotVars, verVars, queues
<1>1. pc[t] = "destroyWakeJoiners" /\ t \notin ToSet(joinQueue)
  BY DEF DestroyWakeJoiners, QueueInv
<1>2. /\ pc'[t] = "destroyReturn"
      /\ \A u \in Threads \ {t} : pc'[u] = IF u \in ToSet(joinQueue) THEN "join" ELSE pc[u]
  BY <1>1 DEF DestroyWakeJoiners
<1>3. pc' \in [Threads -> Labels]
  BY <1>2 DEF DestroyWakeJoiners, TypeOK, Labels
<1> QED
  BY <1>1, <1>2, <1>3 DEF QueueInv


\* Every step of the threads keeps the types and the queues, also the steps of and after
\* an intruder.
LEMMA NextBase == Base /\ [Next]_vars => Base'
<1> SUFFICES ASSUME Base, [Next]_vars PROVE Base'
  OBVIOUS
<1> USE Constants DEF Base, slotVars, verVars, queues
<1>1. ASSUME NEW t \in Threads, NEW range \in 1..MaxRange, CreateBegin(t, range) PROVE Base'
  <2>1. TypeOK'
    <3>1. butex' \in 0..(VerMod - 1)
      BY <1>1, StartVerRoom, Numbers DEF CreateBegin
    <3>2. pooled' \in Nat /\ creates' \in 0..MaxCreates
      BY <1>1 DEF CreateBegin, TypeOK
    <3>3. pc' \in [Threads -> Labels]
      BY <1>1 DEF CreateBegin, Goto, TypeOK, Labels, CreateLabels
    <3>4. expect' \in [Threads -> 0..(VerMod - 1)]
      <4>1. range \in 0..(VerMod - 1)
        OBVIOUS
      <4> QED
        BY <1>1, <4>1 DEF CreateBegin, TypeOK
    <3> QED
      BY <1>1, <3>1, <3>2, <3>3, <3>4 DEF CreateBegin, TypeOK
  <2>2. QueueInv'
    BY <1>1 DEF CreateBegin, Goto, TypeOK, QueueInv
  <2> QED
    BY <2>1, <2>2
<1>2. ASSUME NEW t \in Threads, NEW v \in issued, LockCall(t, v) PROVE Base'
  <2>1. TypeOK'
    BY <1>2 DEF LockCall, Goto, TypeOK, Labels
  <2>2. QueueInv'
    BY <1>2 DEF LockCall, Goto, TypeOK, QueueInv
  <2> QED
    BY <2>1, <2>2
<1>3. ASSUME NEW t \in Threads, NEW r \in 0..MaxRange, LockAcquire(t, r) PROVE Base'
  <2>1. TypeOK'
    <3>0. lockedVer' \in 0..(VerMod - 1)
      <4>1. firstVer + r \in Nat
        BY Numbers
      <4> QED
        BY <1>3, <4>1, Numbers, VerType DEF LockAcquire
    <3>1. issued \subseteq issued' /\ issued' \subseteq 0..(VerMod - 1)
      <4>1. issued' = issued \cup firstVer..(lockedVer' - 1) /\ issued \subseteq 0..(VerMod - 1)
        BY <1>3 DEF LockAcquire, TypeOK
      <4>2. firstVer..(lockedVer' - 1) \subseteq 0..(VerMod - 1)
        BY <3>0, Numbers
      <4> QED
        BY <4>1, <4>2
    <3>2. pending' \in Seq(issued') /\ id' \in [Threads -> {0} \cup issued']
      BY <1>3, <3>1, IssuedGrows DEF LockAcquire
    <3>3. {firstVer', lockedVer', butex', joinButex'} \subseteq 0..(VerMod - 1)
      <4>0. PICK n \in 0..(VerMod - 1) : n = lockedVer'
        BY <3>0
      <4>1. Ver(n + 1) \in 0..(VerMod - 1)
        BY VerType
      <4>2. butex' \in 0..(VerMod - 1)
        BY <1>3, <4>0, <4>1 DEF LockAcquire
      <4>3. firstVer' \in 0..(VerMod - 1) /\ joinButex' \in 0..(VerMod - 1)
        BY <1>3, Numbers DEF LockAcquire
      <4> QED
        BY <3>0, <4>2, <4>3, Zenon
    <3>4. pc' \in [Threads -> Labels]
      BY <1>3 DEF LockAcquire, Goto, TypeOK, Labels
    <3>5. UNCHANGED <<lockQueue, joinQueue, pooled, creates, expect, stranded>>
      BY <1>3 DEF LockAcquire
    <3>6. intruded' \in BOOLEAN
      BY <1>3, AddressedType DEF LockAcquire
    <3> QED
      BY <3>1, <3>2, <3>3, <3>4, <3>5, <3>6 DEF TypeOK
  <2>2. QueueInv'
    BY <1>3 DEF LockAcquire, Goto, LockLabels, TypeOK, QueueInv
  <2> QED
    BY <2>1, <2>2
<1>4. ASSUME NEW t \in Threads, LockContend(t) PROVE Base'
  <2>1. TypeOK'
    <3>1. butex' \in 0..(VerMod - 1)
      BY <1>4, WordTypes DEF LockContend
    <3>2. pc' \in [Threads -> Labels]
      BY <1>4 DEF LockContend, Goto, TypeOK, Labels
    <3>3. expect' \in [Threads -> 0..(VerMod - 1)]
      BY <1>4, WordTypes DEF LockContend, TypeOK
    <3>4. intruded' \in BOOLEAN
      BY <1>4, AddressedType DEF LockContend
    <3> QED
      BY <1>4, <3>1, <3>2, <3>3, <3>4 DEF LockContend, TypeOK
  <2>2. QueueInv'
    BY <1>4 DEF LockContend, Goto, LockLabels, TypeOK, QueueInv
  <2> QED
    BY <2>1, <2>2
<1>5. ASSUME NEW t \in Threads, LockFail(t) PROVE Base'
  <2>1. TypeOK'
    BY <1>5 DEF LockFail, Return, Goto, LockLabels, TypeOK, Labels
  <2>2. QueueInv'
    BY <1>5 DEF LockFail, Return, Goto, LockLabels, TypeOK, QueueInv
  <2> QED
    BY <2>1, <2>2
<1>6. ASSUME NEW t \in Threads, LockWait(t) PROVE Base'
  <2>1. TypeOK'
    <3>1. lockQueue' \in Seq(Threads)
      <4>1. Append(lockQueue, t) \in Seq(Threads)
        BY MembersOfAppend DEF TypeOK
      <4>2. lockQueue' = Append(lockQueue, t) \/ UNCHANGED lockQueue
        BY <1>6 DEF LockWait
      <4> QED
        BY <4>1, <4>2 DEF TypeOK
    <3>2. pc' \in [Threads -> Labels]
      BY <1>6 DEF LockWait, Goto, TypeOK, Labels
    <3>3. stranded' \in BOOLEAN
      BY <1>6, Zenon DEF LockWait
    <3> QED
      BY <1>6, <3>1, <3>2, <3>3 DEF LockWait, TypeOK
  <2>2. QueueInv'
    <3>1. CASE butex = expect[t]
      <4>1. lockQueue' = Append(lockQueue, t) /\ pc' = [pc EXCEPT ![t] = "lockBlocked"]
            /\ UNCHANGED joinQueue /\ pc[t] = "lockWait"
        BY <1>6, <3>1 DEF LockWait, Goto
      <4>2. t \notin ToSet(lockQueue)
        BY <4>1 DEF QueueInv
      <4>3. ToSet(lockQueue') = ToSet(lockQueue) \cup {t} /\ IsInjective(lockQueue')
        BY <4>1, <4>2, MembersOfAppend DEF QueueInv, TypeOK
      <4> QED
        BY <4>1, <4>3 DEF QueueInv, TypeOK
    <3>2. CASE butex # expect[t]
      BY <1>6, <3>2 DEF LockWait, Goto, QueueInv, TypeOK
    <3> QED
      BY <3>1, <3>2
  <2> QED
    BY <2>1, <2>2
<1>7. ASSUME NEW t \in Threads, LockInterrupted(t) PROVE Base'
  <2>1. TypeOK'
    <3>1. lockQueue' \in Seq(Threads)
      BY <1>7, MembersOfRemove DEF LockInterrupted, QueueInv, TypeOK
    <3>2. pc' \in [Threads -> Labels]
      BY <1>7 DEF LockInterrupted, Goto, TypeOK, Labels
    <3> QED
      BY <1>7, <3>1, <3>2 DEF LockInterrupted, TypeOK
  <2>2. QueueInv'
    <3>1. ToSet(lockQueue') = ToSet(lockQueue) \ {t} /\ IsInjective(lockQueue')
      BY <1>7, MembersOfRemove DEF LockInterrupted, QueueInv, TypeOK
    <3>2. pc[t] = "lockBlocked" /\ pc' = [pc EXCEPT ![t] = "relock"] /\ UNCHANGED joinQueue
      BY <1>7 DEF LockInterrupted, Goto
    <3> QED
      BY <3>1, <3>2 DEF QueueInv, TypeOK
  <2> QED
    BY <2>1, <2>2
<1>8. ASSUME NEW t \in Threads, NEW v \in issued, TryLock(t, v) PROVE Base'
  <2>1. TypeOK'
    <3>1. butex' \in 0..(VerMod - 1) /\ id' \in [Threads -> {0} \cup issued]
      BY <1>8 DEF TryLock, TypeOK
    <3>2. pc' \in [Threads -> Labels]
      BY <1>8 DEF TryLock, Goto, TypeOK, Labels
    <3>3. intruded' \in BOOLEAN
      BY <1>8, AddressedType DEF TryLock
    <3> QED
      BY <1>8, <3>1, <3>2, <3>3 DEF TryLock, TypeOK
  <2>2. QueueInv'
    BY <1>8 DEF TryLock, Goto, TypeOK, QueueInv
  <2> QED
    BY <2>1, <2>2
<1>9. ASSUME NEW t \in Threads, NEW v \in issued, ErrorRun(t, v) PROVE Base'
  <2>1. TypeOK'
    <3>1. butex' \in 0..(VerMod - 1) /\ id' \in [Threads -> {0} \cup issued]
      BY <1>9 DEF ErrorRun, TypeOK
    <3>2. pc' \in [Threads -> Labels]
      BY <1>9 DEF ErrorRun, Goto, TypeOK, Labels
    <3>3. intruded' \in BOOLEAN
      BY <1>9, AddressedType DEF ErrorRun
    <3> QED
      BY <1>9, <3>1, <3>2, <3>3 DEF ErrorRun, TypeOK
  <2>2. QueueInv'
    BY <1>9 DEF ErrorRun, Goto, TypeOK, QueueInv
  <2> QED
    BY <2>1, <2>2
<1>10. ASSUME NEW t \in Threads, NEW v \in issued, ErrorPend(t, v) PROVE Base'
  <2>1. TypeOK'
    <3>1. pending' \in Seq(issued)
      BY <1>10, MembersOfAppend DEF ErrorPend, TypeOK
    <3>2. intruded' \in BOOLEAN
      BY <1>10, AddressedType DEF ErrorPend
    <3> QED
      BY <1>10, <3>1, <3>2 DEF ErrorPend, TypeOK
  <2>2. QueueInv'
    BY <1>10 DEF ErrorPend, TypeOK, QueueInv
  <2> QED
    BY <2>1, <2>2
<1>11. ASSUME NEW t \in Threads, UnlockToError(t) PROVE Base'
  <2>1. TypeOK'
    <3>1. Head(pending) \in issued /\ Tail(pending) \in Seq(issued)
      BY <1>11, HeadTailProperties DEF UnlockToError, TypeOK
    <3>2. id' \in [Threads -> {0} \cup issued]
      BY <1>11, <3>1 DEF UnlockToError, TypeOK
    <3>3. intruded' \in BOOLEAN
      BY <1>11, AddressedType DEF UnlockToError
    <3> QED
      BY <1>11, <3>1, <3>2, <3>3 DEF UnlockToError, TypeOK
  <2>2. QueueInv'
    BY <1>11 DEF UnlockToError, TypeOK, QueueInv
  <2> QED
    BY <2>1, <2>2
<1>12. ASSUME NEW t \in Threads, Unlock(t) PROVE Base'
  <2>1. TypeOK'
    <3>1. butex' \in 0..(VerMod - 1)
      BY <1>12 DEF Unlock, TypeOK
    <3>2. pc' \in [Threads -> Labels]
      BY <1>12 DEF Unlock, Return, Goto, TypeOK, Labels
    <3>3. id' \in [Threads -> {0} \cup issued] /\ expect' \in [Threads -> 0..(VerMod - 1)]
      <4>1. \/ UNCHANGED <<id, expect>>
            \/ id' = [id EXCEPT ![t] = 0] /\ expect' = [expect EXCEPT ![t] = 0]
        BY <1>12 DEF Unlock, Return
      <4>2. id' \in [Threads -> {0} \cup issued]
        BY <4>1 DEF TypeOK
      <4>3. 0 \in 0..(VerMod - 1) /\ expect \in [Threads -> 0..(VerMod - 1)]
        BY DEF TypeOK
      <4>4. expect' \in [Threads -> 0..(VerMod - 1)]
        BY <4>1, <4>3
      <4> QED
        BY <4>2, <4>4
    <3>4. stranded' \in BOOLEAN
      BY <1>12, Zenon DEF Unlock
    <3>5. intruded' \in BOOLEAN
      BY <1>12, AddressedType DEF Unlock
    <3> QED
      BY <1>12, <3>1, <3>2, <3>3, <3>4, <3>5 DEF Unlock, TypeOK
  <2>2. QueueInv'
    BY <1>12 DEF Unlock, Return, Goto, TypeOK, QueueInv
  <2> QED
    BY <2>1, <2>2
<1>13. ASSUME NEW t \in Threads, WakeOne(t) PROVE Base'
  <2>0. /\ pc[t] = "wakeOne" /\ pc'[t] = "idle" /\ pc' \in [Threads -> Labels]
        /\ \A u \in Threads \ {t} :
              IF lockQueue # << >> /\ u = Head(lockQueue)
              THEN pc[u] = "lockBlocked" /\ pc'[u] = "relock" ELSE pc'[u] = pc[u]
    BY <1>13, WakesOne
  <2>1. TypeOK'
    <3>1. lockQueue' \in Seq(Threads)
      <4>1. lockQueue # << >> => Tail(lockQueue) \in Seq(Threads)
        BY HeadTailProperties DEF TypeOK
      <4> QED
        BY <1>13, <4>1 DEF WakeOne, TypeOK
    <3>2. id' \in [Threads -> {0} \cup issued]
      BY <1>13 DEF WakeOne, TypeOK
    <3> QED
      BY <1>13, <2>0, <3>1, <3>2 DEF WakeOne, TypeOK
  <2>2. QueueInv'
    <3>1. CASE lockQueue = << >>
      BY <1>13, <2>0, <3>1 DEF WakeOne, QueueInv
    <3>2. CASE lockQueue # << >>
      <4> DEFINE h == Head(lockQueue)
      <4>1. /\ lockQueue' = Tail(lockQueue) /\ UNCHANGED joinQueue
            /\ IsInjective(Tail(lockQueue)) /\ h \in ToSet(lockQueue)
            /\ ToSet(Tail(lockQueue)) = ToSet(lockQueue) \ {h}
        BY <1>13, <3>2, MembersOfTail DEF WakeOne, QueueInv, TypeOK
      <4>2. /\ h # t /\ pc'[h] = "relock"
            /\ \A u \in Threads \ {t, h} : pc'[u] = pc[u]
        BY <2>0, <3>2, <4>1, MembersOfSeq DEF QueueInv, TypeOK
      <4> HIDE DEF h
      <4> QED
        BY <2>0, <4>1, <4>2 DEF QueueInv
    <3> QED
      BY <3>1, <3>2
  <2> QED
    BY <2>1, <2>2
<1>14. ASSUME NEW t \in Threads, AboutToDestroy(t) PROVE Base'
  <2>1. TypeOK'
    <3>1. butex' \in 0..(VerMod - 1)
      BY <1>14, WordTypes DEF AboutToDestroy
    <3>2. pc' \in [Threads -> Labels]
      BY <1>14 DEF AboutToDestroy, Goto, TypeOK, Labels
    <3>3. intruded' \in BOOLEAN
      BY <1>14, AddressedType DEF AboutToDestroy
    <3> QED
      BY <1>14, <3>1, <3>2, <3>3 DEF AboutToDestroy, TypeOK
  <2>2. QueueInv'
    BY <1>14 DEF AboutToDestroy, Goto, TypeOK, QueueInv
  <2> QED
    BY <2>1, <2>2
<1>15. ASSUME NEW t \in Threads, WakeLockers(t) PROVE Base'
  <2>0. /\ \/ pc[t] = "wakeLockers" /\ pc'[t] = "holding"
           \/ pc[t] = "destroyWakeLockers" /\ pc'[t] = "destroyWakeJoiners"
        /\ pc' \in [Threads -> Labels]
        /\ \A u \in Threads \ {t} : IF u \in ToSet(lockQueue)
                                     THEN pc[u] = "lockBlocked" /\ pc'[u] = "relock"
                                     ELSE pc'[u] = pc[u]
    BY <1>15, WakesLockers
  <2>1. TypeOK'
    <3>1. lockQueue' \in Seq(Threads)
      BY <1>15, EmptySeq DEF WakeLockers
    <3> QED
      BY <1>15, <2>0, <3>1 DEF WakeLockers, TypeOK
  <2>2. QueueInv'
    <3>1. lockQueue' = << >> /\ ToSet(lockQueue') = {} /\ IsInjective(lockQueue')
          /\ UNCHANGED joinQueue
      BY <1>15, MembersOfEmpty DEF WakeLockers
    <3> QED
      BY <2>0, <3>1 DEF QueueInv
  <2> QED
    BY <2>1, <2>2
<1>16. ASSUME NEW t \in Threads, UnlockAndDestroy(t) PROVE Base'
  <2>1. TypeOK'
    <3>1. {firstVer', lockedVer', butex', joinButex'} \subseteq 0..(VerMod - 1)
      BY <1>16, WordTypes DEF UnlockAndDestroy
    <3>2. pc' \in [Threads -> Labels] /\ pending' \in Seq(issued)
      BY <1>16, EmptySeq DEF UnlockAndDestroy, Goto, TypeOK, Labels
    <3>3. intruded' \in BOOLEAN
      BY <1>16, AddressedType DEF UnlockAndDestroy
    <3> QED
      BY <1>16, <3>1, <3>2, <3>3 DEF UnlockAndDestroy, TypeOK
  <2>2. QueueInv'
    BY <1>16 DEF UnlockAndDestroy, Goto, TypeOK, QueueInv
  <2> QED
    BY <2>1, <2>2
<1>17. ASSUME NEW t \in Threads, DestroyWakeJoiners(t) PROVE Base'
  <2>0. /\ pc[t] = "destroyWakeJoiners" /\ pc'[t] = "destroyReturn" /\ pc' \in [Threads -> Labels]
        /\ \A u \in Threads \ {t} : IF u \in ToSet(joinQueue)
                                     THEN pc[u] = "joinBlocked" /\ pc'[u] = "join"
                                     ELSE pc'[u] = pc[u]
    BY <1>17, WakesJoiners
  <2>1. TypeOK'
    <3>1. joinQueue' \in Seq(Threads)
      BY <1>17, EmptySeq DEF DestroyWakeJoiners
    <3> QED
      BY <1>17, <2>0, <3>1 DEF DestroyWakeJoiners, TypeOK
  <2>2. QueueInv'
    <3>1. joinQueue' = << >> /\ ToSet(joinQueue') = {} /\ IsInjective(joinQueue')
          /\ UNCHANGED lockQueue
      BY <1>17, MembersOfEmpty DEF DestroyWakeJoiners
    <3> QED
      BY <2>0, <3>1 DEF QueueInv
  <2> QED
    BY <2>1, <2>2
<1>18. ASSUME NEW t \in Threads, DestroyReturn(t) PROVE Base'
  <2>1. TypeOK'
    BY <1>18 DEF DestroyReturn, Return, Goto, TypeOK, Labels
  <2>2. QueueInv'
    BY <1>18 DEF DestroyReturn, Return, Goto, TypeOK, QueueInv
  <2> QED
    BY <2>1, <2>2
<1>19. ASSUME NEW t \in Threads, NEW v \in issued, Cancel(t, v) PROVE Base'
  <2>1. TypeOK'
    <3>1. {firstVer', lockedVer', butex', joinButex'} \subseteq 0..(VerMod - 1)
      BY <1>19, WordTypes DEF Cancel, TypeOK
    <3>2. pooled' \in Nat
      BY <1>19 DEF Cancel, TypeOK
    <3>3. intruded' \in BOOLEAN
      BY <1>19, AddressedType DEF Cancel
    <3>4. stranded' \in BOOLEAN
      BY <1>19, Zenon DEF Cancel
    <3> QED
      BY <1>19, <3>1, <3>2, <3>3, <3>4 DEF Cancel, TypeOK
  <2>2. QueueInv'
    BY <1>19 DEF Cancel, TypeOK, QueueInv
  <2> QED
    BY <2>1, <2>2
<1>20. ASSUME NEW t \in Threads, NEW v \in issued, JoinCall(t, v) PROVE Base'
  <2>1. TypeOK'
    BY <1>20 DEF JoinCall, Goto, TypeOK, Labels
  <2>2. QueueInv'
    BY <1>20 DEF JoinCall, Goto, TypeOK, QueueInv
  <2> QED
    BY <2>1, <2>2
<1>21. ASSUME NEW t \in Threads, JoinCheck(t) PROVE Base'
  <2>1. TypeOK'
    <3>1. pc' \in [Threads -> Labels]
      BY <1>21 DEF JoinCheck, Return, Goto, TypeOK, Labels
    <3>2. expect' \in [Threads -> 0..(VerMod - 1)]
      <4>1. joinButex \in 0..(VerMod - 1) /\ 0 \in 0..(VerMod - 1)
        BY DEF TypeOK
      <4>2. \/ expect' = [expect EXCEPT ![t] = joinButex]
            \/ expect' = [expect EXCEPT ![t] = 0] \/ expect' = expect
        BY <1>21, Zenon DEF JoinCheck, Return
      <4> QED
        BY <4>1, <4>2 DEF TypeOK
    <3>3. id' \in [Threads -> {0} \cup issued]
      BY <1>21 DEF JoinCheck, Return, TypeOK
    <3>4. intruded' \in BOOLEAN
      <4>1. Addressed(id[t]) \/ UNCHANGED intruded
        BY <1>21 DEF JoinCheck
      <4> QED
        BY <4>1, AddressedType DEF TypeOK
    <3> QED
      BY <1>21, <3>1, <3>2, <3>3, <3>4 DEF JoinCheck, TypeOK
  <2>2. QueueInv'
    BY <1>21 DEF JoinCheck, Return, Goto, TypeOK, QueueInv
  <2> QED
    BY <2>1, <2>2
<1>22. ASSUME NEW t \in Threads, JoinWait(t) PROVE Base'
  <2>1. TypeOK'
    <3>1. joinQueue' \in Seq(Threads)
      <4>1. Append(joinQueue, t) \in Seq(Threads)
        BY MembersOfAppend DEF TypeOK
      <4>2. joinQueue' = Append(joinQueue, t) \/ UNCHANGED joinQueue
        BY <1>22 DEF JoinWait
      <4> QED
        BY <4>1, <4>2 DEF TypeOK
    <3>2. pc' \in [Threads -> Labels]
      BY <1>22 DEF JoinWait, Goto, TypeOK, Labels
    <3> QED
      BY <1>22, <3>1, <3>2 DEF JoinWait, TypeOK
  <2>2. QueueInv'
    <3>1. CASE joinButex = expect[t]
      <4>1. joinQueue' = Append(joinQueue, t) /\ pc' = [pc EXCEPT ![t] = "joinBlocked"]
            /\ UNCHANGED lockQueue /\ pc[t] = "joinWait"
        BY <1>22, <3>1 DEF JoinWait, Goto
      <4>2. ToSet(joinQueue') = ToSet(joinQueue) \cup {t}
        BY <4>1, MembersOfAppend DEF TypeOK
      <4> QED
        BY <4>1, <4>2 DEF QueueInv, TypeOK
    <3>2. CASE joinButex # expect[t]
      BY <1>22, <3>2 DEF JoinWait, Goto, QueueInv, TypeOK
    <3> QED
      BY <3>1, <3>2
  <2> QED
    BY <2>1, <2>2
<1>23. ASSUME NEW t \in Threads, CreateJoin(t) PROVE Base'
  <2>1. TypeOK'
    <3>1. pc' \in [Threads -> Labels]
      BY <1>23 DEF CreateJoin, Goto, TypeOK, Labels, CreateLabels
    <3> QED
      BY <1>23, <3>1 DEF CreateJoin, TypeOK
  <2>2. QueueInv'
    BY <1>23 DEF CreateJoin, Goto, TypeOK, QueueInv
  <2> QED
    BY <2>1, <2>2
<1>24. ASSUME NEW t \in Threads, CreateFirst(t) PROVE Base'
  <2>1. TypeOK'
    <3>1. pc' \in [Threads -> Labels]
      BY <1>24 DEF CreateFirst, Goto, TypeOK, Labels, CreateLabels
    <3> QED
      BY <1>24, <3>1 DEF CreateFirst, TypeOK
  <2>2. QueueInv'
    BY <1>24 DEF CreateFirst, Goto, TypeOK, QueueInv
  <2> QED
    BY <2>1, <2>2
<1>25. ASSUME NEW t \in Threads, CreateLocked(t) PROVE Base'
  <2>1. TypeOK'
    <3>1. pc' \in [Threads -> Labels]
      BY <1>25 DEF CreateLocked, Goto, TypeOK, Labels, CreateLabels
    <3>2. butex + expect[t] \in Nat
      BY Numbers
    <3>3. lockedVer' \in 0..(VerMod - 1)
      BY <1>25, <3>2, VerType DEF CreateLocked
    <3> QED
      BY <1>25, <3>1, <3>3 DEF CreateLocked, TypeOK
  <2>2. QueueInv'
    BY <1>25 DEF CreateLocked, Goto, TypeOK, QueueInv
  <2> QED
    BY <2>1, <2>2
<1>26. ASSUME NEW t \in Threads, CreateId(t) PROVE Base'
  <2>1. TypeOK'
    <3>0. \A i \in 0..(expect[t] - 1) : Ver(butex + i) \in 0..(VerMod - 1)
      <4>1. \A i \in 0..(expect[t] - 1) : butex + i \in Nat
        BY Numbers
      <4> QED
        BY <4>1, VerType
    <3>1. issued \subseteq issued' /\ issued' \subseteq 0..(VerMod - 1)
      BY <1>26, <3>0 DEF CreateId, TypeOK
    <3>2. pending' \in Seq(issued') /\ id \in [Threads -> {0} \cup issued']
      BY <1>26, <3>1, IssuedGrows DEF CreateId
    <3>3. id' \in [Threads -> {0} \cup issued'] /\ expect' \in [Threads -> 0..(VerMod - 1)]
      BY <1>26, <3>2 DEF CreateId, Return, TypeOK
    <3>4. pc' \in [Threads -> Labels]
      BY <1>26 DEF CreateId, Return, Goto, TypeOK, Labels
    <3> QED
      BY <1>26, <3>1, <3>2, <3>3, <3>4 DEF CreateId, TypeOK
  <2>2. QueueInv'
    BY <1>26 DEF CreateId, Return, Goto, TypeOK, QueueInv
  <2> QED
    BY <2>1, <2>2
<1>27. CASE UNCHANGED vars
  BY <1>27 DEF vars, TypeOK, QueueInv
<1> QED
  BY <1>1, <1>2, <1>3, <1>4, <1>5, <1>6, <1>7, <1>8, <1>9, <1>10, <1>11, <1>12, <1>13, <1>14,
       <1>15, <1>16, <1>17, <1>18, <1>19, <1>20, <1>21, <1>22, <1>23, <1>24, <1>25, <1>26, <1>27
     DEF Next, Call, LockStep, JoinStep, WakeStep, Release, CreateStep

\* A call that intrudes has the identifier of a caller, or one that was given out.
LEMMA WhoIntrudes ==
  ASSUME [Next]_vars
  PROVE  \/ UNCHANGED intruded
         \/ \E v \in issued : Addressed(v)
         \/ \E t \in Threads : Addressed(id[t])
<1>1. ASSUME NEW t \in Threads, NEW range \in 1..MaxRange, CreateBegin(t, range)
      PROVE  UNCHANGED intruded
  BY <1>1 DEF CreateBegin
<1>2. ASSUME NEW t \in Threads, NEW v \in issued, Call(t, v)
      PROVE  Addressed(v) \/ UNCHANGED intruded
  BY <1>2 DEF Call, LockCall, TryLock, ErrorRun, ErrorPend, Cancel, JoinCall
<1>3. ASSUME NEW t \in Threads, LockStep(t) PROVE Addressed(id[t]) \/ UNCHANGED intruded
  BY <1>3 DEF LockStep, LockAcquire, LockContend, LockFail, LockWait
<1>4. ASSUME NEW t \in Threads,
             CreateStep(t) \/ LockInterrupted(t) \/ JoinWait(t) \/ WakeStep(t)
      PROVE  UNCHANGED intruded
  BY <1>4 DEF CreateStep, CreateJoin, CreateFirst, CreateLocked, CreateId, LockInterrupted,
       JoinWait, WakeStep, WakeOne, WakeLockers, DestroyWakeJoiners, DestroyReturn
<1>5. ASSUME NEW t \in Threads, JoinCheck(t) \/ Release(t) \/ AboutToDestroy(t)
      PROVE  Addressed(id[t]) \/ UNCHANGED intruded
  BY <1>5 DEF JoinCheck, Release, UnlockToError, Unlock, UnlockAndDestroy, AboutToDestroy
<1>6. CASE UNCHANGED vars
  BY <1>6 DEF vars
<1> QED
  BY <1>1, <1>2, <1>3, <1>4, <1>5, <1>6, Zenon DEF Next, JoinStep

\* An intruder is not forgotten.
LEMMA IntrudedStays == [Next]_vars /\ ~intruded' => ~intruded
BY WhoIntrudes, Zenon DEF Addressed

\* The steps of the others leave the creator alone.
LEMMA CreateKept ==
  ASSUME CreateInv, Creators' = Creators,
         Creators = {} \/ UNCHANGED <<firstVer, lockedVer, butex, joinButex, pooled>>,
         \A u \in Creators : pc'[u] = pc[u] /\ expect'[u] = expect[u]
  PROVE  CreateInv'
<1>1. CASE Creators = {}
  BY <1>1 DEF CreateInv
<1>2. CASE UNCHANGED <<firstVer, lockedVer, butex, joinButex, pooled>>
  BY <1>2 DEF CreateInv
<1> QED
  BY <1>1, <1>2

\* What a thread that acquires the lock does to the words.
LEMMA Acquired ==
  ASSUME TypeOK, VerInv, HoldInv, NEW t \in Threads, NEW r \in 0..MaxRange, LockAcquire(t, r),
         ~intruded'
  PROVE  \E n \in Nat :
             /\ n = lockedVer' /\ lockedVer <= n /\ n <= firstVer + MaxRange /\ n + 2 < VerMod
             /\ Live /\ firstVer \in Nat /\ lockedVer \in Nat /\ 0 < firstVer /\ firstVer' = firstVer
             /\ butex = firstVer /\ butex' \in {n, n + 1} /\ Holders = {}
             /\ id[t] \in Nat /\ HasVersion(id[t])
<1> USE Constants DEF slotVars, verVars, queues
<1>1. firstVer \in Nat /\ lockedVer \in Nat /\ id[t] \in Nat
  BY Numbers
<1>2. Live /\ HasVersion(id[t])
  BY <1>1, AddressedLive DEF LockAcquire
<1>3. /\ 0 < firstVer /\ firstVer + MaxRange + 2 < VerMod
      /\ lockedVer <= firstVer + MaxRange
  BY <1>2 DEF VerInv
<1>4. PICK n \in Nat : n = lockedVer' /\ lockedVer <= n /\ n <= firstVer + MaxRange
  <2>1. Ver(firstVer + r) = firstVer + r
    BY <1>1, <1>3, VerSmall
  <2> QED
    BY <1>1, <1>3, <2>1 DEF LockAcquire
<1>5. n + 2 < VerMod
  <2>1. n <= firstVer + MaxRange
    BY <1>4
  <2> QED
    BY <1>1, <1>3, <2>1
<1>6. Ver(n + 1) = n + 1
  BY <1>5, VerSmall
<1>7. firstVer' = firstVer /\ butex = firstVer /\ butex' \in {n, n + 1}
  BY <1>4, <1>6 DEF LockAcquire
<1>8. Holders = {}
  BY <1>2, <1>7 DEF HoldInv
<1> QED
  BY <1>1, <1>2, <1>3, <1>4, <1>5, <1>7, <1>8

\* The creator is alone with the slot.
LEMMA CreatorAlone ==
  ASSUME TypeOK, Core, NEW t \in Threads, pc[t] \in CreateLabels
  PROVE  /\ Creators = {t} /\ ~Live /\ Holders = {} /\ ToSet(pending) = {} /\ pooled = 0
         /\ \A u \in Threads : pc[u] \notin DestroyLabels
         /\ expect[t] \in 1..MaxRange /\ butex \in Nat /\ 0 < butex
         /\ butex + MaxRange + 2 < VerMod
         /\ Ver(butex + expect[t]) = butex + expect[t]
         /\ \A i \in 0..(expect[t] - 1) : Ver(butex + i) = butex + i
<1> USE Constants DEF Core
<1>1. t \in Creators
  BY DEF Creators
<1>2. Creators = {t} /\ ~Live
  BY <1>1 DEF CreateInv, Live
<1>3. Holders = {} /\ ToSet(pending) = {}
  BY <1>2 DEF HoldInv, PendInv
<1>4. \A u \in Threads : pc[u] \notin DestroyLabels
  BY <1>1 DEF DestroyInv
<1>5. /\ expect[t] \in 1..MaxRange /\ butex \in Nat /\ 0 < butex /\ pooled = 0
      /\ butex + MaxRange + 2 < VerMod
  BY <1>1, Numbers DEF CreateInv
<1>6. \A i \in 0..expect[t] : Ver(butex + i) = butex + i
  BY <1>5, VerSmall
<1> QED
  BY <1>2, <1>3, <1>4, <1>5, <1>6


\* Every step that is not an intruder's preserves the invariant.
LEMMA NextCore ==
  ASSUME Base, Core, Base', ~intruded', [Next]_vars
  PROVE  Core'
<1> USE Constants DEF Base, Core, slotVars, verVars, queues
<1>1. ASSUME NEW t \in Threads, NEW range \in 1..MaxRange, CreateBegin(t, range) PROVE Core'
  <2>0. /\ ~Live /\ Creators = {} /\ pooled = 1 /\ Holders = {} /\ ToSet(pending) = {}
        /\ firstVer = lockedVer /\ \A u \in Threads : pc[u] \notin DestroyLabels
    <3>1. pooled > 0 /\ pooled \in Nat
      BY <1>1 DEF CreateBegin, TypeOK
    <3>2. ~Live /\ Creators = {} /\ pooled = 1
      BY <3>1 DEF VerInv, CreateInv
    <3>3. \A u \in Threads : pc[u] \notin DestroyLabels
      BY <3>1 DEF DestroyInv
    <3> QED
      BY <3>2, <3>3 DEF VerInv, HoldInv, PendInv
  <2>1. /\ butex' \in Nat /\ 0 < butex' /\ butex' + MaxRange + 2 < VerMod
        /\ pooled' = 0 /\ UNCHANGED <<firstVer, lockedVer, joinButex, issued, pending, id>>
        /\ pc' = [pc EXCEPT ![t] = "createJoin"] /\ expect' = [expect EXCEPT ![t] = range]
        /\ pc[t] = "idle"
    BY <1>1, <2>0, StartVerRoom, Numbers DEF CreateBegin, Goto
  <2>c. Creators' = {t} /\ ~Live'
    BY <2>0, <2>1 DEF TypeOK, Creators, CreateLabels, Live
  <2>2. VerInv'
    BY <2>1, <2>c DEF VerInv
  <2>3. DestroyInv'
    <3>1. \A u \in Threads : pc'[u] \notin DestroyLabels
      BY <2>0, <2>1 DEF TypeOK, DestroyLabels
    <3> QED
      BY <3>1 DEF DestroyInv
  <2>4. HoldInv'
    <3>1. Holders' = {}
      BY <2>0, <2>1 DEF TypeOK, Holders
    <3> QED
      BY <2>c, <3>1 DEF HoldInv, HolderIsCurrent
  <2>5. PendInv'
    BY <2>0, <2>1 DEF PendInv
  <2>7. CreateInv'
    <3>1. pc'[t] = "createJoin" /\ expect'[t] = range
      BY <2>1 DEF TypeOK
    <3> QED
      BY <2>0, <2>1, <2>c, <3>1 DEF CreateInv
  <2> QED
    BY <2>2, <2>3, <2>4, <2>5, <2>7
<1>2. ASSUME NEW t \in Threads, NEW v \in issued, LockCall(t, v) PROVE Core'
  <2>c. /\ Creators' = Creators
        /\ \A u \in Creators : pc'[u] = pc[u] /\ expect'[u] = expect[u]
    BY <1>2 DEF LockCall, Goto, Return, TypeOK, Creators, CreateLabels
  <2>2. VerInv'
    BY <2>c, <1>2 DEF LockCall, Goto, TypeOK, VerInv, Live
  <2>3. DestroyInv'
    BY <2>c, <1>2 DEF LockCall, Goto, TypeOK, DestroyInv, DestroyLabels, Live
  <2>4. HoldInv'
    <3>1. Holders' = Holders
      BY <1>2 DEF LockCall, Goto, TypeOK, Holders
    <3> QED
      BY <2>c, <1>2, <3>1 DEF LockCall, Goto, TypeOK, VerInv, HoldInv, HolderIsCurrent, HasVersion,
           Holders, Live
  <2>5. PendInv'
    BY <2>c, <1>2, <2>4 DEF LockCall, Goto, TypeOK, PendInv, HoldInv, HasVersion, Live
  <2>7. CreateInv'
    BY <1>2, <2>c, CreateKept DEF LockCall
  <2> QED
    BY <2>2, <2>3, <2>4, <2>5, <2>7
<1>3. ASSUME NEW t \in Threads, NEW r \in 0..MaxRange, LockAcquire(t, r) PROVE Core'
  <2>a. Live /\ HasVersion(id[t]) /\ Creators = {}
    BY <1>3, AddressedLive, Numbers DEF LockAcquire
  <2>0. PICK n \in Nat :
           /\ n = lockedVer' /\ lockedVer <= n /\ n <= firstVer + MaxRange /\ n + 2 < VerMod
           /\ Live /\ firstVer \in Nat /\ lockedVer \in Nat /\ 0 < firstVer /\ firstVer' = firstVer
           /\ butex = firstVer /\ butex' \in {n, n + 1} /\ Holders = {}
           /\ id[t] \in Nat /\ HasVersion(id[t])
    BY <1>3, Acquired
  <2>c. Creators' = Creators
    BY <1>3, <2>a DEF LockAcquire, Goto, Return, TypeOK, Creators, CreateLabels, LockLabels
  <2>2. VerInv'
    <3>1. UNCHANGED pooled
      BY <2>a, <1>3 DEF LockAcquire
    <3>2. pooled = 0 /\ firstVer + MaxRange + 2 < VerMod
      BY <2>0 DEF VerInv
    <3>3. firstVer < n
      BY <2>c, <2>0 DEF Live
    <3>4. 0 \notin issued'
      <4>1. issued' = issued \cup firstVer..(n - 1)
        BY <1>3, <2>0 DEF LockAcquire
      <4>2. firstVer \in Nat /\ 0 < firstVer
        BY <2>0
      <4>3. 0 \notin firstVer..(n - 1)
        BY <4>2
      <4> QED
        BY <4>1, <4>3 DEF VerInv
    <3> QED
      BY <2>c, <2>0, <3>1, <3>2, <3>3, <3>4 DEF VerInv, Live
  <2>3. DestroyInv'
    <3>1. \A u \in Threads : pc[u] \notin DestroyLabels /\ pc'[u] \notin DestroyLabels
      BY <2>a, <1>3, <2>0 DEF LockAcquire, Goto, DestroyInv, DestroyLabels, TypeOK
    <3> QED
      BY <3>1 DEF DestroyInv
  <2>4. HoldInv'
    <3>1. Holders' = {t} /\ id'[t] = id[t]
      BY <2>a, <1>3, <2>0 DEF LockAcquire, Goto, LockLabels, TypeOK, Holders
    <3> QED
      BY <2>c, <2>0, <3>1 DEF HoldInv, HolderIsCurrent, HasVersion, Live
  <2>5. PendInv'
    BY <2>a, <1>3, <2>0 DEF LockAcquire, PendInv
  <2>7. CreateInv'
    BY <2>a, <2>c DEF CreateInv
  <2> QED
    BY <2>2, <2>3, <2>4, <2>5, <2>7
<1>4. ASSUME NEW t \in Threads, LockContend(t) PROVE Core'
  <2>a. Live /\ HasVersion(id[t]) /\ Creators = {}
    BY <1>4, AddressedLive, Numbers DEF LockContend
  <2>c. Creators' = Creators
    BY <1>4, <2>a DEF LockContend, Goto, Return, TypeOK, Creators, CreateLabels, LockLabels
  <2>0. /\ Live /\ firstVer \in Nat /\ lockedVer \in Nat /\ butex # firstVer
        /\ butex' = lockedVer + 1 /\ UNCHANGED <<firstVer, lockedVer, pooled, pending, issued>>
        /\ ContendedVer = lockedVer + 1 /\ lockedVer + 2 < VerMod
    BY <1>4, <2>a, Words DEF LockContend, VerInv
  <2>2. VerInv'
    BY <2>c, <2>0 DEF VerInv, Live
  <2>3. DestroyInv'
    BY <2>a, <2>c, <1>4 DEF LockContend, Goto, LockLabels, TypeOK, DestroyInv, DestroyLabels, Live
  <2>4. HoldInv'
    <3>1. Holders' = Holders /\ UNCHANGED id
      BY <2>a, <1>4 DEF LockContend, Goto, LockLabels, TypeOK, Holders
    <3> QED
      BY <2>c, <2>0, <3>1 DEF HoldInv, HolderIsCurrent, HasVersion, Live
  <2>5. PendInv'
    BY <2>c, <2>0, <2>4 DEF PendInv, HoldInv, HasVersion, Live
  <2>7. CreateInv'
    BY <2>a, <2>c DEF CreateInv
  <2> QED
    BY <2>2, <2>3, <2>4, <2>5, <2>7
<1>5. ASSUME NEW t \in Threads, LockFail(t) PROVE Core'
  <2>c. /\ Creators' = Creators
        /\ \A u \in Creators : pc'[u] = pc[u] /\ expect'[u] = expect[u]
    BY <1>5 DEF LockFail, Goto, Return, TypeOK, Creators, CreateLabels, LockLabels
  <2>2. VerInv'
    BY <2>c, <1>5 DEF LockFail, Return, Goto, LockLabels, TypeOK, VerInv, Live
  <2>3. DestroyInv'
    BY <2>c, <1>5 DEF LockFail, Return, Goto, LockLabels, TypeOK, DestroyInv, DestroyLabels, Live
  <2>4. HoldInv'
    <3>1. Holders' = Holders
      BY <1>5 DEF LockFail, Return, Goto, LockLabels, TypeOK, Holders
    <3> QED
      BY <2>c, <1>5, <3>1 DEF LockFail, Return, Goto, LockLabels, TypeOK, VerInv, HoldInv,
           HolderIsCurrent, HasVersion, Holders, Live
  <2>5. PendInv'
    BY <2>c, <1>5, <2>4 DEF LockFail, Return, Goto, LockLabels, TypeOK, PendInv, HoldInv,
         HasVersion, Live
  <2>7. CreateInv'
    BY <1>5, <2>c, CreateKept DEF LockFail
  <2> QED
    BY <2>2, <2>3, <2>4, <2>5, <2>7
<1>6. ASSUME NEW t \in Threads, LockWait(t) PROVE Core'
  <2>c. /\ Creators' = Creators
        /\ \A u \in Creators : pc'[u] = pc[u] /\ expect'[u] = expect[u]
    BY <1>6 DEF LockWait, Goto, Return, TypeOK, Creators, CreateLabels
  <2>2. VerInv'
    BY <2>c, <1>6 DEF LockWait, Goto, TypeOK, VerInv, Live
  <2>3. DestroyInv'
    BY SMTT(30), <2>c, <1>6 DEF LockWait, Goto, TypeOK, DestroyInv, DestroyLabels, Live
  <2>4. HoldInv'
    <3>1. Holders' = Holders
      BY <1>6 DEF LockWait, Goto, TypeOK, Holders
    <3> QED
      BY <2>c, <1>6, <3>1 DEF LockWait, Goto, TypeOK, VerInv, HoldInv, HolderIsCurrent, HasVersion,
           Holders, Live
  <2>5. PendInv'
    BY <2>c, <1>6, <2>4 DEF LockWait, Goto, TypeOK, PendInv, HoldInv, HasVersion, Live
  <2>7. CreateInv'
    BY <1>6, <2>c, CreateKept DEF LockWait
  <2> QED
    BY <2>2, <2>3, <2>4, <2>5, <2>7
<1>7. ASSUME NEW t \in Threads, LockInterrupted(t) PROVE Core'
  <2>c. /\ Creators' = Creators
        /\ \A u \in Creators : pc'[u] = pc[u] /\ expect'[u] = expect[u]
    BY <1>7 DEF LockInterrupted, Goto, Return, TypeOK, Creators, CreateLabels
  <2>2. VerInv'
    BY <2>c, <1>7 DEF LockInterrupted, Goto, TypeOK, VerInv, Live
  <2>3. DestroyInv'
    BY <2>c, <1>7 DEF LockInterrupted, Goto, TypeOK, DestroyInv, DestroyLabels, Live
  <2>4. HoldInv'
    <3>1. Holders' = Holders
      BY <1>7 DEF LockInterrupted, Goto, TypeOK, Holders
    <3> QED
      BY <2>c, <1>7, <3>1 DEF LockInterrupted, Goto, TypeOK, VerInv, HoldInv, HolderIsCurrent,
           HasVersion, Holders, Live
  <2>5. PendInv'
    BY <2>c, <1>7, <2>4 DEF LockInterrupted, Goto, TypeOK, PendInv, HoldInv, HasVersion, Live
  <2>7. CreateInv'
    BY <1>7, <2>c, CreateKept DEF LockInterrupted
  <2> QED
    BY <2>2, <2>3, <2>4, <2>5, <2>7
<1>8. ASSUME NEW t \in Threads, NEW v \in issued, TryLock(t, v) PROVE Core'
  <2>a. Live /\ HasVersion(v) /\ Creators = {}
    BY <1>8, AddressedLive, Numbers DEF TryLock
  <2>c. Creators' = Creators
    BY <1>8, <2>a DEF TryLock, Goto, Return, TypeOK, Creators, CreateLabels
  <2>2. VerInv'
    BY <2>a, <2>c, <1>8 DEF TryLock, Goto, TypeOK, VerInv, Live
  <2>3. DestroyInv'
    BY <2>a, <2>c, <1>8 DEF TryLock, Goto, TypeOK, DestroyInv, DestroyLabels, Live
  <2>4. HoldInv'
    <3>1. Holders' = Holders \cup {t}
      BY <2>a, <1>8 DEF TryLock, Goto, TypeOK, Holders
    <3> QED
      BY <2>a, <2>c, <1>8, <3>1 DEF TryLock, Goto, TypeOK, VerInv, HoldInv, HolderIsCurrent,
           HasVersion,
           Holders, Live
  <2>5. PendInv'
    BY <2>a, <2>c, <1>8, <2>4 DEF TryLock, Goto, TypeOK, PendInv, HoldInv, HasVersion, Live
  <2>7. CreateInv'
    BY <2>a, <2>c DEF CreateInv
  <2> QED
    BY <2>2, <2>3, <2>4, <2>5, <2>7
<1>9. ASSUME NEW t \in Threads, NEW v \in issued, ErrorRun(t, v) PROVE Core'
  <2>a. Live /\ HasVersion(v) /\ Creators = {}
    BY <1>9, AddressedLive, Numbers DEF ErrorRun
  <2>c. Creators' = Creators
    BY <1>9, <2>a DEF ErrorRun, Goto, Return, TypeOK, Creators, CreateLabels
  <2>2. VerInv'
    BY <2>a, <2>c, <1>9 DEF ErrorRun, Goto, TypeOK, VerInv, Live
  <2>3. DestroyInv'
    BY <2>a, <2>c, <1>9 DEF ErrorRun, Goto, TypeOK, DestroyInv, DestroyLabels, Live
  <2>4. HoldInv'
    <3>1. Holders' = Holders \cup {t}
      BY <2>a, <1>9 DEF ErrorRun, Goto, TypeOK, Holders
    <3> QED
      BY <2>a, <2>c, <1>9, <3>1 DEF ErrorRun, Goto, TypeOK, VerInv, HoldInv, HolderIsCurrent,
           HasVersion,
           Holders, Live
  <2>5. PendInv'
    BY <2>a, <2>c, <1>9, <2>4 DEF ErrorRun, Goto, TypeOK, PendInv, HoldInv, HasVersion, Live
  <2>7. CreateInv'
    BY <2>a, <2>c DEF CreateInv
  <2> QED
    BY <2>2, <2>3, <2>4, <2>5, <2>7
<1>10. ASSUME NEW t \in Threads, NEW v \in issued, ErrorPend(t, v) PROVE Core'
  <2>a. Live /\ HasVersion(v) /\ Creators = {}
    BY <1>10, AddressedLive, Numbers DEF ErrorPend
  <2>c. Creators' = Creators
    BY <1>10, <2>a DEF ErrorPend, Goto, Return, TypeOK, Creators, CreateLabels
  <2>2. VerInv'
    BY <2>a, <2>c, <1>10 DEF ErrorPend, TypeOK, VerInv, Live
  <2>3. DestroyInv'
    BY <2>a, <2>c, <1>10 DEF ErrorPend, TypeOK, DestroyInv, DestroyLabels, Live
  <2>4. HoldInv'
    <3>1. Holders' = Holders
      BY <2>a, <1>10 DEF ErrorPend, TypeOK, Holders
    <3> QED
      BY <2>a, <2>c, <1>10, <3>1 DEF ErrorPend, TypeOK, VerInv, HoldInv, HolderIsCurrent,
           HasVersion,
           Holders, Live
  <2>5. PendInv'
    <3>1. ToSet(pending') = ToSet(pending) \cup {v}
      BY <2>a, <1>10, MembersOfAppend DEF ErrorPend, TypeOK
    <3>2. Holders' = Holders /\ Holders # {} /\ HasVersion(v) /\ UNCHANGED <<firstVer, lockedVer>>
      <4>1. Live
        BY <2>a
      <4> QED
        BY <2>a, <1>10, <4>1 DEF ErrorPend, Holders, HoldInv
    <3> QED
      BY <3>1, <3>2 DEF PendInv, HasVersion
  <2>7. CreateInv'
    BY <2>a, <2>c DEF CreateInv
  <2> QED
    BY <2>2, <2>3, <2>4, <2>5, <2>7
<1>11. ASSUME NEW t \in Threads, UnlockToError(t) PROVE Core'
  <2>a. Live /\ HasVersion(id[t]) /\ Creators = {}
    BY <1>11, AddressedLive, Numbers DEF UnlockToError
  <2>0. Head(pending) \in ToSet(pending) /\ ToSet(Tail(pending)) \subseteq ToSet(pending)
    <3>1. pending \in Seq(issued) /\ pending # << >>
      BY <1>11 DEF UnlockToError, TypeOK
    <3>2. /\ Tail(pending) \in Seq(issued) /\ Len(Tail(pending)) = Len(pending) - 1
          /\ \A i \in 1..Len(Tail(pending)) : Tail(pending)[i] = pending[i + 1]
          /\ Len(pending) \in Nat \ {0} /\ Head(pending) = pending[1]
      BY <3>1, HeadTailProperties, EmptySeq
    <3>3. ToSet(pending) = {pending[i] : i \in 1..Len(pending)}
      BY <3>1, MembersOfSeq
    <3>4. ToSet(Tail(pending)) = {Tail(pending)[i] : i \in 1..Len(Tail(pending))}
      BY <3>2, MembersOfSeq
    <3> QED
      BY <3>2, <3>3, <3>4
  <2>c. Creators' = Creators
    BY <1>11, <2>a DEF UnlockToError, Goto, Return, TypeOK, Creators, CreateLabels
  <2>2. VerInv'
    BY <2>a, <2>c, <1>11 DEF UnlockToError, TypeOK, VerInv, Live
  <2>3. DestroyInv'
    BY <2>a, <2>c, <1>11 DEF UnlockToError, TypeOK, DestroyInv, DestroyLabels, Live
  <2>4. HoldInv'
    <3>1. /\ Holders' = Holders /\ t \in Holders /\ UNCHANGED <<firstVer, lockedVer, butex>>
          /\ id' = [id EXCEPT ![t] = Head(pending)]
      BY <2>a, <1>11 DEF UnlockToError, Holders
    <3>2. HolderIsCurrent'
      BY <2>0, <3>1 DEF HoldInv, PendInv, HasVersion, HolderIsCurrent, TypeOK, Holders
    <3> QED
      BY <2>c, <3>1, <3>2 DEF HoldInv, Live
  <2>5. PendInv'
    BY <2>a, <1>11, <2>0, <2>4 DEF UnlockToError, PendInv, HoldInv, HasVersion, Holders
  <2>7. CreateInv'
    BY <2>a, <2>c DEF CreateInv
  <2> QED
    BY <2>2, <2>3, <2>4, <2>5, <2>7
<1>12. ASSUME NEW t \in Threads, Unlock(t) PROVE Core'
  <2>a. Live /\ HasVersion(id[t]) /\ Creators = {}
    BY <1>12, AddressedLive, Numbers DEF Unlock
  <2>c. Creators' = Creators
    BY <1>12, <2>a DEF Unlock, Goto, Return, TypeOK, Creators, CreateLabels
  <2>2. VerInv'
    BY <2>a, <2>c, <1>12 DEF Unlock, Return, Goto, TypeOK, VerInv, Live
  <2>3. DestroyInv'
    BY <2>a, <2>c, <1>12 DEF Unlock, Return, Goto, TypeOK, DestroyInv, DestroyLabels, Live
  <2>4. HoldInv'
    <3>1. Holders' = Holders \ {t}
      BY <2>a, <1>12 DEF Unlock, Return, Goto, TypeOK, Holders
    <3>2. t \in Holders /\ butex' = firstVer' /\ UNCHANGED <<firstVer, lockedVer>>
      BY <1>12 DEF Unlock, Holders
    <3>3. Holders' = {}
      BY <3>1, <3>2 DEF HoldInv
    <3> QED
      BY <3>2, <3>3 DEF HoldInv, HolderIsCurrent
  <2>5. PendInv'
    BY <2>a, <1>12, MembersOfEmpty DEF Unlock, PendInv
  <2>7. CreateInv'
    BY <2>a, <2>c DEF CreateInv
  <2> QED
    BY <2>2, <2>3, <2>4, <2>5, <2>7
<1>13. ASSUME NEW t \in Threads, WakeOne(t) PROVE Core'
  <2>0. /\ pc[t] = "wakeOne" /\ pc'[t] = "idle" /\ pc' \in [Threads -> Labels]
        /\ \A u \in Threads \ {t} :
              IF lockQueue # << >> /\ u = Head(lockQueue)
              THEN pc[u] = "lockBlocked" /\ pc'[u] = "relock" ELSE pc'[u] = pc[u]
    BY <1>13, WakesOne
  <2>c. /\ Creators' = Creators
        /\ \A u \in Creators : pc'[u] = pc[u] /\ expect'[u] = expect[u]
    BY <1>13, <2>0 DEF WakeOne, Goto, Return, TypeOK, Creators, CreateLabels
  <2>2. VerInv'
    BY <2>c, <1>13 DEF WakeOne, TypeOK, VerInv, Live
  <2>3. DestroyInv'
    BY <2>c, <1>13, <2>0 DEF WakeOne, DestroyInv, DestroyLabels, Live
  <2>4. HoldInv'
    <3>1. Holders' = Holders
      BY <2>0 DEF Holders
    <3>2. /\ UNCHANGED <<firstVer, lockedVer, butex>>
          /\ \A u \in Holders : id'[u] = id[u]
      BY <1>13 DEF WakeOne, TypeOK, Holders
    <3> QED
      BY <2>c, <3>1, <3>2 DEF HoldInv, HolderIsCurrent, HasVersion, Live
  <2>5. PendInv'
    BY <2>c, <1>13, <2>4 DEF WakeOne, TypeOK, PendInv, HoldInv, HasVersion, Live
  <2>7. CreateInv'
    BY <1>13, <2>c, CreateKept DEF WakeOne
  <2> QED
    BY <2>2, <2>3, <2>4, <2>5, <2>7
<1>14. ASSUME NEW t \in Threads, AboutToDestroy(t) PROVE Core'
  <2>a. Live /\ HasVersion(id[t]) /\ Creators = {}
    BY <1>14, AddressedLive, Numbers DEF AboutToDestroy
  <2>c. Creators' = Creators
    BY <1>14, <2>a DEF AboutToDestroy, Goto, Return, TypeOK, Creators, CreateLabels
  <2>0. /\ Live /\ firstVer \in Nat /\ lockedVer \in Nat /\ butex # firstVer
        /\ butex' = lockedVer + 2 /\ UNCHANGED <<firstVer, lockedVer, pooled, pending, issued>>
        /\ ContendedVer = lockedVer + 1 /\ lockedVer + 2 < VerMod
    BY <1>14, <2>a, Words DEF AboutToDestroy, VerInv
  <2>2. VerInv'
    BY <2>c, <2>0 DEF VerInv, Live
  <2>3. DestroyInv'
    BY <2>a, <2>c, <1>14 DEF AboutToDestroy, Goto, TypeOK, DestroyInv, DestroyLabels, Live
  <2>4. HoldInv'
    <3>1. Holders' = Holders /\ UNCHANGED id
      BY <2>a, <1>14 DEF AboutToDestroy, Goto, TypeOK, Holders
    <3> QED
      BY <2>c, <2>0, <3>1 DEF HoldInv, HolderIsCurrent, HasVersion, Live
  <2>5. PendInv'
    BY <2>c, <2>0, <2>4 DEF PendInv, HoldInv, HasVersion, Live
  <2>7. CreateInv'
    BY <2>a, <2>c DEF CreateInv
  <2> QED
    BY <2>2, <2>3, <2>4, <2>5, <2>7
<1>15. ASSUME NEW t \in Threads, WakeLockers(t) PROVE Core'
  <2>0. /\ \/ pc[t] = "wakeLockers" /\ pc'[t] = "holding"
           \/ pc[t] = "destroyWakeLockers" /\ pc'[t] = "destroyWakeJoiners"
        /\ pc' \in [Threads -> Labels]
        /\ \A u \in Threads \ {t} : IF u \in ToSet(lockQueue)
                                     THEN pc[u] = "lockBlocked" /\ pc'[u] = "relock"
                                     ELSE pc'[u] = pc[u]
    BY <1>15, WakesLockers
  <2>c. /\ Creators' = Creators
        /\ \A u \in Creators : pc'[u] = pc[u] /\ expect'[u] = expect[u]
    BY <1>15, <2>0 DEF WakeLockers, Goto, Return, TypeOK, Creators, CreateLabels
  <2>2. VerInv'
    BY <2>c, <1>15 DEF WakeLockers, TypeOK, VerInv, Live
  <2>3. DestroyInv'
    BY <2>c, <1>15, <2>0 DEF WakeLockers, DestroyInv, DestroyLabels, Live
  <2>4. HoldInv'
    <3>1. Holders' = Holders
      BY <2>0 DEF Holders
    <3>2. /\ UNCHANGED <<firstVer, lockedVer, butex>>
          /\ \A u \in Holders : id'[u] = id[u]
      BY <1>15 DEF WakeLockers, TypeOK, Holders
    <3> QED
      BY <2>c, <3>1, <3>2 DEF HoldInv, HolderIsCurrent, HasVersion, Live
  <2>5. PendInv'
    BY <2>c, <1>15, <2>4 DEF WakeLockers, TypeOK, PendInv, HoldInv, HasVersion, Live
  <2>7. CreateInv'
    BY <1>15, <2>c, CreateKept DEF WakeLockers
  <2> QED
    BY <2>2, <2>3, <2>4, <2>5, <2>7
<1>16. ASSUME NEW t \in Threads, UnlockAndDestroy(t) PROVE Core'
  <2>a. Live /\ HasVersion(id[t]) /\ Creators = {}
    BY <1>16, AddressedLive, Numbers DEF UnlockAndDestroy
  <2>c. Creators' = Creators
    BY <1>16, <2>a DEF UnlockAndDestroy, Goto, Return, TypeOK, Creators, CreateLabels
  <2>0. /\ ~Live' /\ firstVer' = EndVer /\ lockedVer' = EndVer /\ butex' = EndVer
        /\ EndVer \in 0..(VerMod - 1) /\ pooled = 0 /\ UNCHANGED <<pooled, issued>>
        /\ \A u \in Threads : pc[u] \notin DestroyLabels
    BY <1>16, <2>a, WordTypes DEF UnlockAndDestroy, DestroyInv, VerInv, Live
  <2>2. VerInv'
    BY <2>c, <2>0 DEF VerInv, Live
  <2>3. DestroyInv'
    <3>1. \A u \in Threads : pc'[u] \in DestroyLabels => u = t
      BY <1>16, <2>0 DEF UnlockAndDestroy, Goto, TypeOK
    <3> QED
      BY <2>0, <2>a, <2>c, <3>1 DEF DestroyInv
  <2>4. HoldInv'
    <3>1. t \in Holders /\ Holders' = Holders \ {t}
      BY <2>a, <1>16 DEF UnlockAndDestroy, Goto, Holders, TypeOK
    <3>2. Holders' = {}
      BY <3>1 DEF HoldInv
    <3> QED
      BY <2>0, <3>2 DEF HoldInv, HolderIsCurrent
  <2>5. PendInv'
    BY <2>a, <1>16, MembersOfEmpty DEF UnlockAndDestroy, PendInv
  <2>7. CreateInv'
    BY <2>a, <2>c DEF CreateInv
  <2> QED
    BY <2>2, <2>3, <2>4, <2>5, <2>7
<1>17. ASSUME NEW t \in Threads, DestroyWakeJoiners(t) PROVE Core'
  <2>0. /\ pc[t] = "destroyWakeJoiners" /\ pc'[t] = "destroyReturn" /\ pc' \in [Threads -> Labels]
        /\ \A u \in Threads \ {t} : IF u \in ToSet(joinQueue)
                                     THEN pc[u] = "joinBlocked" /\ pc'[u] = "join"
                                     ELSE pc'[u] = pc[u]
    BY <1>17, WakesJoiners
  <2>c. /\ Creators' = Creators
        /\ \A u \in Creators : pc'[u] = pc[u] /\ expect'[u] = expect[u]
    BY <1>17, <2>0 DEF DestroyWakeJoiners, Goto, Return, TypeOK, Creators, CreateLabels
  <2>2. VerInv'
    BY <2>c, <1>17 DEF DestroyWakeJoiners, TypeOK, VerInv, Live
  <2>3. DestroyInv'
    BY <2>c, <1>17, <2>0 DEF DestroyWakeJoiners, DestroyInv, DestroyLabels, Live
  <2>4. HoldInv'
    <3>1. Holders' = Holders
      BY <2>0 DEF Holders
    <3>2. /\ UNCHANGED <<firstVer, lockedVer, butex>>
          /\ \A u \in Holders : id'[u] = id[u]
      BY <1>17 DEF DestroyWakeJoiners, TypeOK, Holders
    <3> QED
      BY <2>c, <3>1, <3>2 DEF HoldInv, HolderIsCurrent, HasVersion, Live
  <2>5. PendInv'
    BY <2>c, <1>17, <2>4 DEF DestroyWakeJoiners, TypeOK, PendInv, HoldInv, HasVersion, Live
  <2>7. CreateInv'
    BY <1>17, <2>c, CreateKept DEF DestroyWakeJoiners
  <2> QED
    BY <2>2, <2>3, <2>4, <2>5, <2>7
<1>18. ASSUME NEW t \in Threads, DestroyReturn(t) PROVE Core'
  <2>0. /\ ~Live /\ Creators = {} /\ pooled = 0 /\ pooled' = 1
        /\ UNCHANGED <<firstVer, lockedVer, butex, issued, pending>>
        /\ \A u \in Threads : pc[u] \in DestroyLabels => u = t
        /\ pc[t] = "destroyReturn" /\ pc' = [pc EXCEPT ![t] = "idle"]
    BY <1>18 DEF DestroyReturn, Return, Goto, DestroyInv, DestroyLabels
  <2>c. Creators' = {} /\ ~Live'
    BY <2>0 DEF TypeOK, Creators, CreateLabels, Live
  <2>2. VerInv'
    BY <2>0, <2>c DEF VerInv
  <2>3. DestroyInv'
    <3>1. \A u \in Threads : pc'[u] \notin DestroyLabels
      BY <2>0 DEF TypeOK, DestroyLabels
    <3> QED
      BY <3>1 DEF DestroyInv
  <2>4. HoldInv'
    <3>1. Holders' = Holders /\ Holders = {}
      BY <2>0 DEF TypeOK, Holders, HoldInv
    <3> QED
      BY <2>c, <3>1 DEF HoldInv, HolderIsCurrent
  <2>5. PendInv'
    BY <2>0 DEF PendInv, HoldInv
  <2>7. CreateInv'
    BY <2>c DEF CreateInv
  <2> QED
    BY <2>2, <2>3, <2>4, <2>5, <2>7
<1>19. ASSUME NEW t \in Threads, NEW v \in issued, Cancel(t, v) PROVE Core'
  <2>a. Live /\ HasVersion(v) /\ Creators = {}
    BY <1>19, AddressedLive, Numbers DEF Cancel
  <2>c. Creators' = Creators
    BY <1>19, <2>a DEF Cancel, Goto, Return, TypeOK, Creators, CreateLabels
  <2>0. /\ ~Live' /\ firstVer' = EndVer /\ lockedVer' = EndVer /\ butex' = EndVer
        /\ EndVer \in 0..(VerMod - 1) /\ pooled' = 1 /\ UNCHANGED issued
        /\ \A u \in Threads : pc[u] \notin DestroyLabels
    BY <1>19, <2>a, WordTypes DEF Cancel, DestroyInv, VerInv, Live
  <2>2. VerInv'
    BY <2>c, <2>0 DEF VerInv, Live
  <2>3. DestroyInv'
    BY <2>a, <1>19, <2>0 DEF Cancel, DestroyInv
  <2>4. HoldInv'
    <3>1. Holders' = Holders /\ Holders = {}
      BY <2>a, <1>19 DEF Cancel, Holders, HoldInv
    <3> QED
      BY <2>0, <3>1 DEF HoldInv, HolderIsCurrent
  <2>5. PendInv'
    <3>1. ToSet(pending) = {}
      BY <2>a, <1>19 DEF Cancel, PendInv, HoldInv
    <3> QED
      BY <2>a, <1>19, <3>1 DEF Cancel, PendInv
  <2>7. CreateInv'
    BY <2>a, <2>c DEF CreateInv
  <2> QED
    BY <2>2, <2>3, <2>4, <2>5, <2>7
<1>20. ASSUME NEW t \in Threads, NEW v \in issued, JoinCall(t, v) PROVE Core'
  <2>c. /\ Creators' = Creators
        /\ \A u \in Creators : pc'[u] = pc[u] /\ expect'[u] = expect[u]
    BY <1>20 DEF JoinCall, Goto, Return, TypeOK, Creators, CreateLabels
  <2>2. VerInv'
    BY <2>c, <1>20 DEF JoinCall, Goto, TypeOK, VerInv, Live
  <2>3. DestroyInv'
    BY <2>c, <1>20 DEF JoinCall, Goto, TypeOK, DestroyInv, DestroyLabels, Live
  <2>4. HoldInv'
    <3>1. Holders' = Holders
      BY <1>20 DEF JoinCall, Goto, TypeOK, Holders
    <3> QED
      BY SMTT(30), <2>c, <1>20, <3>1 DEF JoinCall, Goto, TypeOK, VerInv, HoldInv,
           HolderIsCurrent, HasVersion, Holders, Live
  <2>5. PendInv'
    BY <2>c, <1>20, <2>4 DEF JoinCall, Goto, TypeOK, PendInv, HoldInv, HasVersion, Live
  <2>7. CreateInv'
    BY <1>20, <2>c, CreateKept DEF JoinCall
  <2> QED
    BY <2>2, <2>3, <2>4, <2>5, <2>7
<1>21. ASSUME NEW t \in Threads, JoinCheck(t) PROVE Core'
  <2>c. /\ Creators' = Creators
        /\ \A u \in Creators : pc'[u] = pc[u] /\ expect'[u] = expect[u]
    BY <1>21 DEF JoinCheck, Goto, Return, TypeOK, Creators, CreateLabels
  <2>2. VerInv'
    BY <2>c, <1>21 DEF JoinCheck, Return, Goto, TypeOK, VerInv, Live
  <2>3. DestroyInv'
    BY SMTT(30), <2>c, <1>21 DEF JoinCheck, Return, Goto, TypeOK, DestroyInv, DestroyLabels, Live
  <2>4. HoldInv'
    <3>1. Holders' = Holders
      BY <1>21 DEF JoinCheck, Return, Goto, TypeOK, Holders
    <3>2. /\ UNCHANGED <<firstVer, lockedVer, butex>>
          /\ \A u \in Holders : id'[u] = id[u]
      BY <1>21 DEF JoinCheck, Return, TypeOK, Holders
    <3> QED
      BY <2>c, <3>1, <3>2 DEF HoldInv, HolderIsCurrent, HasVersion, Live
  <2>5. PendInv'
    BY <2>c, <1>21, <2>4 DEF JoinCheck, Return, Goto, TypeOK, PendInv, HoldInv, HasVersion, Live
  <2>7. CreateInv'
    BY <1>21, <2>c, CreateKept DEF JoinCheck
  <2> QED
    BY <2>2, <2>3, <2>4, <2>5, <2>7
<1>22. ASSUME NEW t \in Threads, JoinWait(t) PROVE Core'
  <2>c. /\ Creators' = Creators
        /\ \A u \in Creators : pc'[u] = pc[u] /\ expect'[u] = expect[u]
    BY <1>22 DEF JoinWait, Goto, Return, TypeOK, Creators, CreateLabels
  <2>2. VerInv'
    BY <2>c, <1>22 DEF JoinWait, Goto, TypeOK, VerInv, Live
  <2>3. DestroyInv'
    BY <2>c, <1>22 DEF JoinWait, Goto, TypeOK, DestroyInv, DestroyLabels, Live
  <2>4. HoldInv'
    <3>1. Holders' = Holders
      BY <1>22 DEF JoinWait, Goto, TypeOK, Holders
    <3> QED
      BY <2>c, <1>22, <3>1 DEF JoinWait, Goto, TypeOK, VerInv, HoldInv, HolderIsCurrent, HasVersion,
           Holders, Live
  <2>5. PendInv'
    BY <2>c, <1>22, <2>4 DEF JoinWait, Goto, TypeOK, PendInv, HoldInv, HasVersion, Live
  <2>7. CreateInv'
    BY <1>22, <2>c, CreateKept DEF JoinWait
  <2> QED
    BY <2>2, <2>3, <2>4, <2>5, <2>7
<1>23. ASSUME NEW t \in Threads, CreateJoin(t) PROVE Core'
  <2>0. /\ Creators = {t} /\ ~Live /\ Holders = {} /\ ToSet(pending) = {} /\ pooled = 0
        /\ \A u \in Threads : pc[u] \notin DestroyLabels
        /\ pc[t] = "createJoin" /\ firstVer = lockedVer
    BY <1>23, CreatorAlone DEF CreateJoin, CreateLabels, CreateInv
  <2>1. /\ joinButex' = butex /\ pc' = [pc EXCEPT ![t] = "createFirst"]
        /\ UNCHANGED <<firstVer, lockedVer, butex, pooled, issued, pending, id, expect>>
    BY <1>23 DEF CreateJoin, Goto
  <2>c. Creators' = {t} /\ ~Live' /\ Holders' = {} /\ pc'[t] = "createFirst"
    BY <2>0, <2>1 DEF TypeOK, Creators, CreateLabels, Live, Holders
  <2>2. VerInv'
    BY <2>1, <2>c DEF VerInv
  <2>3. DestroyInv'
    <3>1. \A u \in Threads : pc'[u] \notin DestroyLabels
      BY <2>0, <2>1 DEF TypeOK, DestroyLabels
    <3> QED
      BY <3>1 DEF DestroyInv
  <2>4. HoldInv'
    BY <2>c DEF HoldInv, HolderIsCurrent
  <2>5. PendInv'
    BY <2>0, <2>1 DEF PendInv
  <2>7. CreateInv'
    BY <2>0, <2>1, <2>c DEF CreateInv
  <2> QED
    BY <2>2, <2>3, <2>4, <2>5, <2>7
<1>24. ASSUME NEW t \in Threads, CreateFirst(t) PROVE Core'
  <2>0. /\ Creators = {t} /\ ~Live /\ Holders = {} /\ ToSet(pending) = {} /\ pooled = 0
        /\ \A u \in Threads : pc[u] \notin DestroyLabels
        /\ pc[t] = "createFirst" /\ joinButex = butex
    BY <1>24, CreatorAlone DEF CreateFirst, CreateLabels, CreateInv
  <2>1. /\ firstVer' = butex /\ pc' = [pc EXCEPT ![t] = "createLocked"]
        /\ UNCHANGED <<lockedVer, butex, joinButex, pooled, issued, pending, id, expect>>
    BY <1>24 DEF CreateFirst, Goto
  <2>c. Creators' = {t} /\ ~Live' /\ Holders' = {} /\ pc'[t] = "createLocked"
    BY <2>0, <2>1 DEF TypeOK, Creators, CreateLabels, Live, Holders
  <2>2. VerInv'
    BY <2>1, <2>c DEF VerInv
  <2>3. DestroyInv'
    <3>1. \A u \in Threads : pc'[u] \notin DestroyLabels
      BY <2>0, <2>1 DEF TypeOK, DestroyLabels
    <3> QED
      BY <3>1 DEF DestroyInv
  <2>4. HoldInv'
    BY <2>c DEF HoldInv, HolderIsCurrent
  <2>5. PendInv'
    BY <2>0, <2>1 DEF PendInv
  <2>7. CreateInv'
    BY <2>0, <2>1, <2>c DEF CreateInv
  <2> QED
    BY <2>2, <2>3, <2>4, <2>5, <2>7
<1>25. ASSUME NEW t \in Threads, CreateLocked(t) PROVE Core'
  <2>0. /\ Creators = {t} /\ ~Live /\ Holders = {} /\ ToSet(pending) = {} /\ pooled = 0
        /\ \A u \in Threads : pc[u] \notin DestroyLabels
        /\ pc[t] = "createLocked" /\ joinButex = butex /\ firstVer = butex
        /\ Ver(butex + expect[t]) = butex + expect[t]
    BY <1>25, CreatorAlone DEF CreateLocked, CreateLabels, CreateInv
  <2>1. /\ lockedVer' = butex + expect[t] /\ pc' = [pc EXCEPT ![t] = "createId"]
        /\ UNCHANGED <<firstVer, butex, joinButex, pooled, issued, pending, id, expect>>
    BY <1>25, <2>0 DEF CreateLocked, Goto
  <2>c. Creators' = {t} /\ ~Live' /\ Holders' = {} /\ pc'[t] = "createId"
    BY <2>0, <2>1 DEF TypeOK, Creators, CreateLabels, Live, Holders
  <2>2. VerInv'
    BY <2>1, <2>c DEF VerInv
  <2>3. DestroyInv'
    <3>1. \A u \in Threads : pc'[u] \notin DestroyLabels
      BY <2>0, <2>1 DEF TypeOK, DestroyLabels
    <3> QED
      BY <3>1 DEF DestroyInv
  <2>4. HoldInv'
    BY <2>c DEF HoldInv, HolderIsCurrent
  <2>5. PendInv'
    BY <2>0, <2>1 DEF PendInv
  <2>7. CreateInv'
    BY <2>0, <2>1, <2>c DEF CreateInv
  <2> QED
    BY <2>2, <2>3, <2>4, <2>5, <2>7
<1>26. ASSUME NEW t \in Threads, CreateId(t) PROVE Core'
  <2>0. /\ Creators = {t} /\ ~Live /\ Holders = {} /\ ToSet(pending) = {} /\ pooled = 0
        /\ \A u \in Threads : pc[u] \notin DestroyLabels
        /\ pc[t] = "createId" /\ joinButex = butex /\ firstVer = butex
        /\ lockedVer = butex + expect[t] /\ expect[t] \in 1..MaxRange
        /\ butex \in Nat /\ 0 < butex /\ butex + MaxRange + 2 < VerMod
        /\ \A i \in 0..(expect[t] - 1) : Ver(butex + i) = butex + i
    BY <1>26, CreatorAlone DEF CreateId, CreateLabels, CreateInv
  <2>1. /\ issued' = issued \cup {Ver(butex + i) : i \in 0..(expect[t] - 1)}
        /\ pc' = [pc EXCEPT ![t] = "idle"]
        /\ UNCHANGED <<firstVer, lockedVer, butex, joinButex, pooled, pending>>
    BY <1>26 DEF CreateId, Return, Goto
  <2>c. Creators' = {} /\ Live' /\ Holders' = {}
    BY <2>0, <2>1 DEF TypeOK, Creators, CreateLabels, Live, Holders
  <2>2. VerInv'
    <3>1. \A i \in 0..(expect[t] - 1) : Ver(butex + i) # 0
      BY <2>0
    <3>2. 0 \notin issued'
      BY <2>1, <3>1 DEF VerInv
    <3> QED
      BY <2>0, <2>1, <2>c, <3>2 DEF VerInv
  <2>3. DestroyInv'
    <3>1. \A u \in Threads : pc'[u] \notin DestroyLabels
      BY <2>0, <2>1 DEF TypeOK, DestroyLabels
    <3> QED
      BY <3>1 DEF DestroyInv
  <2>4. HoldInv'
    BY <2>0, <2>1, <2>c DEF HoldInv, HolderIsCurrent
  <2>5. PendInv'
    BY <2>0, <2>1 DEF PendInv
  <2>7. CreateInv'
    BY <2>c DEF CreateInv
  <2> QED
    BY <2>2, <2>3, <2>4, <2>5, <2>7
<1>27. CASE UNCHANGED vars
  BY <1>27 DEF vars, VerInv, Live, DestroyInv, HoldInv, Holders, HolderIsCurrent, HasVersion,
       PendInv, CreateInv, Creators
<1> QED
  BY <1>1, <1>2, <1>3, <1>4, <1>5, <1>6, <1>7, <1>8, <1>9, <1>10, <1>11, <1>12, <1>13, <1>14,
       <1>15, <1>16, <1>17, <1>18, <1>19, <1>20, <1>21, <1>22, <1>23, <1>24, <1>25, <1>26, <1>27
     DEF Next, Call, LockStep, JoinStep, WakeStep, Release, CreateStep

\* Every step preserves the invariant.
LEMMA NextInv == IInv /\ [Next]_vars => IInv'
<1> SUFFICES ASSUME IInv, [Next]_vars PROVE IInv'
  OBVIOUS
<1>1. Base'
  BY NextBase DEF IInv
<1>2. ASSUME ~intruded' PROVE Core'
  <2>1. Core
    BY <1>2, IntrudedStays DEF IInv
  <2> QED
    BY <1>1, <1>2, <2>1, NextCore DEF IInv
<1> QED
  BY <1>1, <1>2 DEF IInv

\* Every reachable state satisfies the invariant.
LEMMA SpecInv == Spec => []IInv
BY InitInv, NextInv, PTL DEF Spec

\* The variables have their types, for every number of threads, versions and
\* incarnations (id_create_ranged_impl, fiber_session_error2_verbose).
THEOREM TypeCorrect == Spec => []TypeOK
<1>1. IInv => TypeOK
  BY DEF IInv, Base
<1> QED
  BY SpecInv, <1>1, PTL

\* One thread at a time holds a session, it does so with an identifier of that session,
\* and the word is locked exactly then, while no old identifier has got into the slot
\* between the stores of a creation (fiber_session_lock, _trylock, _error, _unlock).
THEOREM HeldCorrect == Spec => []HeldRightly
BY SpecInv, InvImplies, PTL

\* The words of a live session never wrap around, with the same exception
\* (id_create_ranged_impl).
THEOREM VersionsCorrect == Spec => []VersionsOrdered
BY SpecInv, InvImplies, PTL


-----------------------------------------------------------------------------
(* Waiting.  An expected word that has become old must not be met again. *)

\* An identifier of the session that is there.
Current(v) == HasVersion(v) /\ Creators = {}

\* What an incarnation moves the versions by, at most: its range, the three words
\* after it, and the 0 that is skipped.
Step == MaxRange + 4

\* The incarnations do not use up the versions.  After 2^32 of them a thread that
\* has slept since may find the word it expects, and wait for a lock that another
\* session's threads pass on.
NoLap == (MaxCreates + 1) * Step < VerMod

\* How far a version is from the first one, around the circle.
Dist(v) == IF v >= FirstVer THEN v - FirstVer ELSE v + VerMod - FirstVer

\* What the incarnations may have travelled when the slot is at v: a restart at 1
\* happens once, and costs less than one of them.
Travel(n, v) == n * Step + (IF v < FirstVer THEN Step ELSE 0)

\* The slot travels at most one Step with each incarnation; *butex goes ahead, and the
\* other words follow.
TravelInv ==
    /\ Live => /\ creates > 0 /\ joinButex = firstVer
               /\ Dist(firstVer) <= Travel(creates - 1, firstVer) + 1
    /\ Creators # {} => /\ creates > 0 /\ Dist(butex) <= Travel(creates - 1, butex) + 1
                        /\ Dist(firstVer) <= Dist(butex) /\ Dist(joinButex) <= Dist(butex)
    /\ ~Live /\ Creators = {} => Dist(firstVer) <= Travel(creates, firstVer)
    /\ Creators = {} => Dist(joinButex) <= Dist(firstVer)

\* The word that a thread is about to wait for is of this incarnation and means that
\* it is contended, or, for a joiner, that it lives; or the word is old.
ExpectInv == \A t \in Threads :
    /\ pc[t] = "lockWait" =>
          \/ Current(id[t]) /\ firstVer < expect[t] /\ expect[t] <= lockedVer + 1
          \/ Dist(expect[t]) < Dist(firstVer)
    /\ pc[t] = "joinWait" =>
          \/ Current(id[t]) /\ expect[t] = joinButex
          \/ Dist(expect[t]) < Dist(joinButex)
          \/ stranded

\* A locker is queued for the session that is there, or the destroyer will wake it.
LockersCurrent ==
    ~stranded => \A t \in Threads : pc[t] = "lockBlocked" =>
        Current(id[t]) \/ \E u \in Threads : pc[u] = "destroyWakeLockers"

\* LockersHaveWaker and JoinersHaveWaker, of the threads instead of the queues.
LockersAwaited ==
    ~stranded /\ (\E t \in Threads : pc[t] = "lockBlocked") =>
        \/ Live /\ butex \in {ContendedVer, UnlockableVer}
        \/ \E t \in Threads : pc[t] \in {"wakeOne", "wakeLockers", "destroyWakeLockers"}
        \/ \E t \in Threads : pc[t] \in {"relock", "lockWait"} /\ Current(id[t])
JoinersAwaited ==
    ~stranded => \A t \in Threads : pc[t] = "joinBlocked" =>
        \/ Current(id[t])
        \/ \E u \in Threads : pc[u] \in {"destroyWakeLockers", "destroyWakeJoiners"}

WaitInv == TravelInv /\ ExpectInv /\ LockersCurrent /\ LockersAwaited /\ JoinersAwaited

\* The products that NoLap bounds.
LEMMA Steps ==
  ASSUME NoLap, TypeOK
  PROVE  \E b, m \in Nat :
            /\ creates * Step = b /\ MaxCreates * Step = m /\ m + Step < VerMod /\ b <= m
            /\ creates > 0 => (creates - 1) * Step = b - Step /\ b - Step \in Nat
            /\ creates < MaxCreates => b + Step <= m
            /\ (creates + 1) * Step = b + Step
<1>1. Step \in Nat /\ creates \in Nat /\ creates <= MaxCreates
  BY Constants DEF Step, TypeOK
<1> DEFINE b == creates * Step
           m == MaxCreates * Step
           d == (MaxCreates - creates) * Step
<1>2. b \in Nat /\ m \in Nat
  BY <1>1, Constants
<1>3. m + Step < VerMod
  <2>1. (MaxCreates + 1) * Step = m + Step
    BY <1>1, Constants
  <2> QED
    BY <2>1 DEF NoLap
<1>4. d \in Nat /\ m = b + d
  BY <1>1, Constants
<1>5. (creates - 1) * Step = b - Step /\ (creates + 1) * Step = b + Step
  BY <1>1
<1>6. creates > 0 => b - Step \in Nat
  <2>1. creates > 0 => (creates - 1) * Step \in Nat
    BY <1>1
  <2> QED
    BY <1>5, <2>1
<1>7. creates < MaxCreates => b + Step <= m
  <2>1. creates < MaxCreates => (MaxCreates - creates - 1) * Step \in Nat
    BY <1>1, Constants
  <2>2. (MaxCreates - creates - 1) * Step = m - b - Step
    BY <1>1, Constants
  <2> HIDE DEF b, m
  <2> QED
    BY <1>1, <1>2, <2>1, <2>2
<1> HIDE DEF b, m, d
<1>8. b <= m
  BY <1>2, <1>4
<1> QED
  BY <1>2, <1>3, <1>5, <1>6, <1>7, <1>8 DEF b, m

\* Within an incarnation, and to its end, versions move away from the first one.
LEMMA LiveRoom ==
  ASSUME NoLap, TypeOK, VerInv, TravelInv, Live
  PROVE  /\ \A v \in firstVer..(lockedVer + 2) : Dist(v) = Dist(firstVer) + (v - firstVer)
         /\ Dist(EndVer) = Dist(firstVer) + (lockedVer + 3 - firstVer)
         /\ Dist(EndVer) <= Travel(creates, EndVer)
         /\ Dist(firstVer) \in Nat
<1>1. PICK b \in Nat, m \in Nat :
         /\ creates * Step = b /\ m + Step < VerMod /\ b <= m
         /\ (creates - 1) * Step = b - Step /\ b - Step \in Nat
  BY Steps DEF TravelInv
<1>2. /\ firstVer \in Nat /\ lockedVer \in Nat /\ 0 < firstVer
      /\ firstVer + MaxRange + 2 < VerMod /\ lockedVer <= firstVer + MaxRange
      /\ firstVer < lockedVer
      /\ EndVer = IF lockedVer + 3 = VerMod THEN 0 ELSE lockedVer + 3
  BY Words DEF VerInv, Live
<1>3. Dist(firstVer) <= b - Step + (IF firstVer < FirstVer THEN Step ELSE 0) + 1
  BY <1>1 DEF TravelInv, Travel
<1>4. CASE firstVer >= FirstVer
  <2>1. Dist(firstVer) = firstVer - FirstVer
    BY <1>4 DEF Dist
  <2>2. \A v \in firstVer..(lockedVer + 2) : Dist(v) = v - FirstVer
    BY <1>2, <1>4, Constants DEF Dist
  <2>3. firstVer - FirstVer <= b - Step + 1
    BY <1>1, <1>2, <1>3, <1>4, <2>1, Constants DEF Step
  <2>4. lockedVer + 3 = VerMod => FirstVer > 0
    BY <1>1, <1>2, <2>3, Constants DEF Step
  <2>5. Dist(EndVer) = lockedVer + 3 - FirstVer
    BY <1>2, <1>4, <2>4, Constants DEF Dist
  <2>6. Dist(EndVer) <= Travel(creates, EndVer)
    BY <1>1, <1>2, <2>3, <2>5, Constants DEF Travel, Step
  <2> QED
    BY <1>2, <1>4, <2>1, <2>2, <2>5, <2>6, Constants
<1>5. CASE firstVer < FirstVer
  <2>1. Dist(firstVer) = firstVer + VerMod - FirstVer
    BY <1>2, <1>5, Constants DEF Dist
  <2>2. firstVer + VerMod - FirstVer <= b + 1
    BY <1>1, <1>2, <1>3, <1>5, <2>1, Constants DEF Step
  <2>3. lockedVer + 3 < FirstVer
    BY <1>1, <1>2, <2>2, Constants DEF Step
  <2>4. \A v \in firstVer..(lockedVer + 2) : Dist(v) = v + VerMod - FirstVer
    BY <1>2, <2>3, Constants DEF Dist
  <2>5. EndVer = lockedVer + 3 /\ Dist(EndVer) = lockedVer + 3 + VerMod - FirstVer
    BY <1>2, <2>3, Constants DEF Dist
  <2>6. Dist(EndVer) <= Travel(creates, EndVer)
    BY <1>1, <1>2, <2>2, <2>3, <2>5, Constants DEF Travel, Step
  <2> QED
    BY <1>2, <1>5, <2>1, <2>4, <2>5, <2>6, Constants
<1> QED
  BY <1>2, <1>4, <1>5, Constants

\* A new incarnation does not go back.
LEMMA CreateRoom ==
  ASSUME NoLap, TypeOK, VerInv, TravelInv, ~Live, Creators = {}, creates < MaxCreates
  PROVE  /\ Dist(firstVer) <= Dist(StartVer)
         /\ Dist(StartVer) <= Travel(creates, StartVer) + 1
<1>1. PICK b \in Nat, m \in Nat :
         creates * Step = b /\ m + Step < VerMod /\ b + Step <= m
  BY Steps DEF TravelInv
<1>2. butex \in 0..(VerMod - 1) /\ firstVer = butex
  BY Numbers DEF VerInv
<1>3. /\ StartVer \in Nat /\ 0 < StartVer
      /\ \/ StartVer = butex /\ 0 < butex
         \/ StartVer = 1 /\ (butex = 0 \/ butex + MaxRange + 2 >= VerMod)
  BY <1>2, StartVerRoom
<1>4. Dist(butex) <= b + (IF butex < FirstVer THEN Step ELSE 0)
  BY <1>1, <1>2 DEF TravelInv, Travel
<1>5. CASE StartVer = butex
  BY <1>1, <1>2, <1>4, <1>5, Constants DEF Travel, Dist, Step
<1>6. CASE StartVer = 1 /\ butex = 0
  <2>1. FirstVer # 1
    BY <1>1, <1>4, <1>6, Constants DEF Dist, Step
  <2> QED
    BY <1>1, <1>2, <1>4, <1>6, <2>1, Constants DEF Travel, Dist, Step
<1>7. CASE StartVer = 1 /\ butex + MaxRange + 2 >= VerMod
  <2>1. butex >= FirstVer
    BY <1>1, <1>2, <1>4, <1>7, Constants DEF Dist, Step
  <2>2. FirstVer > 1
    BY <1>1, <1>2, <1>4, <1>7, <2>1, Constants DEF Dist, Step
  <2> QED
    BY <1>1, <1>2, <1>4, <1>7, <2>1, <2>2, Constants DEF Travel, Dist, Step
<1> QED
  BY <1>3, <1>5, <1>6, <1>7

\* Distances are numbers.
LEMMA DistNat ==
  ASSUME NEW v \in 0..(VerMod - 1)
  PROVE  Dist(v) \in Nat
BY Constants DEF Dist

\* Who is in the queues.
LEMMA Queued ==
  ASSUME Base
  PROVE  /\ \A t \in Threads : pc[t] = "lockBlocked" <=> t \in ToSet(lockQueue)
         /\ \A t \in Threads : pc[t] = "joinBlocked" <=> t \in ToSet(joinQueue)
         /\ ToSet(lockQueue) \subseteq Threads /\ ToSet(joinQueue) \subseteq Threads
         /\ lockQueue # << >> <=> \E t \in Threads : pc[t] = "lockBlocked"
         /\ lockQueue # << >> => /\ Head(lockQueue) \in Threads
                                 /\ pc[Head(lockQueue)] = "lockBlocked"
<1>1. lockQueue \in Seq(Threads) /\ joinQueue \in Seq(Threads)
  BY DEF Base, TypeOK
<1>2. /\ \A t \in Threads : pc[t] = "lockBlocked" <=> t \in ToSet(lockQueue)
      /\ \A t \in Threads : pc[t] = "joinBlocked" <=> t \in ToSet(joinQueue)
  BY DEF Base, QueueInv
<1>3. ToSet(lockQueue) \subseteq Threads /\ (ToSet(lockQueue) = {} <=> lockQueue = << >>)
  BY <1>1, MembersOfSeq
<1>4. lockQueue # << >> => Head(lockQueue) \in ToSet(lockQueue)
  BY <1>1, MembersOfTail DEF Base, QueueInv
<1>5. ToSet(joinQueue) \subseteq Threads
  BY <1>1, MembersOfSeq
<1> QED
  BY <1>2, <1>3, <1>4, <1>5

\* The property that the run checks follows from the two invariants.
LEMMA WaitImplies == IInv /\ (~intruded => WaitInv) => NobodyForgotten
<1> SUFFICES ASSUME IInv, WaitInv, ~intruded PROVE NobodyForgotten
  BY Zenon DEF NobodyForgotten
<1>1. LockersHaveWaker
  BY Queued DEF IInv, WaitInv, LockersAwaited, LockersHaveWaker, Live, Current
<1>2. JoinersHaveWaker
  BY Queued DEF IInv, WaitInv, JoinersAwaited, JoinersHaveWaker, Current
<1> QED
  BY <1>1, <1>2, InvImplies DEF NobodyForgotten

\* The slot before its first creation.
LEMMA InitWait == Init => WaitInv
<1> SUFFICES ASSUME Init PROVE WaitInv
  OBVIOUS
<1>1. TravelInv
  <2>1. Step \in Nat /\ 0 * Step = 0
    BY Constants DEF Step
  <2>2. Creators = {}
    BY DEF Init, Creators, CreateLabels
  <2> QED
    BY <2>1, <2>2, Constants DEF Init, TravelInv, Travel, Dist, Live
<1> QED
  BY <1>1 DEF Init, WaitInv, ExpectInv, LockersCurrent, LockersAwaited, JoinersAwaited

\* Every step that is not an intruder's preserves it.
LEMMA NextWait ==
  ASSUME NoLap, Base, Core, WaitInv, ~intruded', [Next]_vars
  PROVE  WaitInv'
<1> USE Constants DEF Base, Core, WaitInv, slotVars, verVars, queues
<1>d. /\ Dist(firstVer) \in Nat /\ Dist(joinButex) \in Nat
      /\ \A u \in Threads : Dist(expect[u]) \in Nat
  BY Numbers, DistNat
<1>e. \A u \in Threads : expect[u] \in Nat /\ id[u] \in Nat
  BY Numbers
<1>l. \A u \in Threads : Current(id[u]) => Live
  BY Numbers DEF Current, HasVersion, Live
<1>1. ASSUME NEW t \in Threads, NEW range \in 1..MaxRange, CreateBegin(t, range) PROVE WaitInv'
  <2>0. /\ ~Live /\ Creators = {} /\ firstVer = butex /\ butex' = StartVer
        /\ creates' = creates + 1 /\ creates < MaxCreates /\ creates \in Nat
        /\ UNCHANGED <<firstVer, joinButex, id, stranded>> /\ pc[t] = "idle"
        /\ pc' = [pc EXCEPT ![t] = "createJoin"] /\ expect' = [expect EXCEPT ![t] = range]
        /\ \A u \in Threads : ~Current(id[u]) /\ pc[u] \notin DestroyLabels
    <3>1. pooled > 0 /\ pooled \in Nat
      BY <1>1 DEF CreateBegin, TypeOK
    <3>2. ~Live /\ Creators = {} /\ firstVer = butex
      BY <3>1 DEF VerInv, CreateInv
    <3>3. \A u \in Threads : ~Current(id[u]) /\ pc[u] \notin DestroyLabels
      BY <1>l, <3>1, <3>2 DEF DestroyInv
    <3> QED
      BY <1>1, <3>2, <3>3 DEF CreateBegin, Goto, TypeOK
  <2>c. Creators' # {} /\ ~Live' /\ \A u \in Threads : ~Current(id[u])'
    <3>1. t \in Creators'
      BY <2>0 DEF TypeOK, Creators, CreateLabels
    <3> QED
      BY <3>1 DEF Live, Current
  <2>1. TravelInv'
    <3>1. Dist(firstVer) <= Dist(StartVer) /\ Dist(StartVer) <= Travel(creates, StartVer) + 1
      BY <2>0, CreateRoom
    <3>2. creates' > 0 /\ creates' - 1 = creates
      BY <2>0
    <3>3. Dist(StartVer) \in Nat
      BY StartVerRoom, Numbers, DistNat
    <3>4. Dist(joinButex) <= Dist(StartVer)
      BY <1>d, <2>0, <3>1, <3>3 DEF TravelInv
    <3> QED
      BY <2>0, <2>c, <3>1, <3>2, <3>4 DEF TravelInv
  <2>2. ExpectInv'
    <3>1. \A u \in Threads : pc'[u] \in {"lockWait", "joinWait"} =>
                                 pc'[u] = pc[u] /\ expect'[u] = expect[u]
      BY <2>0 DEF TypeOK
    <3> QED
      BY <2>0, <3>1 DEF ExpectInv
  <2>3. LockersCurrent'
    BY <2>0 DEF LockersCurrent, DestroyLabels, TypeOK
  <2>4. LockersAwaited'
    BY <2>0 DEF LockersAwaited, LockersCurrent, DestroyLabels, TypeOK
  <2>5. JoinersAwaited'
    BY <2>0 DEF JoinersAwaited, DestroyLabels, TypeOK
  <2> QED
    BY <2>1, <2>2, <2>3, <2>4, <2>5
<1>2. ASSUME NEW t \in Threads, NEW v \in issued, LockCall(t, v) PROVE WaitInv'
  <2>c. Creators' = Creators
    BY <1>2 DEF LockCall, Goto, Return, TypeOK, Creators, CreateLabels
  <2>1. TravelInv'
    BY <2>c, <1>2 DEF LockCall, Goto, TravelInv, Live, Travel, Dist
  <2>2. ExpectInv'
    BY <2>c, <1>2 DEF LockCall, Goto, TypeOK, ExpectInv, Current, HasVersion, Dist
  <2>3. LockersCurrent'
    BY <2>c, <1>2 DEF LockCall, Goto, TypeOK, LockersCurrent, Current, HasVersion
  <2>4. LockersAwaited'
    BY <2>c, <1>2 DEF LockCall, Goto, TypeOK, LockersAwaited, Live, ContendedVer, UnlockableVer,
         Current, HasVersion
  <2>5. JoinersAwaited'
    BY <2>c, <1>2 DEF LockCall, Goto, TypeOK, JoinersAwaited, Current, HasVersion
  <2> QED
    BY <2>1, <2>2, <2>3, <2>4, <2>5
<1>3. ASSUME NEW t \in Threads, NEW r \in 0..MaxRange, LockAcquire(t, r) PROVE WaitInv'
  <2>a. Live /\ HasVersion(id[t]) /\ Creators = {}
    BY <1>3, AddressedLive, Numbers DEF LockAcquire
  <2>c. Creators' = Creators
    BY <1>3, <2>a DEF LockAcquire, Goto, Return, TypeOK, Creators, CreateLabels, LockLabels
  <2>0. /\ Live /\ Live' /\ UNCHANGED <<firstVer, joinButex, creates, id, expect, stranded>>
        /\ pc[t] \in {"lock", "relock"} /\ pc' = [pc EXCEPT ![t] = "holding"]
        /\ butex = firstVer /\ butex \notin {ContendedVer, UnlockableVer}
        /\ pc[t] = "relock" => butex' = ContendedVer'
        /\ \A u \in Threads : Current(id[u]) => Current(id[u])'
        /\ \A u \in Threads : expect[u] <= lockedVer + 1 => expect[u] <= lockedVer' + 1
    <3>1. PICK n \in Nat : /\ n = lockedVer' /\ lockedVer <= n /\ Live /\ firstVer \in Nat
                           /\ lockedVer \in Nat
      BY <1>3, Acquired
    <3>2. lockedVer <= n /\ firstVer < lockedVer /\ firstVer \in Nat /\ lockedVer \in Nat
      BY <2>c, <3>1 DEF Live
    <3>3. \A u \in Threads : expect[u] <= lockedVer + 1 => expect[u] <= n + 1
      BY <1>e, <3>2
    <3>4. \A u \in Threads : id[u] < lockedVer => id[u] < n
      BY <1>e, <3>2
    <3>5. firstVer < n /\ firstVer # lockedVer + 1 /\ firstVer # lockedVer + 2
      BY <3>2
    <3>6. butex \notin {ContendedVer, UnlockableVer}
      BY <2>a, <1>3, <3>1, <3>5, Words DEF LockAcquire
    <3> QED
      BY <2>a, <2>c, <1>3, <3>1, <3>3, <3>4, <3>5, <3>6 DEF LockAcquire, Goto, LockLabels, Live,
           Current, HasVersion,
           ContendedVer
  <2>1. TravelInv'
    BY <2>a, <2>c, <2>0 DEF TravelInv
  <2>2. ExpectInv'
    BY <2>0 DEF TypeOK, ExpectInv
  <2>3. LockersCurrent'
    BY <2>0 DEF TypeOK, LockersCurrent
  <2>4. LockersAwaited'
    <3>1. CASE pc[t] = "relock"
      BY <2>0, <3>1 DEF LockersAwaited
    <3>2. CASE pc[t] = "lock"
      BY <2>0, <3>2 DEF TypeOK, LockersAwaited
    <3> QED
      BY <2>0, <3>1, <3>2
  <2>5. JoinersAwaited'
    BY <2>0 DEF TypeOK, JoinersAwaited
  <2> QED
    BY <2>1, <2>2, <2>3, <2>4, <2>5
<1>4. ASSUME NEW t \in Threads, LockContend(t) PROVE WaitInv'
  <2>a. Live /\ HasVersion(id[t]) /\ Creators = {}
    BY <1>4, AddressedLive, Numbers DEF LockContend
  <2>c. Creators' = Creators
    BY <1>4, <2>a DEF LockContend, Goto, Return, TypeOK, Creators, CreateLabels, LockLabels
  <2>1. TravelInv'
    BY <2>a, <2>c, <1>4 DEF LockContend, Goto, LockLabels, TravelInv, Live, Travel, Dist
  <2>2. ExpectInv'
    <3>1. Live /\ Current(id[t])
      BY <2>a DEF Current
    <3>2. ContendedVer = lockedVer + 1 /\ firstVer < ContendedVer /\ ContendedVer <= lockedVer + 1
      BY <2>c, <3>1, Words DEF Live
    <3>3. /\ UNCHANGED <<firstVer, lockedVer, joinButex, id, stranded>>
          /\ pc' = [pc EXCEPT ![t] = "lockWait"] /\ expect' = [expect EXCEPT ![t] = ContendedVer]
      BY <2>a, <1>4 DEF LockContend, Goto
    <3>4. \A u \in Threads : Current(id[u])' <=> Current(id[u])
      BY <2>c, <3>3 DEF Current, HasVersion
    <3> QED
      BY <3>1, <3>2, <3>3, <3>4 DEF TypeOK, ExpectInv
  <2>3. LockersCurrent'
    BY <2>a, <2>c, <1>4 DEF LockContend, Goto, LockLabels, TypeOK, LockersCurrent, Current,
         HasVersion
  <2>4. LockersAwaited'
    BY <2>a, <2>c, <1>4 DEF LockContend, Goto, LockLabels, TypeOK, LockersAwaited, Live,
         ContendedVer,
         UnlockableVer, Current, HasVersion
  <2>5. JoinersAwaited'
    BY <2>a, <2>c, <1>4 DEF LockContend, Goto, LockLabels, TypeOK, JoinersAwaited, Current,
         HasVersion
  <2> QED
    BY <2>1, <2>2, <2>3, <2>4, <2>5
<1>5. ASSUME NEW t \in Threads, LockFail(t) PROVE WaitInv'
  <2>c. Creators' = Creators
    BY <1>5 DEF LockFail, Goto, Return, TypeOK, Creators, CreateLabels, LockLabels
  <2>1. TravelInv'
    BY <2>c, <1>5 DEF LockFail, Return, Goto, LockLabels, TravelInv, Live, Travel, Dist
  <2>2. ExpectInv'
    BY <2>c, <1>5 DEF LockFail, Return, Goto, LockLabels, TypeOK, ExpectInv, Current,
         HasVersion, Dist
  <2>3. LockersCurrent'
    BY <2>c, <1>5 DEF LockFail, Return, Goto, LockLabels, TypeOK, LockersCurrent, Current,
         HasVersion
  <2>4. LockersAwaited'
    <3>1. Current(id[t]) => Live /\ butex = UnlockableVer
      BY <1>5, <1>l DEF LockFail, Current
    <3>2. /\ UNCHANGED <<firstVer, lockedVer, butex, stranded>> /\ pc' = [pc EXCEPT ![t] = "idle"]
          /\ pc[t] \in {"lock", "relock"} /\ \A u \in Threads \ {t} : id'[u] = id[u]
      BY <1>5 DEF LockFail, Return, Goto, LockLabels, TypeOK
    <3> QED
      BY <2>c, <3>1, <3>2 DEF TypeOK, LockersAwaited, Live, ContendedVer, UnlockableVer,
           Current, HasVersion
  <2>5. JoinersAwaited'
    BY <2>c, <1>5 DEF LockFail, Return, Goto, LockLabels, TypeOK, JoinersAwaited, Current,
         HasVersion
  <2> QED
    BY <2>1, <2>2, <2>3, <2>4, <2>5
<1>6. ASSUME NEW t \in Threads, LockWait(t) PROVE WaitInv'
  <2>c. Creators' = Creators
    BY <1>6 DEF LockWait, Goto, Return, TypeOK, Creators, CreateLabels
  <2>0. butex = expect[t] => Current(id[t])
    <3>1. CASE Live
      <4>1. butex \in firstVer..(lockedVer + 2)
        BY <2>c, <3>1, Words DEF VerInv, Live
      <4>2. Dist(butex) = Dist(firstVer) + (butex - firstVer)
        BY <3>1, <4>1, LiveRoom
      <4>3. Dist(firstVer) <= Dist(butex)
        BY <1>d, <4>1, <4>2, Numbers
      <4>4. Dist(butex) \in Nat
        BY Numbers, DistNat
      <4> QED
        BY <1>6, <1>d, <4>2, <4>3, <4>4 DEF LockWait, ExpectInv
    <3>2. CASE ~Live
      <4>1. Dist(firstVer) <= Dist(butex) /\ Dist(butex) \in Nat
        BY <1>d, <3>2, Numbers, DistNat DEF TravelInv, VerInv
      <4> QED
        BY <1>6, <1>d, <4>1 DEF LockWait, ExpectInv
    <3> QED
      BY <3>1, <3>2
  <2>1. TravelInv'
    BY <2>c, <1>6, <2>0 DEF LockWait, Goto, TravelInv, Live, Travel, Dist
  <2>2. ExpectInv'
    BY <2>c, <1>6, <2>0 DEF LockWait, Goto, TypeOK, ExpectInv, Current, HasVersion, Dist
  <2>3. LockersCurrent'
    <3>1. /\ UNCHANGED <<firstVer, lockedVer, id>> /\ pc[t] = "lockWait" /\ (stranded => stranded')
          /\ \A u \in Threads : Current(id[u])' <=> Current(id[u])
      BY <2>c, <1>6 DEF LockWait, Current, HasVersion
    <3>2. CASE butex = expect[t]
      <4>1. pc' = [pc EXCEPT ![t] = "lockBlocked"]
        BY <1>6, <3>2 DEF LockWait, Goto
      <4> QED
        BY <2>0, <3>1, <3>2, <4>1 DEF TypeOK, LockersCurrent
    <3>3. CASE butex # expect[t]
      <4>1. pc' = [pc EXCEPT ![t] = "relock"]
        BY <1>6, <3>3 DEF LockWait, Goto
      <4> QED
        BY <3>1, <4>1 DEF TypeOK, LockersCurrent
    <3> QED
      BY <3>2, <3>3
  <2>4. LockersAwaited'
    <3>1. CASE butex = expect[t]
      <4>1. expect[t] # ContendedVer => stranded'
        BY <1>6, <3>1, Zenon DEF LockWait
      <4>2. Live
        BY <1>l, <2>0, <3>1
      <4> QED
        BY <2>c, <1>6, <3>1, <4>1, <4>2 DEF LockWait, LockersAwaited, Live, ContendedVer
    <3>2. CASE butex # expect[t]
      <4>1. /\ UNCHANGED <<firstVer, lockedVer, butex, id>> /\ pc[t] = "lockWait"
            /\ pc' = [pc EXCEPT ![t] = "relock"] /\ (stranded => stranded')
        BY <1>6, <3>2 DEF LockWait, Goto
      <4>2. \A u \in Threads : /\ pc[u] \in {"wakeOne", "wakeLockers", "destroyWakeLockers"} =>
                                      pc'[u] = pc[u]
                               /\ pc[u] \in {"relock", "lockWait"} =>
                                      pc'[u] \in {"relock", "lockWait"}
                               /\ pc'[u] = "lockBlocked" => pc[u] = "lockBlocked"
                               /\ Current(id[u])' <=> Current(id[u])
        BY <2>c, <4>1 DEF TypeOK, Current, HasVersion
      <4>3. (Live' <=> Live) /\ ContendedVer' = ContendedVer /\ UnlockableVer' = UnlockableVer
        BY <2>c, <4>1 DEF Live, ContendedVer, UnlockableVer
      <4> QED
        BY <4>1, <4>2, <4>3 DEF LockersAwaited
    <3> QED
      BY <3>1, <3>2
  <2>5. JoinersAwaited'
    BY <2>c, <1>6, <2>0 DEF LockWait, Goto, TypeOK, JoinersAwaited, Current, HasVersion
  <2> QED
    BY <2>1, <2>2, <2>3, <2>4, <2>5
<1>7. ASSUME NEW t \in Threads, LockInterrupted(t) PROVE WaitInv'
  <2>c. Creators' = Creators
    BY <1>7 DEF LockInterrupted, Goto, Return, TypeOK, Creators, CreateLabels
  <2>1. TravelInv'
    BY <2>c, <1>7 DEF LockInterrupted, Goto, TravelInv, Live, Travel, Dist
  <2>2. ExpectInv'
    BY <2>c, <1>7 DEF LockInterrupted, Goto, TypeOK, ExpectInv, Current, HasVersion, Dist
  <2>3. LockersCurrent'
    BY <2>c, <1>7 DEF LockInterrupted, Goto, TypeOK, LockersCurrent, Current, HasVersion
  <2>4. LockersAwaited'
    BY <2>c, <1>7 DEF LockInterrupted, Goto, TypeOK, LockersAwaited, Live, ContendedVer,
         UnlockableVer, Current, HasVersion
  <2>5. JoinersAwaited'
    BY <2>c, <1>7 DEF LockInterrupted, Goto, TypeOK, JoinersAwaited, Current, HasVersion
  <2> QED
    BY <2>1, <2>2, <2>3, <2>4, <2>5
<1>8. ASSUME NEW t \in Threads, NEW v \in issued, TryLock(t, v) PROVE WaitInv'
  <2>a. Live /\ HasVersion(v) /\ Creators = {}
    BY <1>8, AddressedLive, Numbers DEF TryLock
  <2>c. Creators' = Creators
    BY <1>8, <2>a DEF TryLock, Goto, Return, TypeOK, Creators, CreateLabels
  <2>1. TravelInv'
    BY <2>a, <2>c, <1>8 DEF TryLock, Goto, TravelInv, Live, Travel, Dist
  <2>2. ExpectInv'
    BY <2>a, <2>c, <1>8 DEF TryLock, Goto, TypeOK, ExpectInv, Current, HasVersion, Dist
  <2>3. LockersCurrent'
    BY <2>a, <2>c, <1>8 DEF TryLock, Goto, TypeOK, LockersCurrent, Current, HasVersion
  <2>4. LockersAwaited'
    <3>1. butex = firstVer /\ butex \notin {ContendedVer, UnlockableVer}
      <4>1. Live
        BY <2>a, <1>8, AddressedLive, Numbers DEF TryLock
      <4> QED
        BY <2>a, <2>c, <1>8, <4>1, Words DEF TryLock, Live
    <3>2. /\ UNCHANGED <<firstVer, lockedVer, stranded>> /\ pc[t] = "idle"
          /\ pc' = [pc EXCEPT ![t] = "holding"] /\ id' = [id EXCEPT ![t] = v]
      BY <2>a, <1>8 DEF TryLock, Goto
    <3> QED
      BY <2>c, <3>1, <3>2 DEF TypeOK, LockersAwaited, Current, HasVersion
  <2>5. JoinersAwaited'
    BY <2>a, <2>c, <1>8 DEF TryLock, Goto, TypeOK, JoinersAwaited, Current, HasVersion
  <2> QED
    BY <2>1, <2>2, <2>3, <2>4, <2>5
<1>9. ASSUME NEW t \in Threads, NEW v \in issued, ErrorRun(t, v) PROVE WaitInv'
  <2>a. Live /\ HasVersion(v) /\ Creators = {}
    BY <1>9, AddressedLive, Numbers DEF ErrorRun
  <2>c. Creators' = Creators
    BY <1>9, <2>a DEF ErrorRun, Goto, Return, TypeOK, Creators, CreateLabels
  <2>1. TravelInv'
    BY <2>a, <2>c, <1>9 DEF ErrorRun, Goto, TravelInv, Live, Travel, Dist
  <2>2. ExpectInv'
    BY <2>a, <2>c, <1>9 DEF ErrorRun, Goto, TypeOK, ExpectInv, Current, HasVersion, Dist
  <2>3. LockersCurrent'
    BY <2>a, <2>c, <1>9 DEF ErrorRun, Goto, TypeOK, LockersCurrent, Current, HasVersion
  <2>4. LockersAwaited'
    <3>1. butex = firstVer /\ butex \notin {ContendedVer, UnlockableVer}
      <4>1. Live
        BY <2>a, <1>9, AddressedLive, Numbers DEF ErrorRun
      <4> QED
        BY <2>a, <2>c, <1>9, <4>1, Words DEF ErrorRun, Live
    <3>2. /\ UNCHANGED <<firstVer, lockedVer, stranded>> /\ pc[t] = "idle"
          /\ pc' = [pc EXCEPT ![t] = "holding"] /\ id' = [id EXCEPT ![t] = v]
      BY <2>a, <1>9 DEF ErrorRun, Goto
    <3> QED
      BY <2>c, <3>1, <3>2 DEF TypeOK, LockersAwaited, Current, HasVersion
  <2>5. JoinersAwaited'
    BY <2>a, <2>c, <1>9 DEF ErrorRun, Goto, TypeOK, JoinersAwaited, Current, HasVersion
  <2> QED
    BY <2>1, <2>2, <2>3, <2>4, <2>5
<1>10. ASSUME NEW t \in Threads, NEW v \in issued, ErrorPend(t, v) PROVE WaitInv'
  <2>a. Live /\ HasVersion(v) /\ Creators = {}
    BY <1>10, AddressedLive, Numbers DEF ErrorPend
  <2>c. Creators' = Creators
    BY <1>10, <2>a DEF ErrorPend, Goto, Return, TypeOK, Creators, CreateLabels
  <2>1. TravelInv'
    BY <2>a, <2>c, <1>10 DEF ErrorPend, TravelInv, Live, Travel, Dist
  <2>2. ExpectInv'
    BY <2>a, <2>c, <1>10 DEF ErrorPend, TypeOK, ExpectInv, Current, HasVersion, Dist
  <2>3. LockersCurrent'
    BY <2>a, <2>c, <1>10 DEF ErrorPend, TypeOK, LockersCurrent, Current, HasVersion
  <2>4. LockersAwaited'
    BY <2>a, <2>c, <1>10 DEF ErrorPend, TypeOK, LockersAwaited, Live, ContendedVer,
         UnlockableVer, Current, HasVersion
  <2>5. JoinersAwaited'
    BY <2>a, <2>c, <1>10 DEF ErrorPend, TypeOK, JoinersAwaited, Current, HasVersion
  <2> QED
    BY <2>1, <2>2, <2>3, <2>4, <2>5
<1>11. ASSUME NEW t \in Threads, UnlockToError(t) PROVE WaitInv'
  <2>a. Live /\ HasVersion(id[t]) /\ Creators = {}
    BY <1>11, AddressedLive, Numbers DEF UnlockToError
  <2>c. Creators' = Creators
    BY <1>11, <2>a DEF UnlockToError, Goto, Return, TypeOK, Creators, CreateLabels
  <2>1. TravelInv'
    BY <2>a, <2>c, <1>11 DEF UnlockToError, TravelInv, Live, Travel, Dist
  <2>2. ExpectInv'
    BY <2>a, <2>c, <1>11 DEF UnlockToError, TypeOK, ExpectInv, Current, HasVersion, Dist
  <2>3. LockersCurrent'
    BY <2>a, <2>c, <1>11 DEF UnlockToError, TypeOK, LockersCurrent, Current, HasVersion
  <2>4. LockersAwaited'
    BY <2>a, <2>c, <1>11 DEF UnlockToError, TypeOK, LockersAwaited, Live, ContendedVer,
         UnlockableVer,
         Current, HasVersion
  <2>5. JoinersAwaited'
    BY <2>a, <2>c, <1>11 DEF UnlockToError, TypeOK, JoinersAwaited, Current, HasVersion
  <2> QED
    BY <2>1, <2>2, <2>3, <2>4, <2>5
<1>12. ASSUME NEW t \in Threads, Unlock(t) PROVE WaitInv'
  <2>a. Live /\ HasVersion(id[t]) /\ Creators = {}
    BY <1>12, AddressedLive, Numbers DEF Unlock
  <2>c. Creators' = Creators
    BY <1>12, <2>a DEF Unlock, Goto, Return, TypeOK, Creators, CreateLabels
  <2>1. TravelInv'
    BY <2>a, <2>c, <1>12 DEF Unlock, Return, Goto, TravelInv, Live, Travel, Dist
  <2>2. ExpectInv'
    BY <2>a, <2>c, <1>12 DEF Unlock, Return, Goto, TypeOK, ExpectInv, Current, HasVersion, Dist
  <2>3. LockersCurrent'
    BY <2>a, <2>c, <1>12 DEF Unlock, Return, Goto, TypeOK, LockersCurrent, Current, HasVersion
  <2>4. LockersAwaited'
    <3>1. /\ pc[t] = "holding" /\ pc' \in {[pc EXCEPT ![t] = "wakeOne"], [pc EXCEPT ![t] = "idle"]}
          /\ UNCHANGED <<firstVer, lockedVer>> /\ (stranded => stranded')
          /\ \A u \in Threads \ {t} : id'[u] = id[u]
      BY <2>a, <1>12 DEF Unlock, Return, Goto, TypeOK
    <3>2. CASE butex = ContendedVer
      <4>1. pc'[t] = "wakeOne"
        BY <2>a, <1>12, <3>2 DEF Unlock, Goto, TypeOK
      <4> QED
        BY <4>1 DEF LockersAwaited
    <3>3. CASE butex # ContendedVer /\ butex = UnlockableVer
      <4>1. stranded' \/ ~\E u \in Threads : pc[u] = "lockBlocked"
        BY <2>a, <1>12, <3>3, Queued DEF Unlock
      <4> QED
        BY <3>1, <4>1 DEF LockersAwaited, TypeOK
    <3>4. CASE butex \notin {ContendedVer, UnlockableVer}
      <4>1. \A u \in Threads \ {t} : pc'[u] = pc[u] /\ (Current(id[u])' <=> Current(id[u]))
        BY <2>c, <3>1 DEF TypeOK, Current, HasVersion
      <4>2. pc[t] = "holding" /\ pc'[t] \in {"wakeOne", "idle"}
        BY <3>1 DEF TypeOK
      <4> QED
        BY <3>1, <3>4, <4>1, <4>2 DEF LockersAwaited
    <3> QED
      BY <3>2, <3>3, <3>4
  <2>5. JoinersAwaited'
    BY <2>a, <2>c, <1>12 DEF Unlock, Return, Goto, TypeOK, JoinersAwaited, Current, HasVersion
  <2> QED
    BY <2>1, <2>2, <2>3, <2>4, <2>5
<1>13. ASSUME NEW t \in Threads, WakeOne(t) PROVE WaitInv'
  <2>0. /\ pc[t] = "wakeOne" /\ pc'[t] = "idle"
        /\ \A u \in Threads \ {t} :
              IF lockQueue # << >> /\ u = Head(lockQueue)
              THEN pc[u] = "lockBlocked" /\ pc'[u] = "relock" ELSE pc'[u] = pc[u]
        /\ UNCHANGED <<firstVer, lockedVer, butex, stranded>>
           /\ \A u \in Threads \ {t} : id'[u] = id[u]
    <3>1. \A u \in Threads \ {t} : id'[u] = id[u]
      BY <1>13 DEF WakeOne, TypeOK
    <3> QED
      BY <1>13, <3>1, WakesOne DEF WakeOne
  <2>c. Creators' = Creators
    BY <1>13, <2>0 DEF WakeOne, Goto, Return, TypeOK, Creators, CreateLabels
  <2>1. TravelInv'
    BY <2>c, <1>13, <2>0 DEF WakeOne, TravelInv, Live, Travel, Dist
  <2>2. ExpectInv'
    <3>1. UNCHANGED <<firstVer, lockedVer, joinButex, expect, stranded>>
      BY <1>13 DEF WakeOne
    <3>2. \A u \in Threads : pc'[u] \in {"lockWait", "joinWait"} => pc'[u] = pc[u] /\ id'[u] = id[u]
      BY <2>0
    <3>3. \A u \in Threads : id'[u] = id[u] => (Current(id[u])' <=> Current(id[u]))
      BY <2>c, <3>1 DEF Current, HasVersion
    <3> QED
      BY <3>1, <3>2, <3>3 DEF ExpectInv
  <2>3. LockersCurrent'
    BY <2>c, <2>0 DEF LockersCurrent, Current, HasVersion
  <2>4. LockersAwaited'
    <3> SUFFICES ASSUME ~stranded, lockQueue # << >>
                 PROVE  \/ \E u \in Threads : pc'[u] \in {"wakeOne", "wakeLockers",
                           "destroyWakeLockers"}
                        \/ \E u \in Threads : pc'[u] \in {"relock", "lockWait"} /\ Current(id[u])'
      BY <2>0, Queued DEF LockersAwaited
    <3>1. PICK h \in Threads : h = Head(lockQueue) /\ pc[h] = "lockBlocked"
      BY Queued
    <3>2. h # t /\ pc'[h] = "relock" /\ id'[h] = id[h]
      BY <2>0, <3>1
    <3>3. CASE Current(id[h])
      BY <2>c, <2>0, <3>2, <3>3 DEF Current, HasVersion
    <3>4. CASE ~Current(id[h])
      <4>1. PICK u \in Threads : pc[u] = "destroyWakeLockers"
        BY <3>1, <3>4 DEF LockersCurrent
      <4> QED
        BY <2>0, <3>1, <4>1
    <3> QED
      BY <3>3, <3>4
  <2>5. JoinersAwaited'
    BY <2>c, <2>0 DEF JoinersAwaited, Current, HasVersion
  <2> QED
    BY <2>1, <2>2, <2>3, <2>4, <2>5
<1>14. ASSUME NEW t \in Threads, AboutToDestroy(t) PROVE WaitInv'
  <2>a. Live /\ HasVersion(id[t]) /\ Creators = {}
    BY <1>14, AddressedLive, Numbers DEF AboutToDestroy
  <2>c. Creators' = Creators
    BY <1>14, <2>a DEF AboutToDestroy, Goto, Return, TypeOK, Creators, CreateLabels
  <2>1. TravelInv'
    BY <2>a, <2>c, <1>14 DEF AboutToDestroy, Goto, TravelInv, Live, Travel, Dist
  <2>2. ExpectInv'
    BY <2>a, <2>c, <1>14 DEF AboutToDestroy, Goto, TypeOK, ExpectInv, Current, HasVersion, Dist
  <2>3. LockersCurrent'
    BY <2>a, <2>c, <1>14 DEF AboutToDestroy, Goto, TypeOK, LockersCurrent, Current, HasVersion
  <2>4. LockersAwaited'
    BY <2>a, <2>c, <1>14 DEF AboutToDestroy, Goto, TypeOK, LockersAwaited, Live, ContendedVer,
         UnlockableVer, Current, HasVersion
  <2>5. JoinersAwaited'
    BY <2>a, <2>c, <1>14 DEF AboutToDestroy, Goto, TypeOK, JoinersAwaited, Current, HasVersion
  <2> QED
    BY <2>1, <2>2, <2>3, <2>4, <2>5
<1>15. ASSUME NEW t \in Threads, WakeLockers(t) PROVE WaitInv'
  <2>0. /\ \/ pc[t] = "wakeLockers" /\ pc'[t] = "holding"
           \/ pc[t] = "destroyWakeLockers" /\ pc'[t] = "destroyWakeJoiners"
        /\ \A u \in Threads \ {t} : IF pc[u] = "lockBlocked" THEN pc'[u] = "relock"
                                     ELSE pc'[u] = pc[u]
        /\ UNCHANGED <<firstVer, lockedVer, id, stranded>>
    BY <1>15, WakesLockers, Queued DEF WakeLockers
  <2>c. Creators' = Creators
    BY <1>15, <2>0 DEF WakeLockers, Goto, Return, TypeOK, Creators, CreateLabels
  <2>1. TravelInv'
    BY <2>c, <1>15, <2>0 DEF WakeLockers, TravelInv, Live, Travel, Dist
  <2>2. ExpectInv'
    <3>1. UNCHANGED <<firstVer, lockedVer, joinButex, expect, stranded>>
      BY <1>15 DEF WakeLockers
    <3>2. \A u \in Threads : pc'[u] \in {"lockWait", "joinWait"} => pc'[u] = pc[u] /\ id'[u] = id[u]
      BY <2>0
    <3>3. \A u \in Threads : id'[u] = id[u] => (Current(id[u])' <=> Current(id[u]))
      BY <2>c, <3>1 DEF Current, HasVersion
    <3> QED
      BY <3>1, <3>2, <3>3 DEF ExpectInv
  <2>3. LockersCurrent'
    BY <2>0 DEF LockersCurrent
  <2>4. LockersAwaited'
    BY <2>0 DEF LockersAwaited
  <2>5. JoinersAwaited'
    BY <2>c, <2>0 DEF JoinersAwaited, Current, HasVersion
  <2> QED
    BY <2>1, <2>2, <2>3, <2>4, <2>5
<1>16. ASSUME NEW t \in Threads, UnlockAndDestroy(t) PROVE WaitInv'
  <2>a. Live /\ HasVersion(id[t]) /\ Creators = {}
    BY <1>16, AddressedLive, Numbers DEF UnlockAndDestroy
  <2>c. Creators' = Creators
    BY <1>16, <2>a DEF UnlockAndDestroy, Goto, Return, TypeOK, Creators, CreateLabels
  <2>0. /\ Live /\ firstVer' = EndVer /\ lockedVer' = EndVer /\ joinButex' = EndVer
        /\ joinButex = firstVer /\ UNCHANGED <<creates, expect, stranded>>
        /\ pc' = [pc EXCEPT ![t] = "destroyWakeLockers"]
        /\ Dist(EndVer) = Dist(firstVer) + (lockedVer + 3 - firstVer)
        /\ Dist(EndVer) <= Travel(creates, EndVer) /\ Dist(firstVer) < Dist(EndVer)
        /\ Dist(EndVer) \in Nat /\ ~Live'
        /\ \A x \in firstVer..(lockedVer + 1) : Dist(x) < Dist(EndVer)
    <3>1. Live
      BY <2>a, <1>16, <1>l DEF UnlockAndDestroy
    <3>2. /\ Dist(EndVer) = Dist(firstVer) + (lockedVer + 3 - firstVer)
          /\ Dist(EndVer) <= Travel(creates, EndVer)
          /\ \A x \in firstVer..(lockedVer + 2) : Dist(x) = Dist(firstVer) + (x - firstVer)
      BY <3>1, LiveRoom
    <3>3. EndVer \in 0..(VerMod - 1) /\ firstVer \in Nat /\ lockedVer \in Nat
      BY <3>1, Words
    <3>4. firstVer < lockedVer /\ Dist(firstVer) \in Nat /\ Dist(EndVer) \in Nat
      BY <2>c, <1>d, <3>1, <3>3, DistNat DEF Live
    <3>5. Dist(firstVer) < Dist(EndVer)
      BY <3>2, <3>3, <3>4
    <3>6. \A x \in firstVer..(lockedVer + 1) : Dist(x) < Dist(EndVer)
      BY <3>2, <3>3, <3>4
    <3>7. /\ firstVer' = EndVer /\ lockedVer' = EndVer /\ joinButex' = EndVer
          /\ UNCHANGED <<creates, expect, stranded>> /\ pc' = [pc EXCEPT ![t] = "destroyWakeLockers"]
      BY <2>a, <1>16 DEF UnlockAndDestroy, Goto
    <3>8. ~Live'
      BY <2>c, <3>3, <3>7 DEF Live
    <3>9. joinButex = firstVer
      BY <2>a, <3>1 DEF TravelInv
    <3> QED
      BY <3>1, <3>2, <3>4, <3>5, <3>6, <3>7, <3>8, <3>9, Zenon
  <2>1. TravelInv'
    BY <2>a, <2>c, <2>0 DEF TravelInv
  <2>2. ExpectInv'
    <3>1. \A u \in Threads : firstVer < expect[u] /\ expect[u] <= lockedVer + 1 =>
                                 Dist(expect[u]) < Dist(EndVer)
      BY <1>e, <2>0, Numbers
    <3>2. \A u \in Threads : Dist(expect[u]) < Dist(firstVer) => Dist(expect[u]) < Dist(EndVer)
      BY <1>d, <2>0
    <3> QED
      BY <2>0, <3>1, <3>2 DEF TypeOK, ExpectInv
  <2>3. LockersCurrent'
    BY <2>a, <2>c, <1>16, <2>0 DEF UnlockAndDestroy, Goto, TypeOK, LockersCurrent, Current,
         HasVersion
  <2>4. LockersAwaited'
    BY <2>a, <2>c, <1>16, <2>0 DEF UnlockAndDestroy, Goto, TypeOK, LockersAwaited, Live,
         ContendedVer,
         UnlockableVer, Current, HasVersion
  <2>5. JoinersAwaited'
    BY <2>a, <2>c, <1>16, <2>0 DEF UnlockAndDestroy, Goto, TypeOK, JoinersAwaited, Current,
         HasVersion
  <2> QED
    BY <2>1, <2>2, <2>3, <2>4, <2>5
<1>17. ASSUME NEW t \in Threads, DestroyWakeJoiners(t) PROVE WaitInv'
  <2>0. /\ pc[t] = "destroyWakeJoiners" /\ pc'[t] = "destroyReturn"
        /\ \A u \in Threads \ {t} : IF pc[u] = "joinBlocked" THEN pc'[u] = "join"
                                     ELSE pc'[u] = pc[u]
        /\ UNCHANGED <<firstVer, lockedVer, butex, id, stranded>>
    BY <1>17, WakesJoiners, Queued DEF DestroyWakeJoiners
  <2>c. Creators' = Creators
    BY <1>17, <2>0 DEF DestroyWakeJoiners, Goto, Return, TypeOK, Creators, CreateLabels
  <2>1. TravelInv'
    BY <2>c, <1>17, <2>0 DEF DestroyWakeJoiners, TravelInv, Live, Travel, Dist
  <2>2. ExpectInv'
    <3>1. UNCHANGED <<firstVer, lockedVer, joinButex, expect, stranded>>
      BY <1>17 DEF DestroyWakeJoiners
    <3>2. \A u \in Threads : pc'[u] \in {"lockWait", "joinWait"} => pc'[u] = pc[u] /\ id'[u] = id[u]
      BY <2>0
    <3>3. \A u \in Threads : id'[u] = id[u] => (Current(id[u])' <=> Current(id[u]))
      BY <2>c, <3>1 DEF Current, HasVersion
    <3> QED
      BY <3>1, <3>2, <3>3 DEF ExpectInv
  <2>3. LockersCurrent'
    BY <2>c, <2>0 DEF LockersCurrent, Current, HasVersion
  <2>4. LockersAwaited'
    BY <2>c, <2>0 DEF LockersAwaited, Live, ContendedVer, UnlockableVer, Current, HasVersion
  <2>5. JoinersAwaited'
    BY <2>0 DEF JoinersAwaited
  <2> QED
    BY <2>1, <2>2, <2>3, <2>4, <2>5
<1>18. ASSUME NEW t \in Threads, DestroyReturn(t) PROVE WaitInv'
  <2>c. Creators' = Creators
    BY <1>18 DEF DestroyReturn, Goto, Return, TypeOK, Creators, CreateLabels
  <2>1. TravelInv'
    BY <2>c, <1>18 DEF DestroyReturn, Return, Goto, TravelInv, Live, Travel, Dist
  <2>2. ExpectInv'
    BY <2>c, <1>18 DEF DestroyReturn, Return, Goto, TypeOK, ExpectInv, Current, HasVersion, Dist
  <2>3. LockersCurrent'
    BY <2>c, <1>18 DEF DestroyReturn, Return, Goto, TypeOK, LockersCurrent, Current, HasVersion
  <2>4. LockersAwaited'
    BY <2>c, <1>18 DEF DestroyReturn, Return, Goto, TypeOK, LockersAwaited, Live, ContendedVer,
         UnlockableVer, Current, HasVersion
  <2>5. JoinersAwaited'
    BY <2>c, <1>18 DEF DestroyReturn, Return, Goto, TypeOK, JoinersAwaited, Current, HasVersion
  <2> QED
    BY <2>1, <2>2, <2>3, <2>4, <2>5
<1>19. ASSUME NEW t \in Threads, NEW v \in issued, Cancel(t, v) PROVE WaitInv'
  <2>a. Live /\ HasVersion(v) /\ Creators = {}
    BY <1>19, AddressedLive, Numbers DEF Cancel
  <2>c. Creators' = Creators
    BY <1>19, <2>a DEF Cancel, Goto, Return, TypeOK, Creators, CreateLabels
  <2>0. /\ Live /\ firstVer' = EndVer /\ lockedVer' = EndVer
        /\ joinButex = firstVer /\ UNCHANGED <<joinButex, creates, pc, id, expect>>
        /\ stranded => stranded'
        /\ (\E u \in Threads : pc[u] = "lockBlocked") => stranded'
        /\ \A u \in Threads : pc[u] \in {"joinWait", "joinBlocked"} /\ HasVersion(id[u]) => stranded'
        /\ Dist(EndVer) = Dist(firstVer) + (lockedVer + 3 - firstVer)
        /\ Dist(EndVer) <= Travel(creates, EndVer) /\ Dist(firstVer) < Dist(EndVer)
        /\ Dist(EndVer) \in Nat /\ ~Live'
        /\ \A x \in firstVer..(lockedVer + 1) : Dist(x) < Dist(EndVer)
    <3>1. Live
      BY <2>a, <1>19, AddressedLive, Numbers DEF Cancel
    <3>2. /\ Dist(EndVer) = Dist(firstVer) + (lockedVer + 3 - firstVer)
          /\ Dist(EndVer) <= Travel(creates, EndVer)
          /\ \A x \in firstVer..(lockedVer + 2) : Dist(x) = Dist(firstVer) + (x - firstVer)
      BY <3>1, LiveRoom
    <3>3. EndVer \in 0..(VerMod - 1) /\ firstVer \in Nat /\ lockedVer \in Nat
      BY <3>1, Words
    <3>4. firstVer < lockedVer /\ Dist(firstVer) \in Nat /\ Dist(EndVer) \in Nat
      BY <2>c, <1>d, <3>1, <3>3, DistNat DEF Live
    <3>5. Dist(firstVer) < Dist(EndVer)
      BY <3>2, <3>3, <3>4
    <3>6. \A x \in firstVer..(lockedVer + 1) : Dist(x) < Dist(EndVer)
      BY <3>2, <3>3, <3>4
    <3>7. /\ firstVer' = EndVer /\ lockedVer' = EndVer
          /\ UNCHANGED <<joinButex, creates, pc, id, expect>> /\ (stranded => stranded')
          /\ (\E u \in Threads : pc[u] = "lockBlocked") => stranded'
          /\ \A u \in Threads : pc[u] \in {"joinWait", "joinBlocked"} /\ HasVersion(id[u]) =>
                 stranded'
      BY <2>a, <1>19, Queued DEF Cancel
    <3>8. ~Live'
      BY <2>c, <3>3, <3>7 DEF Live
    <3>9. joinButex = firstVer
      BY <2>a, <3>1 DEF TravelInv
    <3> QED
      BY <3>1, <3>2, <3>4, <3>5, <3>6, <3>7, <3>8, <3>9, Zenon
  <2>1. TravelInv'
    <3>1. Dist(joinButex) <= Dist(EndVer)
      BY <1>d, <2>0
    <3> QED
      BY <2>a, <2>c, <2>0, <3>1 DEF TravelInv
  <2>2. ExpectInv'
    <3>1. \A u \in Threads : firstVer < expect[u] /\ expect[u] <= lockedVer + 1 =>
                                 Dist(expect[u]) < Dist(EndVer)
      BY <1>e, <2>0, Numbers
    <3>2. \A u \in Threads : Dist(expect[u]) < Dist(firstVer) => Dist(expect[u]) < Dist(EndVer)
      BY <1>d, <2>0
    <3> QED
      BY <2>0, <3>1, <3>2 DEF TypeOK, ExpectInv, Current
  <2>3. LockersCurrent'
    BY <2>0 DEF LockersCurrent
  <2>4. LockersAwaited'
    BY <2>0 DEF LockersAwaited
  <2>5. JoinersAwaited'
    BY <2>a, <2>c, <1>19, <2>0 DEF Cancel, TypeOK, JoinersAwaited, Current, HasVersion
  <2> QED
    BY <2>1, <2>2, <2>3, <2>4, <2>5
<1>20. ASSUME NEW t \in Threads, NEW v \in issued, JoinCall(t, v) PROVE WaitInv'
  <2>c. Creators' = Creators
    BY <1>20 DEF JoinCall, Goto, Return, TypeOK, Creators, CreateLabels
  <2>1. TravelInv'
    BY <2>c, <1>20 DEF JoinCall, Goto, TravelInv, Live, Travel, Dist
  <2>2. ExpectInv'
    BY <2>c, <1>20 DEF JoinCall, Goto, TypeOK, ExpectInv, Current, HasVersion, Dist
  <2>3. LockersCurrent'
    BY <2>c, <1>20 DEF JoinCall, Goto, TypeOK, LockersCurrent, Current, HasVersion
  <2>4. LockersAwaited'
    BY <2>c, <1>20 DEF JoinCall, Goto, TypeOK, LockersAwaited, Live, ContendedVer, UnlockableVer,
         Current, HasVersion
  <2>5. JoinersAwaited'
    BY <2>c, <1>20 DEF JoinCall, Goto, TypeOK, JoinersAwaited, Current, HasVersion
  <2> QED
    BY <2>1, <2>2, <2>3, <2>4, <2>5
<1>21. ASSUME NEW t \in Threads, JoinCheck(t) PROVE WaitInv'
  <2>c. Creators' = Creators
    BY <1>21 DEF JoinCheck, Goto, Return, TypeOK, Creators, CreateLabels
  <2>1. TravelInv'
    BY <2>c, <1>21 DEF JoinCheck, Return, Goto, TravelInv, Live, Travel, Dist
  <2>2. ExpectInv'
    <3>1. UNCHANGED <<firstVer, lockedVer, joinButex, stranded>>
      BY <1>21 DEF JoinCheck
    <3>2. \A u \in Threads : id'[u] = id[u] => (Current(id[u])' <=> Current(id[u]))
      BY <2>c, <3>1 DEF Current, HasVersion
    <3>3. CASE HasVersion(id[t])
      <4>1. /\ Current(id[t]) /\ UNCHANGED id /\ pc' = [pc EXCEPT ![t] = "joinWait"]
            /\ expect' = [expect EXCEPT ![t] = joinButex]
        BY <1>21, <3>3, AddressedLive, Numbers DEF JoinCheck, Goto, Current
      <4> QED
        BY <3>1, <3>2, <4>1 DEF ExpectInv, TypeOK
    <3>4. CASE ~HasVersion(id[t])
      <4>1. /\ pc' = [pc EXCEPT ![t] = "idle"]
            /\ \A u \in Threads \ {t} : id'[u] = id[u] /\ expect'[u] = expect[u]
        BY <1>21, <3>4 DEF JoinCheck, Return, Goto, TypeOK
      <4> QED
        BY <3>1, <3>2, <4>1 DEF ExpectInv, TypeOK
    <3> QED
      BY <3>3, <3>4
  <2>3. LockersCurrent'
    BY <2>c, <1>21 DEF JoinCheck, Return, Goto, TypeOK, LockersCurrent, Current, HasVersion
  <2>4. LockersAwaited'
    BY <2>c, <1>21 DEF JoinCheck, Return, Goto, TypeOK, LockersAwaited, Live, ContendedVer,
         UnlockableVer, Current, HasVersion
  <2>5. JoinersAwaited'
    BY <2>c, <1>21 DEF JoinCheck, Return, Goto, TypeOK, JoinersAwaited, Current, HasVersion
  <2> QED
    BY <2>1, <2>2, <2>3, <2>4, <2>5
<1>22. ASSUME NEW t \in Threads, JoinWait(t) PROVE WaitInv'
  <2>c. Creators' = Creators
    BY <1>22 DEF JoinWait, Goto, Return, TypeOK, Creators, CreateLabels
  <2>1. TravelInv'
    BY <2>c, <1>22 DEF JoinWait, Goto, TravelInv, Live, Travel, Dist
  <2>2. ExpectInv'
    BY <2>c, <1>22 DEF JoinWait, Goto, TypeOK, ExpectInv, Current, HasVersion, Dist
  <2>3. LockersCurrent'
    BY <2>c, <1>22 DEF JoinWait, Goto, TypeOK, LockersCurrent, Current, HasVersion
  <2>4. LockersAwaited'
    BY <2>c, <1>22 DEF JoinWait, Goto, TypeOK, LockersAwaited, Live, ContendedVer, UnlockableVer,
         Current, HasVersion
  <2>5. JoinersAwaited'
    <3>1. joinButex = expect[t] => Current(id[t]) \/ stranded
      BY <1>22, <1>d DEF JoinWait, ExpectInv
    <3>2. /\ UNCHANGED <<firstVer, lockedVer, id, stranded>> /\ pc[t] = "joinWait"
          /\ \/ joinButex = expect[t] /\ pc' = [pc EXCEPT ![t] = "joinBlocked"]
             \/ pc' = [pc EXCEPT ![t] = "join"]
      BY <1>22 DEF JoinWait, Goto
    <3> QED
      BY <2>c, <3>1, <3>2 DEF TypeOK, JoinersAwaited, Current, HasVersion
  <2> QED
    BY <2>1, <2>2, <2>3, <2>4, <2>5
<1>23. ASSUME NEW t \in Threads, CreateJoin(t) PROVE WaitInv'
  <2>0. /\ Creators = {t} /\ ~Live /\ pc[t] = "createJoin"
        /\ joinButex' = butex /\ UNCHANGED <<firstVer, butex, creates, id, expect, stranded>>
        /\ pc' = [pc EXCEPT ![t] = "createFirst"]
        /\ \A u \in Threads : ~Current(id[u]) /\ pc[u] \notin DestroyLabels
    <3>1. Creators = {t} /\ ~Live /\ \A u \in Threads : pc[u] \notin DestroyLabels
      BY <1>23, CreatorAlone DEF CreateJoin, CreateLabels
    <3>2. \A u \in Threads : ~Current(id[u])
      BY <1>l, <3>1
    <3> QED
      BY <1>23, <3>1, <3>2 DEF CreateJoin, Goto, Return
  <2>b. Dist(butex) \in Nat
    BY Numbers, DistNat
  <2>c. Creators' # {} /\ ~Live'
    <3>1. t \in Creators'
      BY <2>0 DEF TypeOK, Creators, CreateLabels
    <3> QED
      BY <3>1 DEF Live
  <2>1. TravelInv'
    BY <2>0, <2>b, <2>c DEF TravelInv
  <2>2. ExpectInv'
    <3>1. Dist(joinButex) <= Dist(butex)
      BY <2>0 DEF TravelInv
    <3>2. \A u \in Threads : Dist(expect[u]) < Dist(joinButex) => Dist(expect[u]) < Dist(butex)
      BY <1>d, <2>b, <3>1
    <3> QED
      BY <2>0, <3>2 DEF ExpectInv, TypeOK
  <2>3. LockersCurrent'
    BY <2>0 DEF LockersCurrent, DestroyLabels, TypeOK
  <2>4. LockersAwaited'
    BY <2>0 DEF LockersAwaited, LockersCurrent, DestroyLabels, TypeOK
  <2>5. JoinersAwaited'
    BY <2>0 DEF JoinersAwaited, DestroyLabels, TypeOK
  <2> QED
    BY <2>1, <2>2, <2>3, <2>4, <2>5
<1>24. ASSUME NEW t \in Threads, CreateFirst(t) PROVE WaitInv'
  <2>0. /\ Creators = {t} /\ ~Live /\ pc[t] = "createFirst"
        /\ firstVer' = butex /\ UNCHANGED <<joinButex, butex, creates, id, expect, stranded>>
        /\ pc' = [pc EXCEPT ![t] = "createLocked"]
        /\ \A u \in Threads : ~Current(id[u]) /\ pc[u] \notin DestroyLabels
    <3>1. Creators = {t} /\ ~Live /\ \A u \in Threads : pc[u] \notin DestroyLabels
      BY <1>24, CreatorAlone DEF CreateFirst, CreateLabels
    <3>2. \A u \in Threads : ~Current(id[u])
      BY <1>l, <3>1
    <3> QED
      BY <1>24, <3>1, <3>2 DEF CreateFirst, Goto, Return
  <2>b. Dist(butex) \in Nat
    BY Numbers, DistNat
  <2>c. Creators' # {} /\ ~Live'
    <3>1. t \in Creators'
      BY <2>0 DEF TypeOK, Creators, CreateLabels
    <3> QED
      BY <3>1 DEF Live
  <2>1. TravelInv'
    BY <2>0, <2>b, <2>c DEF TravelInv
  <2>2. ExpectInv'
    <3>1. Dist(firstVer) <= Dist(butex)
      BY <2>0 DEF TravelInv
    <3>2. \A u \in Threads : Dist(expect[u]) < Dist(firstVer) => Dist(expect[u]) < Dist(butex)
      BY <1>d, <2>b, <3>1
    <3> QED
      BY <2>0, <3>2 DEF ExpectInv, TypeOK
  <2>3. LockersCurrent'
    BY <2>0 DEF LockersCurrent, DestroyLabels, TypeOK
  <2>4. LockersAwaited'
    BY <2>0 DEF LockersAwaited, LockersCurrent, DestroyLabels, TypeOK
  <2>5. JoinersAwaited'
    BY <2>0 DEF JoinersAwaited, DestroyLabels, TypeOK
  <2> QED
    BY <2>1, <2>2, <2>3, <2>4, <2>5
<1>25. ASSUME NEW t \in Threads, CreateLocked(t) PROVE WaitInv'
  <2>0. /\ Creators = {t} /\ ~Live /\ pc[t] = "createLocked"
        /\ UNCHANGED <<firstVer, joinButex, butex, creates, id, expect, stranded>>
        /\ pc' = [pc EXCEPT ![t] = "createId"]
        /\ \A u \in Threads : ~Current(id[u]) /\ pc[u] \notin DestroyLabels
    <3>1. Creators = {t} /\ ~Live /\ \A u \in Threads : pc[u] \notin DestroyLabels
      BY <1>25, CreatorAlone DEF CreateLocked, CreateLabels
    <3>2. \A u \in Threads : ~Current(id[u])
      BY <1>l, <3>1
    <3> QED
      BY <1>25, <3>1, <3>2 DEF CreateLocked, Goto, Return
  <2>b. Dist(butex) \in Nat
    BY Numbers, DistNat
  <2>c. Creators' # {} /\ ~Live'
    <3>1. t \in Creators'
      BY <2>0 DEF TypeOK, Creators, CreateLabels
    <3> QED
      BY <3>1 DEF Live
  <2>1. TravelInv'
    BY <2>0, <2>c DEF TravelInv
  <2>2. ExpectInv'
    BY <2>0 DEF ExpectInv, TypeOK
  <2>3. LockersCurrent'
    BY <2>0 DEF LockersCurrent, DestroyLabels, TypeOK
  <2>4. LockersAwaited'
    BY <2>0 DEF LockersAwaited, LockersCurrent, DestroyLabels, TypeOK
  <2>5. JoinersAwaited'
    BY <2>0 DEF JoinersAwaited, DestroyLabels, TypeOK
  <2> QED
    BY <2>1, <2>2, <2>3, <2>4, <2>5
<1>26. ASSUME NEW t \in Threads, CreateId(t) PROVE WaitInv'
  <2>0. /\ Creators = {t} /\ ~Live /\ pc[t] = "createId"
        /\ expect' = [expect EXCEPT ![t] = 0]
        /\ UNCHANGED <<firstVer, joinButex, butex, creates, stranded>>
        /\ pc' = [pc EXCEPT ![t] = "idle"]
        /\ \A u \in Threads : ~Current(id[u]) /\ pc[u] \notin DestroyLabels
    <3>1. Creators = {t} /\ ~Live /\ \A u \in Threads : pc[u] \notin DestroyLabels
      BY <1>26, CreatorAlone DEF CreateId, CreateLabels
    <3>2. \A u \in Threads : ~Current(id[u])
      BY <1>l, <3>1
    <3> QED
      BY <1>26, <3>1, <3>2 DEF CreateId, Goto, Return
  <2>b. Dist(butex) \in Nat
    BY Numbers, DistNat
  <2>c. firstVer = butex /\ joinButex = butex
    BY <2>0 DEF CreateInv
  <2>e. Creators' = {}
    BY <2>0 DEF TypeOK, Creators, CreateLabels
  <2>1. TravelInv'
    <3>1. Live'
      <4>1. Creators = {t} /\ lockedVer = butex + expect[t] /\ expect[t] \in 1..MaxRange
        BY <2>0 DEF CreateInv
      <4>2. firstVer' < lockedVer'
        BY <1>26, <2>0, <2>c, <4>1, Numbers DEF CreateId
      <4> QED
        BY <2>e, <4>2 DEF Live
    <3>2. creates > 0 /\ Dist(butex) <= Travel(creates - 1, butex) + 1
      BY <2>0 DEF TravelInv
    <3> QED
      BY <2>0, <2>b, <2>c, <2>e, <3>1, <3>2 DEF TravelInv
  <2>2. ExpectInv'
    <3>1. \A u \in Threads : pc'[u] \in {"lockWait", "joinWait"} =>
                                 pc'[u] = pc[u] /\ expect'[u] = expect[u]
      BY <2>0 DEF TypeOK
    <3> QED
      BY <2>0, <3>1 DEF ExpectInv
  <2>3. LockersCurrent'
    BY <2>0 DEF LockersCurrent, DestroyLabels, TypeOK
  <2>4. LockersAwaited'
    BY <2>0 DEF LockersAwaited, LockersCurrent, DestroyLabels, TypeOK
  <2>5. JoinersAwaited'
    BY <2>0 DEF JoinersAwaited, DestroyLabels, TypeOK
  <2> QED
    BY <2>1, <2>2, <2>3, <2>4, <2>5
<1>27. CASE UNCHANGED vars
  BY <1>27 DEF vars, TravelInv, Live, Travel, Dist, ExpectInv, LockersCurrent, LockersAwaited,
       ContendedVer, UnlockableVer, JoinersAwaited, Current, HasVersion, Creators
<1> QED
  BY <1>1, <1>2, <1>3, <1>4, <1>5, <1>6, <1>7, <1>8, <1>9, <1>10, <1>11, <1>12, <1>13, <1>14,
       <1>15, <1>16, <1>17, <1>18, <1>19, <1>20, <1>21, <1>22, <1>23, <1>24, <1>25, <1>26, <1>27
     DEF Next, Call, LockStep, JoinStep, WakeStep, Release, CreateStep

\* Nobody waits for what will not come, as long as the incarnations do not use up the
\* versions and no old identifier gets into the slot between the stores of a creation:
\* an error has a thread that delivers it, a queued locker one that wakes it, a joiner
\* one that destroys its session (fiber_session_lock, _unlock, _error, _join,
\* _unlock_and_destroy).
THEOREM NobodyCorrect == ASSUME NoLap PROVE Spec => []NobodyForgotten
<1> DEFINE Wait == ~intruded => WaitInv
<1>1. Init => Wait
  BY InitWait
<1>2. IInv /\ Wait /\ [Next]_vars => Wait'
  <2> SUFFICES ASSUME IInv, Wait, [Next]_vars, ~intruded' PROVE WaitInv'
    OBVIOUS
  <2>1. ~intruded
    BY IntrudedStays
  <2> QED
    BY <2>1, NextWait DEF IInv
<1>3. IInv /\ Wait => NobodyForgotten
  BY WaitImplies
<1> HIDE DEF Wait
<1> QED
  BY SpecInv, <1>1, <1>2, <1>3, PTL DEF Spec

-----------------------------------------------------------------------------
(* Without a restart at 1 there is no intruder. *)

\* The incarnations do not reach the end of the versions.
NoWrap == FirstVer + (MaxCreates + 1) * Step < VerMod

\* A slot that is not live has left all the identifiers given out behind, and moves at
\* most one Step with each incarnation.
FreshInv ==
    /\ \A v \in issued : IF Live THEN v < lockedVer ELSE v < firstVer
    /\ Live => creates > 0 /\ firstVer <= FirstVer + (creates - 1) * Step + 1
    /\ Creators # {} => /\ creates > 0 /\ butex <= FirstVer + (creates - 1) * Step + 1
                        /\ firstVer <= butex
    /\ ~Live /\ Creators = {} => firstVer <= FirstVer + creates * Step

\* NoLap is the weaker assumption.
LEMMA NoWrapNoLap == NoWrap => NoLap
<1> DEFINE m == (MaxCreates + 1) * Step
<1>1. m \in Nat
  BY Constants DEF Step
<1> HIDE DEF m
<1> SUFFICES ASSUME FirstVer + m < VerMod PROVE m < VerMod
  BY DEF NoWrap, NoLap, m
<1> QED
  BY <1>1, Constants

\* The products that NoWrap bounds.
LEMMA FreshSteps ==
  ASSUME NoWrap, TypeOK
  PROVE  \E b, m \in Nat :
            /\ creates * Step = b /\ FirstVer + m + Step < VerMod /\ b <= m
            /\ creates > 0 => (creates - 1) * Step = b - Step
            /\ creates < MaxCreates => b + Step <= m
<1>1. PICK b \in Nat, m \in Nat :
         /\ creates * Step = b /\ MaxCreates * Step = m /\ b <= m
         /\ creates > 0 => (creates - 1) * Step = b - Step
         /\ creates < MaxCreates => b + Step <= m
  BY NoWrapNoLap, Steps
<1>2. (MaxCreates + 1) * Step = m + Step
  BY <1>1, Constants DEF Step
<1>3. FirstVer + m + Step < VerMod
  <2>1. FirstVer + (m + Step) < VerMod
    BY <1>2 DEF NoWrap
  <2> QED
    BY <2>1, Constants DEF Step
<1> QED
  BY <1>1, <1>3

\* An old identifier does not get into the slot while it is created.
LEMMA NoIntrusion ==
  ASSUME Base, Core, FreshInv, ~intruded, [Next]_vars
  PROVE  ~intruded'
<1> SUFFICES ASSUME NEW v \in {0} \cup issued, HasVersion(v), NEW t \in Creators PROVE FALSE
  <2>1. \A u \in Threads : id[u] \in {0} \cup issued
    BY DEF Base, TypeOK
  <2>2. \A v \in {0} \cup issued : Addressed(v) => ~intruded'
    BY Zenon DEF Addressed
  <2> QED
    BY <2>1, <2>2, WhoIntrudes, Zenon
<1>1. /\ firstVer \in Nat /\ lockedVer \in Nat /\ v \in Nat
      /\ firstVer <= v /\ v < lockedVer
  BY Numbers, Constants DEF Base, HasVersion
<1>2. ~Live
  BY DEF Live
<1>3. v \notin issued
  BY <1>1, <1>2, Numbers DEF Base, FreshInv
<1>4. v = 0 /\ firstVer = 0 /\ firstVer # lockedVer
  BY <1>1, <1>3
<1>5. pc[t] \in CreateLabels
  BY DEF Creators
<1> QED
  BY <1>4, <1>5 DEF Core, CreateInv, CreateLabels

\* What leaves the versions alone.
LEMMA FreshKept ==
  ASSUME FreshInv, Creators' = Creators, UNCHANGED <<firstVer, lockedVer, issued, creates>>,
         Creators = {} \/ UNCHANGED butex
  PROVE  FreshInv'
BY DEF FreshInv, Live

\* The words of a session end where the next one may begin.
LEMMA FreshEnd ==
  ASSUME NoWrap, TypeOK, VerInv, FreshInv, Live
  PROVE  /\ EndVer = lockedVer + 3 /\ EndVer <= FirstVer + creates * Step
         /\ \A v \in issued : v < EndVer
<1>1. PICK b \in Nat, m \in Nat :
         /\ creates * Step = b /\ FirstVer + m + Step < VerMod /\ b <= m
         /\ (creates - 1) * Step = b - Step
  BY FreshSteps DEF FreshInv
<1>2. /\ firstVer \in Nat /\ lockedVer \in Nat /\ lockedVer <= firstVer + MaxRange
      /\ EndVer = IF lockedVer + 3 = VerMod THEN 0 ELSE lockedVer + 3
  BY Words DEF VerInv
<1>3. firstVer <= FirstVer + (b - Step) + 1
  BY <1>1 DEF FreshInv
<1>4. lockedVer + 3 <= FirstVer + b
  BY <1>2, <1>3, Constants DEF Step
<1>5. EndVer = lockedVer + 3
  BY <1>1, <1>2, <1>4, Constants DEF Step
<1>6. \A v \in issued : v \in Nat /\ v < lockedVer
  BY Numbers DEF FreshInv
<1> QED
  BY <1>1, <1>2, <1>4, <1>5, <1>6

\* Every step keeps the identifiers fresh.
LEMMA NextFresh ==
  ASSUME NoWrap, Base, Core, FreshInv, ~intruded', Core', [Next]_vars
  PROVE  FreshInv'
<1> USE Constants DEF Base, Core, slotVars, verVars, queues
<1>1. ASSUME NEW t \in Threads, NEW range \in 1..MaxRange, CreateBegin(t, range) PROVE FreshInv'
  <2>1. PICK b \in Nat, m \in Nat :
           creates * Step = b /\ FirstVer + m + Step < VerMod /\ b + Step <= m
    BY <1>1, FreshSteps DEF CreateBegin
  <2>2. ~Live /\ Creators = {} /\ firstVer = butex
    BY <1>1 DEF CreateBegin, TypeOK, VerInv, CreateInv
  <2>3. /\ butex' = StartVer /\ creates' = creates + 1 /\ creates \in Nat
        /\ UNCHANGED <<firstVer, issued>>
    BY <1>1 DEF CreateBegin, TypeOK
  <2>4. butex <= FirstVer + b /\ butex \in Nat
    BY <2>1, <2>2, Numbers DEF FreshInv
  <2>5. butex' \in Nat /\ butex <= butex' /\ butex' <= FirstVer + b + 1
    <3>1. butex + MaxRange + 2 < VerMod
      BY <2>1, <2>4 DEF Step
    <3> QED
      BY <2>1, <2>3, <2>4, <3>1, StartVerRoom, Numbers
  <2>6. t \in Creators' /\ ~Live'
    <3>1. t \in Creators'
      BY <1>1 DEF CreateBegin, Goto, TypeOK, Creators, CreateLabels
    <3> QED
      BY <3>1 DEF Live
  <2>7. creates' > 0 /\ (creates' - 1) * Step = b
    BY <2>1, <2>3
  <2> QED
    BY <2>2, <2>3, <2>5, <2>6, <2>7 DEF FreshInv
<1>3. ASSUME NEW t \in Threads, NEW r \in 0..MaxRange, LockAcquire(t, r) PROVE FreshInv'
  <2>a. Live /\ HasVersion(id[t]) /\ Creators = {}
    BY <1>3, AddressedLive, Numbers DEF LockAcquire
  <2>c. Creators' = {}
    BY <1>3, <2>a DEF LockAcquire, Goto, TypeOK, Creators, CreateLabels, LockLabels
  <2>0. PICK n \in Nat :
           /\ n = lockedVer' /\ lockedVer <= n /\ firstVer \in Nat /\ lockedVer \in Nat
           /\ firstVer' = firstVer
    BY <1>3, Acquired
  <2>1. firstVer < n /\ Live'
    BY <2>0, <2>a, <2>c DEF Live
  <2>2. issued' = issued \cup firstVer..(n - 1) /\ UNCHANGED creates
    BY <1>3, <2>0 DEF LockAcquire
  <2>3. \A v \in issued : v \in Nat /\ v < lockedVer
    BY <2>a, Numbers DEF FreshInv
  <2>4. \A v \in issued : v < n
    BY <2>0, <2>3
  <2>5. \A v \in issued' : v < n
    BY <2>2, <2>4
  <2> QED
    BY <2>0, <2>1, <2>2, <2>5, <2>a, <2>c DEF FreshInv
<1>2. ASSUME NEW t \in Threads, NEW v \in issued, LockCall(t, v) PROVE FreshInv'
  <2>c. Creators' = Creators
    BY <1>2 DEF LockCall, Goto, Return, TypeOK, Creators, CreateLabels
  <2> QED
    BY <1>2, <2>c, FreshKept DEF LockCall
<1>4. ASSUME NEW t \in Threads, LockContend(t) PROVE FreshInv'
  <2>a. Creators = {}
    BY <1>4, AddressedLive, Numbers DEF LockContend
  <2>c. Creators' = Creators
    BY <1>4, <2>a DEF LockContend, Goto, Return, TypeOK, Creators, CreateLabels, LockLabels
  <2> QED
    BY <1>4, <2>a, <2>c, FreshKept DEF LockContend
<1>5. ASSUME NEW t \in Threads, LockFail(t) PROVE FreshInv'
  <2>c. Creators' = Creators
    BY <1>5 DEF LockFail, Goto, Return, TypeOK, Creators, CreateLabels, LockLabels
  <2> QED
    BY <1>5, <2>c, FreshKept DEF LockFail
<1>6. ASSUME NEW t \in Threads, LockWait(t) PROVE FreshInv'
  <2>c. Creators' = Creators
    BY <1>6 DEF LockWait, Goto, Return, TypeOK, Creators, CreateLabels
  <2> QED
    BY <1>6, <2>c, FreshKept DEF LockWait
<1>7. ASSUME NEW t \in Threads, LockInterrupted(t) PROVE FreshInv'
  <2>c. Creators' = Creators
    BY <1>7 DEF LockInterrupted, Goto, Return, TypeOK, Creators, CreateLabels
  <2> QED
    BY <1>7, <2>c, FreshKept DEF LockInterrupted
<1>8. ASSUME NEW t \in Threads, NEW v \in issued, TryLock(t, v) PROVE FreshInv'
  <2>a. Creators = {}
    BY <1>8, AddressedLive, Numbers DEF TryLock
  <2>c. Creators' = Creators
    BY <1>8, <2>a DEF TryLock, Goto, Return, TypeOK, Creators, CreateLabels
  <2> QED
    BY <1>8, <2>a, <2>c, FreshKept DEF TryLock
<1>9. ASSUME NEW t \in Threads, NEW v \in issued, ErrorRun(t, v) PROVE FreshInv'
  <2>a. Creators = {}
    BY <1>9, AddressedLive, Numbers DEF ErrorRun
  <2>c. Creators' = Creators
    BY <1>9, <2>a DEF ErrorRun, Goto, Return, TypeOK, Creators, CreateLabels
  <2> QED
    BY <1>9, <2>a, <2>c, FreshKept DEF ErrorRun
<1>10. ASSUME NEW t \in Threads, NEW v \in issued, ErrorPend(t, v) PROVE FreshInv'
  <2>a. Creators = {}
    BY <1>10, AddressedLive, Numbers DEF ErrorPend
  <2>c. Creators' = Creators
    BY <1>10, <2>a DEF ErrorPend, Goto, Return, TypeOK, Creators, CreateLabels
  <2> QED
    BY <1>10, <2>a, <2>c, FreshKept DEF ErrorPend
<1>11. ASSUME NEW t \in Threads, UnlockToError(t) PROVE FreshInv'
  <2>a. Creators = {}
    BY <1>11, AddressedLive, Numbers DEF UnlockToError
  <2>c. Creators' = Creators
    BY <1>11, <2>a DEF UnlockToError, Goto, Return, TypeOK, Creators, CreateLabels
  <2> QED
    BY <1>11, <2>a, <2>c, FreshKept DEF UnlockToError
<1>12. ASSUME NEW t \in Threads, Unlock(t) PROVE FreshInv'
  <2>a. Creators = {}
    BY <1>12, AddressedLive, Numbers DEF Unlock
  <2>c. Creators' = Creators
    BY <1>12, <2>a DEF Unlock, Goto, Return, TypeOK, Creators, CreateLabels
  <2> QED
    BY <1>12, <2>a, <2>c, FreshKept DEF Unlock
<1>13. ASSUME NEW t \in Threads, WakeOne(t) PROVE FreshInv'
  <2>0. /\ pc[t] = "wakeOne" /\ pc'[t] = "idle" /\ pc' \in [Threads -> Labels]
        /\ \A u \in Threads \ {t} :
              IF lockQueue # << >> /\ u = Head(lockQueue)
              THEN pc[u] = "lockBlocked" /\ pc'[u] = "relock" ELSE pc'[u] = pc[u]
    BY <1>13, WakesOne
  <2>c. Creators' = Creators
    BY <1>13, <2>0 DEF WakeOne, Goto, Return, TypeOK, Creators, CreateLabels
  <2> QED
    BY <1>13, <2>c, FreshKept DEF WakeOne
<1>14. ASSUME NEW t \in Threads, AboutToDestroy(t) PROVE FreshInv'
  <2>a. Creators = {}
    BY <1>14, AddressedLive, Numbers DEF AboutToDestroy
  <2>c. Creators' = Creators
    BY <1>14, <2>a DEF AboutToDestroy, Goto, Return, TypeOK, Creators, CreateLabels
  <2> QED
    BY <1>14, <2>a, <2>c, FreshKept DEF AboutToDestroy
<1>15. ASSUME NEW t \in Threads, WakeLockers(t) PROVE FreshInv'
  <2>0. /\ \/ pc[t] = "wakeLockers" /\ pc'[t] = "holding"
           \/ pc[t] = "destroyWakeLockers" /\ pc'[t] = "destroyWakeJoiners"
        /\ pc' \in [Threads -> Labels]
        /\ \A u \in Threads \ {t} : IF u \in ToSet(lockQueue)
                                     THEN pc[u] = "lockBlocked" /\ pc'[u] = "relock"
                                     ELSE pc'[u] = pc[u]
    BY <1>15, WakesLockers
  <2>c. Creators' = Creators
    BY <1>15, <2>0 DEF WakeLockers, Goto, Return, TypeOK, Creators, CreateLabels
  <2> QED
    BY <1>15, <2>c, FreshKept DEF WakeLockers
<1>17. ASSUME NEW t \in Threads, DestroyWakeJoiners(t) PROVE FreshInv'
  <2>0. /\ pc[t] = "destroyWakeJoiners" /\ pc'[t] = "destroyReturn" /\ pc' \in [Threads -> Labels]
        /\ \A u \in Threads \ {t} : IF u \in ToSet(joinQueue)
                                     THEN pc[u] = "joinBlocked" /\ pc'[u] = "join"
                                     ELSE pc'[u] = pc[u]
    BY <1>17, WakesJoiners
  <2>c. Creators' = Creators
    BY <1>17, <2>0 DEF DestroyWakeJoiners, Goto, Return, TypeOK, Creators, CreateLabels
  <2> QED
    BY <1>17, <2>c, FreshKept DEF DestroyWakeJoiners
<1>18. ASSUME NEW t \in Threads, DestroyReturn(t) PROVE FreshInv'
  <2>c. Creators' = Creators
    BY <1>18 DEF DestroyReturn, Goto, Return, TypeOK, Creators, CreateLabels
  <2> QED
    BY <1>18, <2>c, FreshKept DEF DestroyReturn
<1>20. ASSUME NEW t \in Threads, NEW v \in issued, JoinCall(t, v) PROVE FreshInv'
  <2>c. Creators' = Creators
    BY <1>20 DEF JoinCall, Goto, Return, TypeOK, Creators, CreateLabels
  <2> QED
    BY <1>20, <2>c, FreshKept DEF JoinCall
<1>21. ASSUME NEW t \in Threads, JoinCheck(t) PROVE FreshInv'
  <2>c. Creators' = Creators
    BY <1>21 DEF JoinCheck, Goto, Return, TypeOK, Creators, CreateLabels
  <2> QED
    BY <1>21, <2>c, FreshKept DEF JoinCheck
<1>22. ASSUME NEW t \in Threads, JoinWait(t) PROVE FreshInv'
  <2>c. Creators' = Creators
    BY <1>22 DEF JoinWait, Goto, Return, TypeOK, Creators, CreateLabels
  <2> QED
    BY <1>22, <2>c, FreshKept DEF JoinWait
<1>16. ASSUME NEW t \in Threads, UnlockAndDestroy(t) PROVE FreshInv'
  <2>a. Live /\ Creators = {}
    BY <1>16, AddressedLive, Numbers DEF UnlockAndDestroy
  <2>c. Creators' = {}
    BY <1>16, <2>a DEF UnlockAndDestroy, Goto, TypeOK, Creators, CreateLabels
  <2>0. firstVer' = EndVer /\ lockedVer' = EndVer /\ UNCHANGED <<issued, creates>>
    BY <1>16 DEF UnlockAndDestroy
  <2>1. EndVer \in Nat /\ EndVer <= FirstVer + creates * Step /\ \A v \in issued : v < EndVer
    BY <2>a, FreshEnd, WordTypes
  <2>2. ~Live'
    BY <2>0, <2>1 DEF Live
  <2> QED
    BY <2>0, <2>1, <2>2, <2>c DEF FreshInv
<1>19. ASSUME NEW t \in Threads, NEW v \in issued, Cancel(t, v) PROVE FreshInv'
  <2>a. Live /\ Creators = {}
    BY <1>19, AddressedLive, Numbers DEF Cancel
  <2>c. Creators' = {}
    BY <1>19, <2>a DEF Cancel, Creators
  <2>0. firstVer' = EndVer /\ lockedVer' = EndVer /\ UNCHANGED <<issued, creates>>
    BY <1>19 DEF Cancel
  <2>1. EndVer \in Nat /\ EndVer <= FirstVer + creates * Step /\ \A w \in issued : w < EndVer
    BY <2>a, FreshEnd, WordTypes
  <2>2. ~Live'
    BY <2>0, <2>1 DEF Live
  <2> QED
    BY <2>0, <2>1, <2>2, <2>c DEF FreshInv
<1>23. ASSUME NEW t \in Threads, CreateJoin(t) PROVE FreshInv'
  <2>1. Creators' = Creators
    BY <1>23 DEF CreateJoin, Goto, TypeOK, Creators, CreateLabels
  <2> QED
    BY <1>23, <2>1, FreshKept DEF CreateJoin
<1>24. ASSUME NEW t \in Threads, CreateFirst(t) PROVE FreshInv'
  <2>1. /\ t \in Creators /\ t \in Creators' /\ firstVer' = butex
        /\ UNCHANGED <<butex, issued, creates>>
    BY <1>24 DEF CreateFirst, Goto, TypeOK, Creators, CreateLabels
  <2>2. ~Live /\ ~Live' /\ firstVer <= butex
    BY <2>1 DEF Live, FreshInv
  <2>3. \A v \in issued : v \in Nat /\ v < firstVer
    BY <2>2, Numbers DEF FreshInv
  <2>4. \A v \in issued : v < butex
    BY <2>2, <2>3, Numbers
  <2> QED
    BY <2>1, <2>2, <2>4, Numbers DEF FreshInv
<1>25. ASSUME NEW t \in Threads, CreateLocked(t) PROVE FreshInv'
  <2>1. /\ t \in Creators /\ t \in Creators'
        /\ UNCHANGED <<firstVer, butex, issued, creates>>
    BY <1>25 DEF CreateLocked, Goto, TypeOK, Creators, CreateLabels
  <2>2. ~Live /\ ~Live'
    BY <2>1 DEF Live
  <2> QED
    BY <2>1, <2>2 DEF FreshInv
<1>26. ASSUME NEW t \in Threads, CreateId(t) PROVE FreshInv'
  <2>1. /\ Creators = {t} /\ ~Live /\ butex \in Nat /\ expect[t] \in 1..MaxRange
        /\ \A i \in 0..(expect[t] - 1) : Ver(butex + i) = butex + i
    BY <1>26, CreatorAlone DEF CreateId, CreateLabels
  <2>2. firstVer = butex /\ lockedVer = butex + expect[t]
    BY <1>26, <2>1 DEF CreateInv, CreateId
  <2>3. /\ issued' = issued \cup {Ver(butex + i) : i \in 0..(expect[t] - 1)}
        /\ UNCHANGED <<firstVer, lockedVer, creates>>
    BY <1>26 DEF CreateId
  <2>4. Creators' = {}
    BY <1>26, <2>1 DEF CreateId, Return, Goto, TypeOK, Creators, CreateLabels
  <2>5. Live'
    BY <2>1, <2>2, <2>3, <2>4 DEF Live
  <2>6. \A v \in issued : v \in Nat /\ v < firstVer
    BY <2>1, Numbers DEF FreshInv
  <2>7. \A v \in issued : v < lockedVer
    BY <2>1, <2>2, <2>6
  <2>8. \A i \in 0..(expect[t] - 1) : Ver(butex + i) < lockedVer
    BY <2>1, <2>2
  <2>9. \A v \in issued' : v < lockedVer'
    BY <2>3, <2>7, <2>8
  <2>10. creates > 0 /\ butex <= FirstVer + (creates - 1) * Step + 1
    BY <2>1 DEF FreshInv
  <2> QED
    BY <2>2, <2>3, <2>4, <2>5, <2>9, <2>10 DEF FreshInv
<1>27. CASE UNCHANGED vars
  BY <1>27, FreshKept DEF vars, Creators
<1> QED
  BY <1>1, <1>2, <1>3, <1>4, <1>5, <1>6, <1>7, <1>8, <1>9, <1>10, <1>11, <1>12, <1>13, <1>14,
       <1>15, <1>16, <1>17, <1>18, <1>19, <1>20, <1>21, <1>22, <1>23, <1>24, <1>25, <1>26, <1>27
     DEF Next, Call, LockStep, JoinStep, WakeStep, Release, CreateStep

\* "No ABA" holds as long as the versions of the slot do not reach their end: no call
\* with an old identifier gets past has_version() while the slot is created anew, and
\* HeldRightly, VersionsOrdered and NobodyForgotten hold without exception
\* (id_create_impl, id_create_ranged_impl, Id::has_version).
THEOREM NoIntruderCorrect == ASSUME NoWrap PROVE Spec => []NoIntruder
<1>1. Init => NoIntruder /\ FreshInv
  <2> SUFFICES ASSUME Init PROVE NoIntruder /\ FreshInv
    OBVIOUS
  <2>1. Creators = {} /\ ~Live
    BY Constants DEF Init, Creators, CreateLabels, Live
  <2>2. 0 * Step = 0 /\ FirstVer <= FirstVer + 0
    BY Constants DEF Step
  <2> QED
    BY <2>1, <2>2 DEF Init, NoIntruder, FreshInv
<1>2. IInv /\ NoIntruder /\ FreshInv /\ [Next]_vars => NoIntruder' /\ FreshInv'
  <2> SUFFICES ASSUME IInv, NoIntruder, FreshInv, [Next]_vars PROVE NoIntruder' /\ FreshInv'
    OBVIOUS
  <2>1. ~intruded'
    BY NoIntrusion DEF IInv, NoIntruder
  <2>2. Core'
    BY <2>1, NextInv DEF IInv
  <2> QED
    BY <2>1, <2>2, NextFresh DEF IInv, NoIntruder
<1> QED
  BY SpecInv, <1>1, <1>2, PTL DEF Spec

=============================================================================
