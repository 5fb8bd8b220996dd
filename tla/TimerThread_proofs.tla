------------------------- MODULE TimerThread_proofs -------------------------
(***************************************************************************)
(* Safety of the timer thread, for any number of callers, buckets, structs *)
(* and tasks that the version word can tell apart.                         *)
(***************************************************************************)
EXTENDS TimerThread, FiniteSetTheorems, TLAPS

-----------------------------------------------------------------------------
(* Where a struct is, and what became of its tasks *)

PlaceInv ==
    /\ \A s \in Slots :
         /\ s \in free => s \notin pulled /\ s \notin heap /\ ~Being(s)
         /\ s \in pulled => s \notin heap /\ ~Being(s)
         /\ s \in heap => ~Being(s)
         /\ \A b \in Buckets : s \in tasks[b] => /\ s \notin free /\ s \notin pulled
                                                 /\ s \notin heap /\ ~Being(s)
                                                 /\ \A d \in Buckets : s \in tasks[d] => b = d
         /\ \/ s \in free \/ s \in pulled \/ s \in heap \/ Being(s)
            \/ \E b \in Buckets : s \in tasks[b]
    /\ tpc = "compare" => task1 \in heap
    /\ tpc \in {"run", "running"} => task1 \in Slots

\* How far a version is behind the first one of its struct, wrapping once.
Pos(v) == IF v >= FirstVer THEN v - FirstVer ELSE v - FirstVer + VerMod

\* The task of a struct in use is pending, running or removed, and its version says
\* which; all the tasks that the struct had before are done.
FateInv == \A s \in Slots :
    /\ \A id \in DOMAIN fate : id[1] = s /\ (s \in free \/ id # TaskId(s)) =>
                                   fate[id] \in {"ran", "removed"}
    /\ s \notin free =>
         /\ TaskId(s) \in DOMAIN fate
         /\ IF tpc = "running" /\ s = task1 THEN fate[TaskId(s)] = "running"
            ELSE \/ fate[TaskId(s)] = "pending"
                 \/ fate[TaskId(s)] = "removed" /\ version[s] = Ver(taskVer[s] + 2)

VerInv == \A id \in DOMAIN fate :
    LET v == version[id[1]] IN
    /\ fate[id] = "pending" => v = id[2]
    /\ fate[id] = "running" => Pos(v) = Pos(id[2]) + 1
    /\ fate[id] \in {"ran", "removed"} => Pos(v) >= Pos(id[2]) + 2

\* How much the version is still to move for the present task of a struct.
Owed(s) == IF s \in free THEN 0
           ELSE CASE fate[TaskId(s)] = "pending" -> 2
                  [] fate[TaskId(s)] = "running" -> 1
                  [] OTHER -> 0

\* A version moves by two for each task, and by two more when it passes 0: so it does
\* not come back to one that was used.
RoomInv == \A s \in Slots :
    Pos(version[s]) + Owed(s) <= 2 * Cardinality(DOMAIN fate)
                                 + (IF Pos(version[s]) > Pos(0) THEN 2 ELSE 0)

Inserting == {c \in Threads : pc[c] = "insert"}
CountInv == /\ IsFiniteSet(DOMAIN fate) /\ IsFiniteSet(Inserting)
            /\ Cardinality(DOMAIN fate) + Cardinality(Inserting) <= MaxSchedules

DueInv == tpc \in {"compare", "run"} => now >= runTime[task1]

IInv == TypeOK /\ PlaceInv /\ FateInv /\ VerInv /\ RoomInv /\ CountInv /\ DueInv

-----------------------------------------------------------------------------
(* What the timer thread knows of the buckets *)

\* Somebody announces a task that is in the bucket still.
Linking(b) == \E c \in Threads : /\ pc[c] = "global" /\ call[c].bucket = b
                                 /\ call[c].time = bucketNearest[b]
                                 /\ \E s \in tasks[b] : TaskId(s) = call[c].id

BucketInv == \A b \in Buckets :
    /\ \A s \in tasks[b] : bucketNearest[b] <= runTime[s]
    /\ tasks[b] = {} => bucketNearest[b] = Never
    /\ tasks[b] # {} => published[b] \/ Linking(b)
    /\ tasks[b] # {} => nearest <= bucketNearest[b] \/ Announcing(b) \/ ToPull(b)

\* The timeout is that of the earliest task known, or the futex word has changed and its
\* wake-up is on the way.
WaitInv ==
    /\ tpc \in {"wait", "asleep"} => /\ expected <= nsignals
                                     /\ nsignals = expected => nearest = wakeTime
                                     /\ \A s \in heap : wakeTime <= runTime[s]
    /\ tpc = "asleep" /\ nsignals # expected => \/ stopper = "wake"
                                                \/ \E c \in Threads : pc[c] = "wake"

StopInv ==
    /\ stopper # "idle" => stop
    /\ stopper = "lockInTask" => tpc = "running"
    /\ stopper = "done" => \/ tpc = "ended"
                           \/ nearest = 0 /\ tpc \in {"loop", "pull", "compare", "run", "running"}

SleepInv == BucketInv /\ WaitInv /\ StopInv

-----------------------------------------------------------------------------
(* Versions *)

\* What the steps below use of the constants.
LEMMA Constants ==
  /\ VerMod \in Nat /\ VerMod > 4 /\ FirstVer \in 0..(VerMod - 1)
  /\ MaxSchedules \in Nat /\ 2 * MaxSchedules + 4 < VerMod
  /\ NumBuckets \in Nat /\ NumBuckets > 0
  /\ MaxTime \in Nat /\ RunTimes \subseteq 0..MaxTime
  /\ None \notin Slots /\ Callback \notin Callers
BY VersionAssumption, BoundAssumption, BucketAssumption, TimeAssumption, ThreadAssumption

\* A version is its remainder, and wraps once.
LEMMA VerSmall ==
  ASSUME NEW n \in 0..(VerMod - 1)
  PROVE  Ver(n) = n
BY Constants DEF Ver

\* A version past the maximum.
LEMMA VerWrap ==
  ASSUME NEW n \in VerMod..(2 * VerMod - 1)
  PROVE  Ver(n) = n - VerMod
<1> DEFINE q == n \div VerMod
           r == n % VerMod
<1>1. VerMod > 0 /\ n = VerMod * q + r /\ q \in Int /\ r \in 0..(VerMod - 1)
  BY Constants
<1> HIDE DEF q, r
<1>2. q > 0
  <2>1. q <= 0 => VerMod * q <= 0
    BY Constants, <1>1
  <2> QED
    BY Constants, <1>1, <2>1
<1>3. q < 2
  <2>1. q >= 2 => VerMod * q >= 2 * VerMod
    BY Constants, <1>1
  <2> QED
    BY Constants, <1>1, <2>1
<1>4. VerMod * q = VerMod
  BY <1>1, <1>2, <1>3, Constants
<1> QED
  BY <1>1, <1>4, Constants DEF Ver, r

\* A position is a number below VerMod and belongs to one version.
LEMMA PosType ==
  ASSUME NEW v \in 0..(VerMod - 1), NEW w \in 0..(VerMod - 1)
  PROVE  Pos(v) \in 0..(VerMod - 1) /\ (Pos(v) = Pos(w) <=> v = w)
BY Constants DEF Pos

\* The operations on a version move its position forward.
LEMMA PosAdd ==
  ASSUME NEW v \in 0..(VerMod - 1), NEW k \in 1..2, Pos(v) + k < VerMod
  PROVE  Ver(v + k) \in 0..(VerMod - 1) /\ Pos(Ver(v + k)) = Pos(v) + k
<1>1. CASE v + k < VerMod
  <2>1. Ver(v + k) = v + k
    BY <1>1, VerSmall, Constants
  <2> QED
    BY <1>1, <2>1, Constants DEF Pos
<1>2. CASE v + k >= VerMod
  <2>1. Ver(v + k) = v + k - VerMod
    BY <1>2, VerWrap, Constants
  <2> QED
    BY <1>2, <2>1, Constants DEF Pos
<1> QED
  BY <1>1, <1>2, Constants

-----------------------------------------------------------------------------
\* A struct has room for what its task still adds to its version.
LEMMA Room ==
  ASSUME IInv, NEW s \in Slots
  PROVE  /\ version[s] \in 0..(VerMod - 1) /\ taskVer[s] \in 0..(VerMod - 1)
         /\ Pos(version[s]) \in 0..(VerMod - 1)
         /\ Owed(s) \in 0..2
         /\ Pos(version[s]) + Owed(s) + 2 < VerMod
         /\ Cardinality(DOMAIN fate) \in Nat /\ Cardinality(Inserting) \in Nat
         /\ Inserting # {} => Pos(version[s]) + Owed(s) + 4 < VerMod
<1>1. version[s] \in 0..(VerMod - 1) /\ taskVer[s] \in 0..(VerMod - 1)
  BY DEF IInv, TypeOK
<1>2. Pos(version[s]) \in 0..(VerMod - 1)
  BY <1>1, PosType
<1>3. Owed(s) \in 0..2
  BY DEF Owed
<1>4. /\ Cardinality(DOMAIN fate) \in Nat /\ Cardinality(Inserting) \in Nat
      /\ Cardinality(DOMAIN fate) + Cardinality(Inserting) <= MaxSchedules
      /\ Inserting # {} => Cardinality(Inserting) # 0
  BY FS_CardinalityType, FS_EmptySet DEF IInv, CountInv
<1>5. Pos(version[s]) + Owed(s) <= 2 * Cardinality(DOMAIN fate) + 2
  BY <1>2, <1>3, <1>4 DEF IInv, RoomInv
<1> QED
  BY <1>1, <1>2, <1>3, <1>4, <1>5, Constants

\* What unschedule() returns, from the version.
LEMMA Results ==
  ASSUME IInv, NEW id \in DOMAIN fate
  PROVE  /\ id[1] \in Slots /\ id[2] \in 0..(VerMod - 1) /\ id = <<id[1], id[2]>>
         /\ UnscheduleResult(id) = 0 <=> fate[id] = "pending"
         /\ UnscheduleResult(id) = 1 <=> fate[id] = "running"
         /\ UnscheduleResult(id) = -1 <=> fate[id] \in {"ran", "removed"}
<1> DEFINE s == id[1]
           v == version[id[1]]
<1>1. id \in Slots \X (1..(VerMod - 1))
  BY DEF IInv, TypeOK, TaskIds
<1>2. id[1] \in Slots /\ id[2] \in 0..(VerMod - 1) /\ id = <<id[1], id[2]>>
  BY <1>1, Constants
<1>3. /\ v \in 0..(VerMod - 1) /\ Pos(v) \in 0..(VerMod - 1) /\ Pos(v) + 2 < VerMod
  BY <1>2, Room, Constants
<1>4. Pos(id[2]) \in 0..(VerMod - 1) /\ (Pos(v) = Pos(id[2]) <=> v = id[2])
  BY <1>2, <1>3, PosType
<1>5. v = Ver(id[2] + 1) => v # id[2]
  <2>1. CASE id[2] + 1 < VerMod
    BY <1>2, <2>1, VerSmall, Constants
  <2>2. CASE id[2] + 1 = VerMod
    BY <1>2, <2>2, VerWrap, Constants
  <2> QED
    BY <1>2, <2>1, <2>2, Constants
<1>6. Pos(id[2]) + 1 < VerMod => (v = Ver(id[2] + 1) <=> Pos(v) = Pos(id[2]) + 1)
  <2> SUFFICES ASSUME Pos(id[2]) + 1 < VerMod
               PROVE  v = Ver(id[2] + 1) <=> Pos(v) = Pos(id[2]) + 1
    OBVIOUS
  <2>1. Ver(id[2] + 1) \in 0..(VerMod - 1) /\ Pos(Ver(id[2] + 1)) = Pos(id[2]) + 1
    BY <1>2, PosAdd
  <2> QED
    BY <1>3, <2>1, PosType
<1>7. /\ fate[id] \in {"pending", "running", "ran", "removed"}
      /\ fate[id] = "pending" => v = id[2]
      /\ fate[id] = "running" => Pos(v) = Pos(id[2]) + 1
      /\ fate[id] \in {"ran", "removed"} => Pos(v) >= Pos(id[2]) + 2
  BY DEF IInv, TypeOK, VerInv
<1>8. /\ fate[id] = "pending" => UnscheduleResult(id) = 0
      /\ fate[id] = "running" => UnscheduleResult(id) = 1
      /\ fate[id] \in {"ran", "removed"} => UnscheduleResult(id) = -1
  <2>1. fate[id] = "pending" => v = id[2] /\ v # Ver(id[2] + 1)
    BY <1>5, <1>7
  <2>2. fate[id] = "running" => v # id[2] /\ v = Ver(id[2] + 1)
    BY <1>3, <1>4, <1>6, <1>7, Constants
  <2>3. fate[id] \in {"ran", "removed"} => v # id[2] /\ v # Ver(id[2] + 1)
    BY <1>3, <1>4, <1>6, <1>7, Constants
  <2> HIDE DEF v
  <2>4. UnscheduleResult(id) = CASE v = id[2] -> 0 [] v = Ver(id[2] + 1) -> 1 [] OTHER -> -1
    BY DEF UnscheduleResult, v
  <2> QED
    BY <2>1, <2>2, <2>3, <2>4
<1> QED
  BY <1>2, <1>7, <1>8

\* Only the present task of a struct in use is not done yet.
LEMMA Present ==
  ASSUME IInv, NEW id \in DOMAIN fate, fate[id] \in {"pending", "running"}
  PROVE  id[1] \in Slots /\ id[1] \notin free /\ id = TaskId(id[1]) /\ id[2] = taskVer[id[1]]
<1>1. id[1] \in Slots /\ id = <<id[1], id[2]>>
  BY Results
<1>2. id[1] \notin free /\ id = TaskId(id[1])
  BY <1>1 DEF IInv, FateInv
<1> QED
  BY <1>1, <1>2 DEF TaskId

-----------------------------------------------------------------------------
(* The invariant IInv *)

\* The invariant holds in the beginning.
LEMMA InitInv == Init => IInv
<1> SUFFICES ASSUME Init PROVE IInv
  OBVIOUS
<1> USE Constants DEF Init
<1>0. DOMAIN fate = {} /\ Inserting = {}
  BY DEF Inserting
<1>1. TypeOK
  <2>1. /\ version \in [Slots -> 0..(VerMod - 1)] /\ taskVer \in [Slots -> 0..(VerMod - 1)]
        /\ runTime \in [Slots -> 0..MaxTime]
    OBVIOUS
  <2>2. /\ tasks \in [Buckets -> SUBSET Slots] /\ bucketNearest \in [Buckets -> Times]
        /\ published \in [Buckets -> BOOLEAN] /\ Never \in Times
    BY DEF Times, Never
  <2>3. /\ pc \in [Threads -> {"idle", "insert", "global", "wake"}] /\ DOMAIN call = Threads
        /\ \A c \in Threads : pc[c] = "idle" /\ call[c] = None
    OBVIOUS
  <2>4. /\ DOMAIN fate \subseteq TaskIds
        /\ \A id \in DOMAIN fate : fate[id] \in {"pending", "running", "ran", "removed"}
    BY <1>0
  <2>5. /\ mustSee \subseteq Buckets /\ index \in 0..NumBuckets /\ now \in 0..MaxTime
        /\ free \subseteq Slots /\ pulled \subseteq Slots /\ heap \subseteq Slots
    OBVIOUS
  <2> QED
    BY <2>1, <2>2, <2>3, <2>4, <2>5 DEF TypeOK
<1>2. PlaceInv
  BY DEF PlaceInv, Being
<1>3. FateInv /\ VerInv
  BY <1>0 DEF FateInv, VerInv
<1>4. RoomInv
  <2>1. Cardinality(DOMAIN fate) = 0
    BY <1>0, FS_EmptySet
  <2> QED
    BY <2>1 DEF RoomInv, Owed, Pos
<1>5. CountInv
  BY <1>0, FS_EmptySet DEF CountInv
<1>6. DueInv
  BY DEF DueInv
<1> QED
  BY <1>1, <1>2, <1>3, <1>4, <1>5, <1>6 DEF IInv

\* Steps that leave the structs where they are, and their versions alone.
LEMMA Frame ==
  ASSUME IInv, UNCHANGED <<versions, pulled, heap, tasks>>,
         tpc' = "run" <=> tpc = "run", tpc' = "running" <=> tpc = "running",
         tpc \in {"run", "running"} => task1' = task1,
         tpc' = "compare" => task1' \in heap
  PROVE  PlaceInv' /\ FateInv' /\ VerInv' /\ RoomInv'
<1> USE DEF IInv, versions
<1>1. PlaceInv'
  <2>1. \A s \in Slots : Being(s)' <=> Being(s)
    BY DEF Being
  <2> QED
    BY <2>1 DEF PlaceInv
<1>2. \A s \in Slots : TaskId(s)' = TaskId(s)
  BY DEF TaskId
<1>3. FateInv'
  BY <1>2 DEF FateInv
<1>4. VerInv'
  BY DEF VerInv
<1>5. RoomInv'
  <2>1. \A s \in Slots : Owed(s)' = Owed(s)
    BY <1>2 DEF Owed
  <2> QED
    BY <2>1 DEF RoomInv
<1> QED
  BY <1>1, <1>3, <1>4, <1>5

\* Nobody enters schedule().
LEMMA CountFrame ==
  ASSUME IInv, UNCHANGED fate, Inserting' \subseteq Inserting
  PROVE  CountInv'
<1>1. /\ IsFiniteSet(Inserting') /\ Cardinality(Inserting') <= Cardinality(Inserting)
  BY FS_Subset DEF IInv, CountInv
<1>2. /\ Cardinality(Inserting') \in Nat /\ Cardinality(Inserting) \in Nat
      /\ Cardinality(DOMAIN fate) \in Nat
  BY <1>1, FS_CardinalityType DEF IInv, CountInv
<1> QED
  BY <1>1, <1>2, Constants DEF IInv, CountInv

\* The steps that move the version of a struct on with the fate of its task.
LEMMA Move ==
  ASSUME IInv, NEW s \in Slots, s \notin free, NEW v \in 0..(VerMod - 1), NEW f,
         \/ fate[TaskId(s)] = "pending" /\ f = "running" /\ Pos(v) = Pos(version[s]) + 1
         \/ fate[TaskId(s)] = "pending" /\ f = "removed" /\ Pos(v) = Pos(version[s]) + 2
         \/ fate[TaskId(s)] = "running" /\ f = "ran" /\ Pos(v) = Pos(version[s]) + 1,
         version' = [version EXCEPT ![s] = v], fate' = [fate EXCEPT ![TaskId(s)] = f],
         taskVer' = taskVer, free' = free \/ (free' = free \cup {s} /\ f # "running")
  PROVE  /\ VerInv' /\ RoomInv' /\ DOMAIN fate' = DOMAIN fate
         /\ TaskId(s) \in DOMAIN fate
         /\ \A r \in Slots : TaskId(r)' = TaskId(r) /\ (TaskId(r) = TaskId(s) => r = s)
         /\ \A id \in DOMAIN fate : fate'[id] = IF id = TaskId(s) THEN f ELSE fate[id]
         /\ \A r \in Slots : version'[r] = IF r = s THEN v ELSE version[r]
<1>1. /\ TaskId(s) \in DOMAIN fate /\ DOMAIN fate' = DOMAIN fate
      /\ \A r \in Slots : TaskId(r)' = TaskId(r) /\ (TaskId(r) = TaskId(s) => r = s)
  BY DEF IInv, FateInv, TaskId
<1>2. \A id \in DOMAIN fate : fate'[id] = IF id = TaskId(s) THEN f ELSE fate[id]
  BY <1>1
<1>3. \A r \in Slots : version'[r] = IF r = s THEN v ELSE version[r]
  BY DEF IInv, TypeOK
<1>4. /\ version[s] \in 0..(VerMod - 1) /\ taskVer[s] \in 0..(VerMod - 1)
      /\ Pos(version[s]) \in Nat /\ Pos(v) \in Nat
  BY Room, PosType
<1>5. VerInv'
  <2> SUFFICES ASSUME NEW id \in DOMAIN fate
               PROVE  /\ fate'[id] = "pending" => version'[id[1]] = id[2]
                      /\ fate'[id] = "running" => Pos(version'[id[1]]) = Pos(id[2]) + 1
                      /\ fate'[id] \in {"ran", "removed"} =>
                             Pos(version'[id[1]]) >= Pos(id[2]) + 2
    BY <1>1 DEF VerInv, Pos
  <2>0. id[1] \in Slots /\ id[2] \in 0..(VerMod - 1) /\ Pos(id[2]) \in Nat
    BY Results, PosType
  <2>1. CASE id = TaskId(s)
    <3>1. id[1] = s /\ id[2] = taskVer[s] /\ fate'[id] = f /\ version'[s] = v
      BY <2>1, <1>2, <1>3 DEF TaskId
    <3>2. /\ fate[id] = "pending" => version[s] = id[2]
          /\ fate[id] = "running" => Pos(version[s]) = Pos(id[2]) + 1
      BY <3>1 DEF IInv, VerInv
    <3> QED
      BY <2>0, <2>1, <3>1, <3>2, <1>4
  <2>2. CASE id # TaskId(s) /\ id[1] = s
    <3>1. fate'[id] = fate[id] /\ fate[id] \in {"ran", "removed"} /\ version'[id[1]] = v
      BY <2>2, <1>2, <1>3 DEF IInv, FateInv
    <3>2. Pos(version[s]) >= Pos(id[2]) + 2
      BY <2>2, <3>1 DEF IInv, VerInv
    <3> QED
      BY <2>0, <3>1, <3>2, <1>4
  <2>3. CASE id[1] # s
    <3>1. fate'[id] = fate[id] /\ version'[id[1]] = version[id[1]]
      BY <2>0, <2>3, <1>2, <1>3 DEF TaskId
    <3> QED
      BY <3>1 DEF IInv, VerInv
  <2> QED
    BY <2>1, <2>2, <2>3
<1>6. RoomInv'
  <2> SUFFICES ASSUME NEW r \in Slots
               PROVE  Pos(version'[r]) + Owed(r)' <=
                        2 * Cardinality(DOMAIN fate)
                        + (IF Pos(version'[r]) > Pos(0) THEN 2 ELSE 0)
    BY <1>1 DEF RoomInv, Pos
  <2>1. /\ Pos(version[r]) \in Nat /\ Owed(r) \in 0..2 /\ Cardinality(DOMAIN fate) \in Nat
        /\ Pos(0) \in Nat
    BY Room, PosType, Constants
  <2>2. Pos(version[r]) + Owed(r) <= 2 * Cardinality(DOMAIN fate)
                                     + (IF Pos(version[r]) > Pos(0) THEN 2 ELSE 0)
    BY DEF IInv, RoomInv
  <2>3. Owed(r)' = IF r \in free' THEN 0
                   ELSE CASE fate'[TaskId(r)] = "pending" -> 2
                          [] fate'[TaskId(r)] = "running" -> 1
                          [] OTHER -> 0
    BY <1>1 DEF Owed
  <2>4. CASE r = s
    <3>1. version'[r] = v /\ fate'[TaskId(r)] = f
      BY <2>4, <1>1, <1>2, <1>3
    <3>2. \/ f = "running" /\ Owed(r)' = 1 /\ Owed(r) = 2 /\ Pos(v) = Pos(version[r]) + 1
          \/ f = "removed" /\ Owed(r)' = 0 /\ Owed(r) = 2 /\ Pos(v) = Pos(version[r]) + 2
          \/ f = "ran" /\ Owed(r)' = 0 /\ Owed(r) = 1 /\ Pos(v) = Pos(version[r]) + 1
      BY <2>3, <2>4, <3>1 DEF Owed
    <3> QED
      BY <2>1, <2>2, <3>1, <3>2
  <2>5. CASE r # s
    <3>1. version'[r] = version[r] /\ (r \in free' <=> r \in free)
      BY <2>5, <1>3
    <3>2. r \notin free => fate'[TaskId(r)] = fate[TaskId(r)]
      BY <2>5, <1>1, <1>2 DEF IInv, FateInv
    <3>3. Owed(r)' = Owed(r)
      BY <2>3, <3>1, <3>2 DEF Owed
    <3> QED
      BY <2>2, <3>1, <3>3
  <2> QED
    BY <2>4, <2>5
<1> QED
  BY <1>1, <1>2, <1>3, <1>5, <1>6

\* Every step of the callers and of the timer thread preserves it.
LEMMA NextInv == IInv /\ [Next]_vars => IInv'
<1> SUFFICES ASSUME IInv, [Next]_vars PROVE IInv'
  OBVIOUS
<1> USE Constants DEF versions, buckets, shared, timer, callers
<1>0. /\ TypeOK /\ Never \in Times /\ RunTimes \subseteq Times
  BY DEF IInv, Times, Never
<1>1. CASE Start
  <2>1. TypeOK'
    BY <1>1, <1>0 DEF Start, TypeOK
  <2>2. PlaceInv' /\ FateInv' /\ VerInv' /\ RoomInv'
    BY <1>1, Frame DEF Start
  <2>3. CountInv'
    BY <1>1, CountFrame DEF Start, Inserting
  <2>4. DueInv'
    BY <1>1, <1>0 DEF IInv, DueInv, Start, TypeOK
  <2> QED
    BY <2>1, <2>2, <2>3, <2>4 DEF IInv
<1>2. CASE Loop
  <2>1. TypeOK'
    BY <1>2, <1>0 DEF Loop, TypeOK
  <2>2. PlaceInv' /\ FateInv' /\ VerInv' /\ RoomInv'
    BY <1>2, Frame DEF Loop
  <2>3. CountInv'
    BY <1>2, CountFrame DEF Loop, Inserting
  <2>4. DueInv'
    BY <1>2, <1>0 DEF IInv, DueInv, Loop, TypeOK
  <2> QED
    BY <2>1, <2>2, <2>3, <2>4 DEF IInv
<1>3. CASE Clear
  <2>1. TypeOK'
    BY <1>3, <1>0 DEF Clear, TypeOK
  <2>2. PlaceInv' /\ FateInv' /\ VerInv' /\ RoomInv'
    BY <1>3, Frame DEF Clear
  <2>3. CountInv'
    BY <1>3, CountFrame DEF Clear, Inserting
  <2>4. DueInv'
    BY <1>3, <1>0 DEF IInv, DueInv, Clear, TypeOK
  <2> QED
    BY <2>1, <2>2, <2>3, <2>4 DEF IInv
<1>4. CASE ConsumeTasks
  <2>1. TypeOK'
    BY <1>4, <1>0 DEF ConsumeTasks, TypeOK, Buckets
  <2>2. PlaceInv'
    <3>1. /\ index \in Buckets /\ index \in DOMAIN tasks /\ pulled = {} /\ pulled' = tasks[index]
          /\ tasks' = [tasks EXCEPT ![index] = {}] /\ UNCHANGED <<free, heap, task1, tpc>>
          /\ tpc = "pull"
      BY <1>4, <1>0 DEF ConsumeTasks, TypeOK, Buckets
    <3>2. \A s \in Slots : ~Being(s) /\ ~Being(s)'
      BY <3>1 DEF Being
    <3>3. \A d \in Buckets : tasks'[d] = IF d = index THEN {} ELSE tasks[d]
      BY <3>1, <1>0 DEF TypeOK
    <3> QED
      BY <3>1, <3>2, <3>3 DEF IInv, PlaceInv
  <2>3. FateInv' /\ VerInv' /\ RoomInv' /\ UNCHANGED <<fate, pc, tpc>> /\ tpc = "pull"
    BY <1>4 DEF ConsumeTasks, IInv, FateInv, VerInv, RoomInv, Owed, TaskId
  <2>4. CountInv'
    BY <2>3, CountFrame DEF Inserting
  <2>5. DueInv'
    BY <2>3 DEF DueInv
  <2> QED
    BY <2>1, <2>2, <2>3, <2>4, <2>5 DEF IInv
<1>5. CASE SkipBucket
  <2>1. TypeOK'
    BY <1>5, <1>0 DEF SkipBucket, TypeOK
  <2>2. PlaceInv' /\ FateInv' /\ VerInv' /\ RoomInv'
    BY <1>5, Frame DEF SkipBucket
  <2>3. CountInv'
    BY <1>5, CountFrame DEF SkipBucket, Inserting
  <2>4. DueInv'
    BY <1>5, <1>0 DEF IInv, DueInv, SkipBucket, TypeOK
  <2> QED
    BY <2>1, <2>2, <2>3, <2>4 DEF IInv
<1>6. ASSUME NEW s \in Slots, TryDelete(s) PROVE IInv'
  <2>0. /\ tpc = "pull" /\ s \in pulled /\ pulled' = pulled \ {s}
        /\ \/ /\ version[s] # taskVer[s] /\ free' = free \cup {s} /\ heap' = heap
           \/ /\ version[s] = taskVer[s] /\ heap' = heap \cup {s} /\ free' = free
        /\ UNCHANGED <<version, taskVer, runTime, fate, tasks, tpc, task1, pc, now>>
    BY <1>6 DEF TryDelete
  <2>1. TypeOK'
    BY <1>6, <1>0 DEF TryDelete, TypeOK
  <2>2. PlaceInv'
    <3>1. \A r \in Slots : ~Being(r) /\ ~Being(r)'
      BY <2>0 DEF Being
    <3> QED
      BY <2>0, <3>1 DEF IInv, PlaceInv
  <2>3. s \notin free /\ TaskId(s) \in DOMAIN fate
    BY <2>0 DEF IInv, PlaceInv, FateInv
  <2>4. version[s] # taskVer[s] => fate[TaskId(s)] = "removed"
    <3>1. TaskId(s)[1] = s /\ TaskId(s)[2] = taskVer[s]
      BY DEF TaskId
    <3>2. fate[TaskId(s)] \in {"pending", "removed"}
      BY <2>0, <2>3 DEF IInv, FateInv
    <3> QED
      BY <2>3, <3>1, <3>2 DEF IInv, VerInv
  <2>5. \A r \in Slots : TaskId(r)' = TaskId(r)
    BY <2>0 DEF TaskId
  <2>6. FateInv'
    <3>1. \A r \in Slots : r \in free' => r \in free \/ (r = s /\ fate[TaskId(s)] = "removed")
      BY <2>0, <2>4
    <3>2. \A r \in Slots : r \notin free' => r \notin free
      BY <2>0
    <3> QED
      BY <2>0, <2>5, <3>1, <3>2 DEF IInv, FateInv
  <2>7. VerInv'
    BY <2>0 DEF IInv, VerInv
  <2>8. RoomInv'
    <3>1. \A r \in Slots : Owed(r)' <= Owed(r) /\ Owed(r)' \in 0..2 /\ Owed(r) \in 0..2
      BY <2>0, <2>5 DEF Owed
    <3> SUFFICES ASSUME NEW r \in Slots
                 PROVE  Pos(version[r]) + Owed(r)' <= 2 * Cardinality(DOMAIN fate)
                                                    + (IF Pos(version[r]) > Pos(0) THEN 2 ELSE 0)
      BY <2>0 DEF RoomInv, Pos
    <3>2. Pos(version[r]) \in Nat /\ Cardinality(DOMAIN fate) \in Nat
      BY Room
    <3>3. Pos(version[r]) + Owed(r) <= 2 * Cardinality(DOMAIN fate)
                                      + (IF Pos(version[r]) > Pos(0) THEN 2 ELSE 0)
      BY DEF IInv, RoomInv
    <3> QED
      BY <3>1, <3>2, <3>3
  <2>9. CountInv' /\ DueInv'
    BY <2>0, CountFrame DEF Inserting, DueInv
  <2> QED
    BY <2>1, <2>2, <2>6, <2>7, <2>8, <2>9 DEF IInv
<1>7. ASSUME NEW s \in Slots, PickTask(s) PROVE IInv'
  <2>1. TypeOK'
    BY <1>7, <1>0 DEF PickTask, TypeOK
  <2>2. PlaceInv' /\ FateInv' /\ VerInv' /\ RoomInv'
    BY <1>7, Frame DEF PickTask, Front
  <2>3. CountInv'
    BY <1>7, CountFrame DEF PickTask, Inserting, Front
  <2>4. DueInv'
    BY <1>7, <1>0 DEF IInv, DueInv, PickTask, TypeOK, Front
  <2> QED
    BY <2>1, <2>2, <2>3, <2>4 DEF IInv
<1>8. CASE CompareNearest
  <2>1. TypeOK'
    BY <1>8, <1>0 DEF CompareNearest, TypeOK
  <2>2. task1 \in heap /\ task1 \in Slots /\ tpc = "compare" /\ now >= runTime[task1]
    BY <1>8, <1>0 DEF CompareNearest, IInv, PlaceInv, DueInv, TypeOK
  <2>3. PlaceInv'
    <3>0. \/ /\ tpc' = "loop" /\ heap' = heap
          \/ /\ tpc' = "run" /\ heap' = heap \ {task1} /\ task1' = task1
      BY <1>8 DEF CompareNearest
    <3>1. UNCHANGED <<free, pulled, tasks>>
      BY <1>8 DEF CompareNearest
    <3>2. \A r \in Slots : ~Being(r)
      BY <2>2 DEF Being
    <3>3. \A r \in Slots : Being(r)' <=> (tpc' = "run" /\ r = task1)
      BY <3>0 DEF Being
    <3> QED
      BY <2>2, <3>0, <3>1, <3>2, <3>3 DEF IInv, PlaceInv
  <2>4. FateInv' /\ VerInv' /\ RoomInv'
    BY <1>8, <2>2 DEF CompareNearest, IInv, FateInv, VerInv, RoomInv, Owed, TaskId
  <2>5. CountInv'
    BY <1>8, CountFrame DEF CompareNearest, Inserting
  <2>6. DueInv'
    BY <1>8, <2>2 DEF CompareNearest, DueInv
  <2> QED
    BY <2>1, <2>3, <2>4, <2>5, <2>6 DEF IInv
<1>9. CASE RunTask
  <2>0. /\ tpc = "run" /\ task1 \in Slots /\ now >= runTime[task1]
        /\ UNCHANGED <<taskVer, runTime, pulled, heap, tasks, pc, now>>
    BY <1>9, <1>0 DEF RunTask, IInv, PlaceInv, DueInv
  <2>1. /\ task1 \notin free /\ task1 \notin pulled /\ task1 \notin heap
        /\ \A b \in Buckets : task1 \notin tasks[b]
        /\ \A r \in Slots : Being(r) <=> r = task1
    BY <2>0 DEF IInv, PlaceInv, Being
  <2>2. /\ TaskId(task1) \in DOMAIN fate
        /\ \/ fate[TaskId(task1)] = "pending" /\ version[task1] = taskVer[task1]
           \/ /\ fate[TaskId(task1)] = "removed" /\ version[task1] = Ver(taskVer[task1] + 2)
              /\ version[task1] # taskVer[task1]
    <3>1. TaskId(task1) \in DOMAIN fate
      BY <2>0, <2>1 DEF IInv, FateInv
    <3>2. TaskId(task1)[1] = task1 /\ TaskId(task1)[2] = taskVer[task1]
      BY DEF TaskId
    <3>3. \/ fate[TaskId(task1)] = "pending"
          \/ fate[TaskId(task1)] = "removed" /\ version[task1] = Ver(taskVer[task1] + 2)
      BY <2>0, <2>1 DEF IInv, FateInv
    <3>4. /\ fate[TaskId(task1)] = "pending" => version[task1] = taskVer[task1]
          /\ fate[TaskId(task1)] = "removed" => Pos(version[task1]) >= Pos(taskVer[task1]) + 2
      BY <3>1, <3>2 DEF IInv, VerInv
    <3>5. Pos(version[task1]) \in Nat
      BY <2>0, Room
    <3> QED
      BY <3>1, <3>3, <3>4, <3>5
  <2>3. CASE fate[TaskId(task1)] = "pending"
    <3> DEFINE v == Ver(version[task1] + 1)
    <3>0. /\ version' = [version EXCEPT ![task1] = v]
          /\ fate' = [fate EXCEPT ![TaskId(task1)] = "running"]
          /\ tpc' = "running" /\ free' = free /\ task1' = task1
      BY <1>9, <1>0, <2>0, <2>2, <2>3 DEF RunTask, TypeOK
    <3>1. v \in 0..(VerMod - 1) /\ Pos(v) = Pos(version[task1]) + 1
      <4>1. /\ version[task1] \in 0..(VerMod - 1) /\ Pos(version[task1]) \in Nat
            /\ Owed(task1) = 2 /\ Pos(version[task1]) + Owed(task1) + 2 < VerMod
        BY <2>0, <2>1, <2>3, Room DEF Owed
      <4> QED
        BY <4>1, PosAdd
    <3> HIDE DEF v
    <3>2. /\ VerInv' /\ RoomInv' /\ DOMAIN fate' = DOMAIN fate
          /\ \A r \in Slots : TaskId(r)' = TaskId(r) /\ (TaskId(r) = TaskId(task1) => r = task1)
          /\ \A id \in DOMAIN fate : fate'[id] = IF id = TaskId(task1) THEN "running" ELSE fate[id]
          /\ \A r \in Slots : version'[r] = IF r = task1 THEN v ELSE version[r]
      BY <2>0, <2>1, <2>3, <3>0, <3>1, Move
    <3>3. TypeOK'
      <4>1. version' \in [Slots -> 0..(VerMod - 1)]
        BY <1>0, <3>0, <3>1 DEF TypeOK
      <4>2. /\ DOMAIN fate' \subseteq TaskIds
            /\ \A id \in DOMAIN fate' : fate'[id] \in {"pending", "running", "ran", "removed"}
        BY <1>0, <3>2 DEF TypeOK
      <4> QED
        BY <1>9, <1>0, <2>0, <3>0, <4>1, <4>2 DEF RunTask, TypeOK
    <3>4. PlaceInv'
      <4>1. \A r \in Slots : Being(r)' <=> Being(r)
        BY <2>0, <3>0 DEF Being
      <4> QED
        BY <2>0, <3>0, <4>1 DEF IInv, PlaceInv
    <3>5. FateInv'
      <4> SUFFICES ASSUME NEW r \in Slots
                   PROVE  /\ \A id \in DOMAIN fate :
                               id[1] = r /\ (r \in free \/ id # TaskId(r)) =>
                                   fate'[id] \in {"ran", "removed"}
                          /\ r \notin free =>
                               /\ TaskId(r) \in DOMAIN fate
                               /\ IF r = task1 THEN fate'[TaskId(r)] = "running"
                                  ELSE \/ fate'[TaskId(r)] = "pending"
                                       \/ /\ fate'[TaskId(r)] = "removed"
                                          /\ version'[r] = Ver(taskVer[r] + 2)
        BY <2>0, <3>0, <3>2 DEF FateInv
      <4>1. \A id \in DOMAIN fate : id[1] = r /\ (r \in free \/ id # TaskId(r)) =>
                 fate[id] \in {"ran", "removed"} /\ id # TaskId(task1)
        BY <2>0, <2>1, <2>3 DEF IInv, FateInv
      <4>2. r \notin free /\ r # task1 => /\ TaskId(r) # TaskId(task1) /\ version'[r] = version[r]
                                          /\ TaskId(r) \in DOMAIN fate /\ fate'[TaskId(r)] = fate[TaskId(r)]
        BY <3>2 DEF IInv, FateInv
      <4> QED
        BY <2>0, <2>2, <3>2, <4>1, <4>2 DEF IInv, FateInv
    <3>6. CountInv'
      BY <2>0, <3>2 DEF IInv, CountInv, Inserting
    <3>7. DueInv'
      BY <3>0 DEF DueInv
    <3> QED
      BY <3>2, <3>3, <3>4, <3>5, <3>6, <3>7 DEF IInv
  <2>4. CASE fate[TaskId(task1)] = "removed"
    <3>0. /\ free' = free \cup {task1} /\ tpc' = "pull" /\ UNCHANGED <<version, fate>>
      BY <1>9, <2>2, <2>4 DEF RunTask
    <3>1. TypeOK'
      BY <1>9, <1>0, <2>0, <3>0 DEF RunTask, TypeOK
    <3>2. PlaceInv'
      <4>1. \A r \in Slots : ~Being(r)'
        BY <3>0 DEF Being
      <4> QED
        BY <2>0, <2>1, <3>0, <4>1 DEF IInv, PlaceInv
    <3>3. \A r \in Slots : TaskId(r)' = TaskId(r)
      BY <2>0 DEF TaskId
    <3>4. FateInv'
      <4>1. \A r \in Slots : r \in free' <=> r \in free \/ r = task1
        BY <2>0, <3>0
      <4> QED
        BY <2>0, <2>4, <3>0, <3>3, <4>1 DEF IInv, FateInv
    <3>5. VerInv'
      BY <3>0 DEF IInv, VerInv
    <3>6. RoomInv'
      <4>1. \A r \in Slots : Owed(r)' = Owed(r)
        BY <2>1, <2>4, <3>0, <3>3 DEF Owed
      <4> QED
        BY <3>0, <4>1 DEF IInv, RoomInv
    <3>7. CountInv' /\ DueInv'
      BY <2>0, <3>0, CountFrame DEF Inserting, DueInv
    <3> QED
      BY <3>1, <3>2, <3>4, <3>5, <3>6, <3>7 DEF IInv
  <2> QED
    BY <2>2, <2>3, <2>4
<1>10. CASE DeleteTask
  <2> DEFINE v == Ver(taskVer[task1] + 2)
  <2>0. /\ tpc = "running" /\ task1 \in Slots
        /\ version' = [version EXCEPT ![task1] = v]
        /\ fate' = [fate EXCEPT ![TaskId(task1)] = "ran"]
        /\ free' = free \cup {task1} /\ tpc' = "pull"
        /\ UNCHANGED <<taskVer, pulled, heap, tasks, pc, now>>
    BY <1>10 DEF DeleteTask, IInv, PlaceInv
  <2>1. /\ task1 \notin free /\ task1 \notin pulled /\ task1 \notin heap
        /\ \A b \in Buckets : task1 \notin tasks[b]
        /\ \A r \in Slots : Being(r) <=> r = task1
    BY <2>0 DEF IInv, PlaceInv, Being
  <2>2. TaskId(task1) \in DOMAIN fate /\ fate[TaskId(task1)] = "running"
    BY <2>0, <2>1 DEF IInv, FateInv
  <2>3. v \in 0..(VerMod - 1) /\ Pos(v) = Pos(version[task1]) + 1
    <3>1. TaskId(task1)[1] = task1 /\ TaskId(task1)[2] = taskVer[task1]
      BY DEF TaskId
    <3>2. Pos(version[task1]) = Pos(taskVer[task1]) + 1
      BY <2>2, <3>1 DEF IInv, VerInv
    <3>3. /\ taskVer[task1] \in 0..(VerMod - 1) /\ Pos(version[task1]) \in Nat
          /\ Owed(task1) = 1 /\ Pos(version[task1]) + Owed(task1) + 2 < VerMod
          /\ Pos(taskVer[task1]) \in Nat
      BY <2>0, <2>1, <2>2, Room, PosType DEF Owed
    <3> QED
      BY <3>2, <3>3, PosAdd
  <2> HIDE DEF v
  <2>4. /\ VerInv' /\ RoomInv' /\ DOMAIN fate' = DOMAIN fate
        /\ \A r \in Slots : TaskId(r)' = TaskId(r) /\ (TaskId(r) = TaskId(task1) => r = task1)
        /\ \A id \in DOMAIN fate : fate'[id] = IF id = TaskId(task1) THEN "ran" ELSE fate[id]
        /\ \A r \in Slots : version'[r] = IF r = task1 THEN v ELSE version[r]
    BY <2>0, <2>1, <2>2, <2>3, Move
  <2>5. TypeOK'
    <3>1. version' \in [Slots -> 0..(VerMod - 1)]
      BY <1>0, <2>0, <2>3 DEF TypeOK
    <3>2. /\ DOMAIN fate' \subseteq TaskIds
          /\ \A id \in DOMAIN fate' : fate'[id] \in {"pending", "running", "ran", "removed"}
      BY <1>0, <2>4 DEF TypeOK
    <3> QED
      BY <1>10, <1>0, <2>0, <3>1, <3>2 DEF DeleteTask, TypeOK
  <2>6. PlaceInv'
    <3>1. \A r \in Slots : ~Being(r)'
      BY <2>0 DEF Being
    <3> QED
      BY <2>0, <2>1, <3>1 DEF IInv, PlaceInv
  <2>7. FateInv'
    <3> SUFFICES ASSUME NEW r \in Slots
                 PROVE  /\ \A id \in DOMAIN fate :
                             id[1] = r /\ (r \in free' \/ id # TaskId(r)) =>
                                 fate'[id] \in {"ran", "removed"}
                        /\ r \notin free' =>
                             /\ TaskId(r) \in DOMAIN fate
                             /\ \/ fate'[TaskId(r)] = "pending"
                                \/ fate'[TaskId(r)] = "removed" /\ version'[r] = Ver(taskVer[r] + 2)
      BY <2>0, <2>4 DEF FateInv
    <3>1. \A id \in DOMAIN fate : id[1] = r /\ id # TaskId(task1) /\ (r \in free' \/ id # TaskId(r)) =>
               fate[id] \in {"ran", "removed"}
      BY <2>0, <2>1 DEF IInv, FateInv
    <3>2. r \notin free' => /\ TaskId(r) # TaskId(task1) /\ version'[r] = version[r] /\ r # task1
                            /\ TaskId(r) \in DOMAIN fate /\ fate'[TaskId(r)] = fate[TaskId(r)]
      BY <2>0, <2>4 DEF IInv, FateInv
    <3> QED
      BY <2>0, <2>4, <3>1, <3>2 DEF IInv, FateInv
  <2>8. CountInv'
    BY <2>0, <2>4 DEF IInv, CountInv, Inserting
  <2>9. DueInv'
    BY <2>0 DEF DueInv
  <2> QED
    BY <2>4, <2>5, <2>6, <2>7, <2>8, <2>9 DEF IInv
<1>11. ASSUME NEW t \in RunTimes \cup {Never}, PrepareWait(t) PROVE IInv'
  <2>1. TypeOK'
    BY <1>11, <1>0 DEF PrepareWait, TypeOK
  <2>2. PlaceInv' /\ FateInv' /\ VerInv' /\ RoomInv'
    BY <1>11, Frame DEF PrepareWait
  <2>3. CountInv'
    BY <1>11, CountFrame DEF PrepareWait, Inserting
  <2>4. DueInv'
    BY <1>11, <1>0 DEF IInv, DueInv, PrepareWait, TypeOK
  <2> QED
    BY <2>1, <2>2, <2>3, <2>4 DEF IInv
<1>12. CASE FutexWait
  <2>1. TypeOK'
    BY <1>12, <1>0 DEF FutexWait, TypeOK
  <2>2. PlaceInv' /\ FateInv' /\ VerInv' /\ RoomInv'
    BY <1>12, Frame DEF FutexWait
  <2>3. CountInv'
    BY <1>12, CountFrame DEF FutexWait, Inserting
  <2>4. DueInv'
    BY <1>12, <1>0 DEF IInv, DueInv, FutexWait, TypeOK
  <2> QED
    BY <2>1, <2>2, <2>3, <2>4 DEF IInv
<1>13. CASE FutexTimeout
  <2>1. TypeOK'
    BY <1>13, <1>0 DEF FutexTimeout, TypeOK
  <2>2. PlaceInv' /\ FateInv' /\ VerInv' /\ RoomInv'
    BY <1>13, Frame DEF FutexTimeout
  <2>3. CountInv'
    BY <1>13, CountFrame DEF FutexTimeout, Inserting
  <2>4. DueInv'
    BY <1>13, <1>0 DEF IInv, DueInv, FutexTimeout, TypeOK
  <2> QED
    BY <2>1, <2>2, <2>3, <2>4 DEF IInv
<1>14. CASE Tick
  <2>1. TypeOK'
    BY <1>14, <1>0 DEF Tick, TypeOK
  <2>2. PlaceInv' /\ FateInv' /\ VerInv' /\ RoomInv'
    BY <1>14, Frame DEF Tick, IInv, PlaceInv
  <2>3. CountInv'
    BY <1>14, CountFrame DEF Tick, Inserting
  <2>4. DueInv'
    <3>1. UNCHANGED <<tpc, task1, runTime>> /\ now \in Int /\ now' = now + 1
      BY <1>14, <1>0 DEF Tick, TypeOK
    <3>2. tpc \in {"compare", "run"} => runTime[task1] \in Int
      BY <1>0 DEF IInv, PlaceInv, TypeOK
    <3> QED
      BY <3>1, <3>2 DEF IInv, DueInv
  <2> QED
    BY <2>1, <2>2, <2>3, <2>4 DEF IInv
<1>15. CASE StopSignal
  <2>1. TypeOK'
    BY <1>15, <1>0 DEF StopSignal, TypeOK, Times
  <2>2. PlaceInv' /\ FateInv' /\ VerInv' /\ RoomInv'
    BY <1>15, Frame DEF StopSignal, IInv, PlaceInv
  <2>3. CountInv'
    BY <1>15, CountFrame DEF StopSignal, Inserting
  <2>4. DueInv'
    BY <1>15, <1>0 DEF IInv, DueInv, StopSignal, TypeOK
  <2> QED
    BY <2>1, <2>2, <2>3, <2>4 DEF IInv
<1>16. CASE StopWake
  <2>1. TypeOK'
    BY <1>16, <1>0 DEF StopWake, TypeOK, FutexWake
  <2>2. PlaceInv' /\ FateInv' /\ VerInv' /\ RoomInv'
    BY <1>16, Frame DEF StopWake, FutexWake, IInv, PlaceInv
  <2>3. CountInv'
    BY <1>16, CountFrame DEF StopWake, Inserting, FutexWake
  <2>4. DueInv'
    BY <1>16, <1>0 DEF IInv, DueInv, StopWake, TypeOK, FutexWake
  <2> QED
    BY <2>1, <2>2, <2>3, <2>4 DEF IInv
<1>17. CASE Join
  <2>1. TypeOK'
    BY <1>17, <1>0 DEF Join, TypeOK
  <2>2. PlaceInv' /\ FateInv' /\ VerInv' /\ RoomInv'
    BY <1>17, Frame DEF Join
  <2>3. CountInv'
    BY <1>17, CountFrame DEF Join, Inserting
  <2>4. DueInv'
    BY <1>17, <1>0 DEF IInv, DueInv, Join, TypeOK
  <2> QED
    BY <2>1, <2>2, <2>3, <2>4 DEF IInv
<1>18. ASSUME NEW who \in Stops, SetStop(who) PROVE IInv'
  <2>1. TypeOK'
    BY <1>18, <1>0 DEF SetStop, TypeOK
  <2>2. PlaceInv' /\ FateInv' /\ VerInv' /\ RoomInv'
    BY <1>18, Frame DEF SetStop, IInv, PlaceInv
  <2>3. CountInv'
    BY <1>18, CountFrame DEF SetStop, Inserting
  <2>4. DueInv'
    BY <1>18, <1>0 DEF IInv, DueInv, SetStop, TypeOK
  <2> QED
    BY <2>1, <2>2, <2>3, <2>4 DEF IInv
<1>19. ASSUME NEW c \in Threads, BucketScheduleFails(c) PROVE IInv'
  <2>1. TypeOK'
    BY <1>19, <1>0 DEF BucketScheduleFails, TypeOK, Return, Goto
  <2>2. PlaceInv' /\ FateInv' /\ VerInv' /\ RoomInv'
    BY <1>19, Frame DEF BucketScheduleFails, Return, Goto, IInv, PlaceInv
  <2>3. CountInv'
    BY <1>19, CountFrame DEF BucketScheduleFails, Inserting, Return, Goto
  <2>4. DueInv'
    BY <1>19, <1>0 DEF IInv, DueInv, BucketScheduleFails, TypeOK, Return, Goto
  <2> QED
    BY <2>1, <2>2, <2>3, <2>4 DEF IInv
<1>20. ASSUME NEW c \in Threads, ScheduleGlobal(c) PROVE IInv'
  <2>0. /\ pc[c] = "global" /\ call[c] \in Calls
        /\ \/ /\ nearest' = call[c].time /\ nsignals' = nsignals + 1
              /\ pc' = [pc EXCEPT ![c] = "wake"] /\ call' = call
           \/ /\ nearest' = nearest /\ nsignals' = nsignals
              /\ pc' = [pc EXCEPT ![c] = "idle"] /\ call' = [call EXCEPT ![c] = None]
        /\ UNCHANGED <<versions, tasks, bucketNearest, stop, timer, stopper, now>>
    BY <1>20, <1>0 DEF ScheduleGlobal, Return, Goto, TypeOK
  <2>1. TypeOK'
    <3>1. /\ pc' \in [Threads -> {"idle", "insert", "global", "wake"}] /\ DOMAIN call' = Threads
          /\ \A d \in Threads : IF pc'[d] \in {"global", "wake"} THEN call'[d] \in Calls
                                                             ELSE call'[d] = None
      BY <1>0, <2>0 DEF TypeOK
    <3>2. nearest' \in Times /\ nsignals' \in Nat
      <4>1. call[c].time \in Times
        BY <1>0, <2>0 DEF Calls
      <4> QED
        BY <1>0, <2>0, <4>1 DEF TypeOK
    <3>3. published' \in [Buckets -> BOOLEAN]
      BY <1>20, <1>0 DEF TypeOK, ScheduleGlobal
    <3> QED
      BY <1>0, <2>0, <3>1, <3>2, <3>3 DEF TypeOK
  <2>2. PlaceInv' /\ FateInv' /\ VerInv' /\ RoomInv'
    BY <2>0, Frame DEF IInv, PlaceInv
  <2>3. CountInv'
    <3>1. Inserting' \subseteq Inserting
      BY <1>0, <2>0 DEF Inserting, TypeOK
    <3> QED
      BY <2>0, <3>1, CountFrame
  <2>4. DueInv'
    BY <2>0 DEF IInv, DueInv
  <2> QED
    BY <2>1, <2>2, <2>3, <2>4 DEF IInv
<1>21. ASSUME NEW c \in Threads, ScheduleWake(c) PROVE IInv'
  <2>1. TypeOK'
    BY <1>21, <1>0 DEF ScheduleWake, TypeOK, Return, Goto, FutexWake
  <2>2. PlaceInv' /\ FateInv' /\ VerInv' /\ RoomInv'
    BY <1>21, Frame DEF ScheduleWake, Return, Goto, FutexWake, IInv, PlaceInv
  <2>3. CountInv'
    BY <1>21, CountFrame DEF ScheduleWake, Inserting, Return, Goto, FutexWake
  <2>4. DueInv'
    BY <1>21, <1>0 DEF IInv, DueInv, ScheduleWake, TypeOK, Return, Goto, FutexWake
  <2> QED
    BY <2>1, <2>2, <2>3, <2>4 DEF IInv
<1>22. ASSUME NEW c \in Threads, Schedule(c) PROVE IInv'
  <2>0. /\ pc[c] = "idle" /\ pc' = [pc EXCEPT ![c] = "insert"]
        /\ UNCHANGED <<versions, buckets, shared, stop, timer, call, stopper, now>>
        /\ Cardinality(DOMAIN fate) + Cardinality(Inserting) < MaxSchedules
    BY <1>22 DEF Schedule, Goto, Inserting
  <2>1. TypeOK'
    BY <1>0, <2>0 DEF TypeOK
  <2>2. PlaceInv' /\ FateInv' /\ VerInv' /\ RoomInv'
    BY <2>0, Frame DEF IInv, PlaceInv
  <2>3. CountInv'
    <3>1. Inserting' = Inserting \cup {c} /\ c \notin Inserting
      BY <1>22, <1>0, <2>0 DEF Inserting, TypeOK
    <3>2. IsFiniteSet(Inserting) /\ IsFiniteSet(DOMAIN fate) /\ Cardinality(Inserting) \in Nat
          /\ Cardinality(DOMAIN fate) \in Nat
      BY FS_CardinalityType DEF IInv, CountInv
    <3>3. IsFiniteSet(Inserting') /\ Cardinality(Inserting') = Cardinality(Inserting) + 1
      BY <3>1, <3>2, FS_AddElement
    <3> QED
      BY <2>0, <3>2, <3>3 DEF CountInv
  <2>4. DueInv'
    BY <2>0 DEF IInv, DueInv
  <2> QED
    BY <2>1, <2>2, <2>3, <2>4 DEF IInv
<1>23. ASSUME NEW c \in Threads, NEW s \in Slots, NEW b \in Buckets, NEW t \in RunTimes,
              BucketSchedule(c, s, b, t)
       PROVE  IInv'
  <2>v. PICK v : v = IF version[s] = 0 THEN 2 ELSE version[s]
    OBVIOUS
  <2> DEFINE new == <<s, v>>
  <2>0. /\ pc[c] = "insert" /\ s \in free /\ free' = free \ {s}
        /\ version' = [version EXCEPT ![s] = v] /\ taskVer' = [taskVer EXCEPT ![s] = v]
        /\ runTime' = [runTime EXCEPT ![s] = t]
        /\ tasks' = [tasks EXCEPT ![b] = tasks[b] \cup {s}]
        /\ bucketNearest' = [bucketNearest EXCEPT ![b] = IF t < bucketNearest[b] THEN t
                                                         ELSE bucketNearest[b]]
        /\ published' = [published EXCEPT ![b] = published[b] \/ c = Callback]
        /\ fate' = [i \in DOMAIN fate \cup {new} |-> IF i = new THEN "pending" ELSE fate[i]]
        /\ \/ /\ pc' = [pc EXCEPT ![c] = "global"]
              /\ call' = [call EXCEPT ![c] = [id |-> new, bucket |-> b, time |-> t]]
           \/ /\ pc' = [pc EXCEPT ![c] = "idle"] /\ call' = [call EXCEPT ![c] = None]
        /\ UNCHANGED <<shared, stop, timer, stopper, now>>
    BY <1>23, <1>0, <2>v DEF BucketSchedule, Return, Goto, TypeOK
  <2>1. c \in Inserting /\ Inserting' = Inserting \ {c}
    BY <1>0, <2>0 DEF Inserting, TypeOK
  <2>2. /\ v \in 1..(VerMod - 1) /\ version[s] \in 0..(VerMod - 1)
        /\ Pos(v) \in Nat /\ Pos(version[s]) \in Nat /\ Pos(0) \in Nat
        /\ \/ v = version[s]
           \/ version[s] = 0 /\ v = 2 /\ Pos(v) = Pos(version[s]) + 2
    <3>1. /\ version[s] \in 0..(VerMod - 1) /\ Pos(version[s]) \in Nat /\ Owed(s) = 0
          /\ Pos(version[s]) + Owed(s) + 4 < VerMod
      BY <2>0, <2>1, Room DEF Owed
    <3>2. v \in 1..(VerMod - 1)
      BY <2>v, <3>1
    <3>3. version[s] = 0 => Pos(Ver(0 + 2)) = Pos(0) + 2 /\ Ver(0 + 2) = 2
      BY <3>1, PosAdd, VerSmall
    <3> QED
      BY <2>v, <3>1, <3>2, <3>3, PosType
  <2>3. new \notin DOMAIN fate
    <3> SUFFICES ASSUME new \in DOMAIN fate PROVE FALSE
      OBVIOUS
    <3>1. fate[new] \in {"ran", "removed"}
      BY <2>0 DEF IInv, FateInv
    <3>2. Pos(version[s]) >= Pos(v) + 2
      BY <3>1 DEF IInv, VerInv
    <3> QED
      BY <2>2, <3>2
  <2>4. /\ IsFiniteSet(DOMAIN fate') /\ Cardinality(DOMAIN fate') = Cardinality(DOMAIN fate) + 1
        /\ Cardinality(DOMAIN fate) \in Nat
    <3>1. IsFiniteSet(DOMAIN fate) /\ DOMAIN fate' = DOMAIN fate \cup {new}
      BY <2>0 DEF IInv, CountInv
    <3> HIDE DEF new
    <3> QED
      BY <2>3, <3>1, FS_AddElement, FS_CardinalityType
  <2>5. /\ \A i \in DOMAIN fate : fate'[i] = fate[i] /\ i # new
        /\ fate'[new] = "pending" /\ DOMAIN fate' = DOMAIN fate \cup {new}
        /\ \A r \in Slots : r # s => /\ version'[r] = version[r] /\ TaskId(r)' = TaskId(r)
                                     /\ runTime'[r] = runTime[r]
        /\ version'[s] = v /\ TaskId(s)' = new
    BY <1>0, <2>0, <2>3 DEF TypeOK, TaskId
  <2>6. TypeOK'
    <3>1. /\ version' \in [Slots -> 0..(VerMod - 1)] /\ taskVer' \in [Slots -> 0..(VerMod - 1)]
          /\ runTime' \in [Slots -> 0..MaxTime] /\ free' \subseteq Slots
      <4>1. v \in 0..(VerMod - 1) /\ t \in 0..MaxTime
        BY <2>2
      <4>2. version' \in [Slots -> 0..(VerMod - 1)]
        BY <1>0, <2>0, <4>1 DEF TypeOK
      <4>3. taskVer' \in [Slots -> 0..(VerMod - 1)]
        BY <1>0, <2>0, <4>1 DEF TypeOK
      <4>4. runTime' \in [Slots -> 0..MaxTime] /\ free' \subseteq Slots
        BY <1>0, <2>0, <4>1 DEF TypeOK
      <4> QED
        BY <4>2, <4>3, <4>4
    <3>2. tasks' \in [Buckets -> SUBSET Slots]
      BY <1>0, <2>0 DEF TypeOK
    <3>3. bucketNearest' \in [Buckets -> Times]
      BY <1>0, <2>0 DEF TypeOK
    <3>4. published' \in [Buckets -> BOOLEAN]
      BY <1>0, <2>0 DEF TypeOK
    <3>5. new \in TaskIds
      BY <2>2 DEF TaskIds
    <3>6. [id |-> new, bucket |-> b, time |-> t] \in Calls
      BY <3>5 DEF Calls
    <3>7. /\ pc' \in [Threads -> {"idle", "insert", "global", "wake"}] /\ DOMAIN call' = Threads
          /\ \A d \in Threads : IF pc'[d] \in {"global", "wake"} THEN call'[d] \in Calls
                                                             ELSE call'[d] = None
      BY <1>0, <2>0, <3>6 DEF TypeOK
    <3>8. /\ DOMAIN fate' \subseteq TaskIds
          /\ \A id \in DOMAIN fate' : fate'[id] \in {"pending", "running", "ran", "removed"}
      BY <1>0, <2>5, <3>5 DEF TypeOK
    <3>9. UNCHANGED <<pulled, heap, mustSee, nearest, nsignals, expected, stop, tpc, index,
                      task1, wakeTime, stopper, now>>
      BY <2>0
    <3> HIDE DEF new
    <3>10. /\ pulled' \subseteq Slots /\ heap' \subseteq Slots /\ mustSee' \subseteq Buckets
           /\ nearest' \in Times /\ nsignals' \in Nat /\ expected' \in Nat /\ wakeTime' \in Times
           /\ index' \in 0..NumBuckets /\ now' \in 0..MaxTime /\ task1' \in Slots \cup {None}
      BY <1>0, <3>9 DEF TypeOK
    <3>11. /\ stop' \in BOOLEAN
           /\ tpc' \in {"none", "loop", "clear", "pull", "compare", "run", "running",
                        "wait", "asleep", "ended"}
           /\ stopper' \in {"idle", "lock", "lockInTask", "wake", "join", "done"}
      BY <1>0, <3>9 DEF TypeOK
    <3> QED
      BY <3>1, <3>2, <3>3, <3>4, <3>7, <3>8, <3>10, <3>11 DEF TypeOK
  <2>7. PlaceInv'
    <3>1. \A r \in Slots : Being(r)' <=> Being(r)
      BY <2>0 DEF Being
    <3>2. \A d \in Buckets : tasks'[d] = IF d = b THEN tasks[d] \cup {s} ELSE tasks[d]
      BY <1>0, <2>0 DEF TypeOK
    <3>3. /\ s \notin pulled /\ s \notin heap /\ ~Being(s) /\ \A d \in Buckets : s \notin tasks[d]
      BY <2>0 DEF IInv, PlaceInv
    <3>4. \A r \in Slots, d \in Buckets : r \in tasks'[d] <=> r \in tasks[d] \/ (r = s /\ d = b)
      BY <3>2
    <3>5. \A r \in Slots : r \in free' <=> r \in free /\ r # s
      BY <2>0
    <3>6. UNCHANGED <<pulled, heap, tpc, task1>>
      BY <2>0
    <3> QED
      BY <3>1, <3>3, <3>4, <3>5, <3>6 DEF IInv, PlaceInv
  <2>8. FateInv'
    <3>1. tpc = "running" => task1 # s
      BY <2>0 DEF IInv, PlaceInv, Being
    <3> SUFFICES ASSUME NEW r \in Slots
                 PROVE  /\ \A id \in DOMAIN fate' :
                             id[1] = r /\ (r \in free' \/ id # TaskId(r)') =>
                                 fate'[id] \in {"ran", "removed"}
                        /\ r \notin free' =>
                             /\ TaskId(r)' \in DOMAIN fate'
                             /\ IF tpc = "running" /\ r = task1 THEN fate'[TaskId(r)'] = "running"
                                ELSE \/ fate'[TaskId(r)'] = "pending"
                                     \/ /\ fate'[TaskId(r)'] = "removed"
                                        /\ version'[r] = Ver(taskVer'[r] + 2)
      BY <2>0 DEF FateInv
    <3>2. CASE r = s
      <4>1. \A id \in DOMAIN fate : id[1] = s => fate[id] \in {"ran", "removed"}
        BY <2>0 DEF IInv, FateInv
      <4> QED
        BY <2>0, <2>5, <3>1, <3>2, <4>1
    <3>3. CASE r # s
      <4>1. TaskId(r)' = TaskId(r) /\ version'[r] = version[r] /\ taskVer'[r] = taskVer[r]
            /\ (r \in free' <=> r \in free) /\ new[1] # r
        BY <1>0, <2>0, <2>5, <3>3 DEF TypeOK
      <4> QED
        BY <2>5, <4>1 DEF IInv, FateInv
    <3> QED
      BY <3>2, <3>3
  <2>9. VerInv'
    <3> SUFFICES ASSUME NEW id \in DOMAIN fate'
                 PROVE  /\ fate'[id] = "pending" => version'[id[1]] = id[2]
                        /\ fate'[id] = "running" => Pos(version'[id[1]]) = Pos(id[2]) + 1
                        /\ fate'[id] \in {"ran", "removed"} =>
                               Pos(version'[id[1]]) >= Pos(id[2]) + 2
      BY DEF VerInv, Pos
    <3>1. CASE id = new
      BY <2>5, <3>1
    <3>2. CASE id # new
      <4>1. id \in DOMAIN fate /\ fate'[id] = fate[id]
        BY <2>5, <3>2
      <4>2. id[1] \in Slots /\ Pos(id[2]) \in Nat
        BY <4>1, Results, PosType
      <4>3. CASE id[1] # s
        BY <2>5, <4>1, <4>2, <4>3 DEF IInv, VerInv
      <4>4. CASE id[1] = s
        <5>1. fate[id] \in {"ran", "removed"} /\ version'[id[1]] = v
          BY <2>0, <2>5, <4>1, <4>4 DEF IInv, FateInv
        <5>2. Pos(version[s]) >= Pos(id[2]) + 2
          BY <4>1, <4>4, <5>1 DEF IInv, VerInv
        <5> QED
          BY <2>2, <4>1, <4>2, <5>1, <5>2
      <4> QED
        BY <4>3, <4>4
    <3> QED
      BY <3>1, <3>2
  <2>10. RoomInv'
    <3> SUFFICES ASSUME NEW r \in Slots
                 PROVE  Pos(version'[r]) + Owed(r)' <=
                          2 * (Cardinality(DOMAIN fate) + 1)
                          + (IF Pos(version'[r]) > Pos(0) THEN 2 ELSE 0)
      BY <2>4 DEF RoomInv, Pos
    <3>1. /\ Pos(version[r]) \in Nat /\ Owed(r) \in 0..2
      BY Room
    <3>2. Pos(version[r]) + Owed(r) <= 2 * Cardinality(DOMAIN fate)
                                       + (IF Pos(version[r]) > Pos(0) THEN 2 ELSE 0)
      BY DEF IInv, RoomInv
    <3>3. CASE r = s
      <4>1. Owed(r)' = 2 /\ Owed(r) = 0 /\ version'[r] = v
        BY <2>0, <2>5, <3>3 DEF Owed
      <4> QED
        BY <2>2, <2>4, <3>1, <3>2, <3>3, <4>1
    <3>4. CASE r # s
      <4>1. version'[r] = version[r] /\ (r \in free' <=> r \in free) /\ TaskId(r)' = TaskId(r)
        BY <2>0, <2>5, <3>4
      <4>2. r \notin free => TaskId(r) \in DOMAIN fate
        BY DEF IInv, FateInv
      <4>3. Owed(r)' = Owed(r)
        BY <2>5, <4>1, <4>2 DEF Owed
      <4> QED
        BY <2>2, <2>4, <3>1, <3>2, <4>1, <4>3
    <3> QED
      BY <3>3, <3>4
  <2>11. CountInv'
    <3>1. /\ IsFiniteSet(Inserting') /\ Cardinality(Inserting') = Cardinality(Inserting) - 1
          /\ Cardinality(Inserting) \in Nat
      BY <2>1, FS_RemoveElement, FS_CardinalityType DEF IInv, CountInv
    <3> QED
      BY <2>4, <3>1 DEF IInv, CountInv
  <2>12. DueInv'
    <3>1. tpc \in {"compare", "run"} => task1 # s /\ task1 \in Slots
      BY <1>0, <2>0 DEF IInv, PlaceInv, Being, TypeOK
    <3> QED
      BY <2>0, <2>5, <3>1 DEF IInv, DueInv
  <2> QED
    BY <2>6, <2>7, <2>8, <2>9, <2>10, <2>11, <2>12 DEF IInv
<1>24. ASSUME NEW id \in DOMAIN fate, Unschedule(id) PROVE IInv'
  <2>1. /\ id[1] \in Slots /\ id[1] \notin free /\ id = TaskId(id[1]) /\ id[2] = taskVer[id[1]]
        /\ fate[id] = "pending" /\ version[id[1]] = id[2]
    <3>1. fate[id] = "pending"
      BY <1>24, Results DEF Unschedule
    <3> QED
      BY <3>1, Present DEF IInv, VerInv
  <2>s. PICK s \in Slots : s = id[1]
    BY <2>1
  <2>v. PICK v : v = Ver(id[2] + 2)
    OBVIOUS
  <2>0. /\ version' = [version EXCEPT ![s] = v] /\ fate' = [fate EXCEPT ![TaskId(s)] = "removed"]
        /\ UNCHANGED <<taskVer, runTime, free, buckets, shared, stop, timer, callers, stopper, now>>
    BY <1>24, <2>1, <2>s, <2>v DEF Unschedule
  <2>2. s \notin free /\ fate[TaskId(s)] = "pending" /\ version[s] = taskVer[s] /\ id[2] = taskVer[s]
    BY <2>1, <2>s
  <2>3. v \in 0..(VerMod - 1) /\ Pos(v) = Pos(version[s]) + 2
    <3>1. /\ version[s] \in 0..(VerMod - 1) /\ Pos(version[s]) \in Nat
          /\ Owed(s) = 2 /\ Pos(version[s]) + Owed(s) + 2 < VerMod
      BY <2>2, Room DEF Owed
    <3> QED
      BY <2>2, <2>v, <3>1, PosAdd
  <2>4. /\ VerInv' /\ RoomInv' /\ DOMAIN fate' = DOMAIN fate
        /\ \A r \in Slots : TaskId(r)' = TaskId(r) /\ (TaskId(r) = TaskId(s) => r = s)
        /\ \A i \in DOMAIN fate : fate'[i] = IF i = TaskId(s) THEN "removed" ELSE fate[i]
        /\ \A r \in Slots : version'[r] = IF r = s THEN v ELSE version[r]
    <3>1. taskVer' = taskVer /\ free' = free
      BY <2>0
    <3> QED
      BY <2>0, <2>2, <2>3, <3>1, Move
  <2>5. TypeOK'
    <3>1. version' \in [Slots -> 0..(VerMod - 1)]
      BY <1>0, <2>0, <2>3 DEF TypeOK
    <3>2. /\ DOMAIN fate' \subseteq TaskIds
          /\ \A i \in DOMAIN fate' : fate'[i] \in {"pending", "running", "ran", "removed"}
      BY <1>0, <2>4 DEF TypeOK
    <3> QED
      BY <1>0, <2>0, <3>1, <3>2 DEF TypeOK
  <2>6. PlaceInv'
    BY <2>0 DEF IInv, PlaceInv, Being
  <2>7. FateInv'
    <3>0. tpc = "running" => s # task1
      BY <2>2 DEF IInv, FateInv
    <3> SUFFICES ASSUME NEW r \in Slots
                 PROVE  /\ \A i \in DOMAIN fate :
                             i[1] = r /\ (r \in free \/ i # TaskId(r)) =>
                                 fate'[i] \in {"ran", "removed"}
                        /\ r \notin free =>
                             /\ TaskId(r) \in DOMAIN fate
                             /\ IF tpc = "running" /\ r = task1 THEN fate'[TaskId(r)] = "running"
                                ELSE \/ fate'[TaskId(r)] = "pending"
                                     \/ /\ fate'[TaskId(r)] = "removed"
                                        /\ version'[r] = Ver(taskVer[r] + 2)
      BY <2>0, <2>4 DEF FateInv
    <3>1. \A i \in DOMAIN fate : i[1] = r /\ (r \in free \/ i # TaskId(r)) =>
        fate[i] \in {"ran", "removed"}
      BY DEF IInv, FateInv
    <3>2. r \notin free => TaskId(r) \in DOMAIN fate
      BY DEF IInv, FateInv
    <3>3. CASE r = s
      BY <2>v, <2>2, <2>4, <3>0, <3>1, <3>2, <3>3
    <3>4. CASE r # s
      BY <2>4, <3>1, <3>2, <3>4 DEF IInv, FateInv
    <3> QED
      BY <3>3, <3>4
  <2>8. CountInv'
    BY <2>0, <2>4 DEF IInv, CountInv, Inserting
  <2>9. DueInv'
    BY <2>0 DEF IInv, DueInv
  <2> QED
    BY <2>4, <2>5, <2>6, <2>7, <2>8, <2>9 DEF IInv
<1>25. CASE UNCHANGED vars
  <2>1. TypeOK'
    BY <1>0, <1>25 DEF vars, TypeOK
  <2>2. PlaceInv' /\ FateInv' /\ VerInv' /\ RoomInv'
    BY <1>25, Frame DEF vars, IInv, PlaceInv
  <2>3. CountInv' /\ DueInv'
    BY <1>25 DEF vars, IInv, CountInv, DueInv, Inserting
  <2> QED
    BY <2>1, <2>2, <2>3 DEF IInv
<1> QED
  BY <1>1, <1>2, <1>3, <1>4, <1>5, <1>6, <1>7, <1>8, <1>9, <1>10, <1>11, <1>12, <1>13, <1>14,
       <1>15, <1>16, <1>17, <1>18, <1>19, <1>20, <1>21, <1>22, <1>23, <1>24, <1>25
     DEF Next, TimerStep, StopStep, ScheduleStep, BucketScheduleStep

-----------------------------------------------------------------------------
(* What the invariant gives *)

\* The inductive invariant of structs, versions and fates.
LEMMA Invariant == Spec => []IInv
BY InitInv, NextInv, PTL DEF Spec

\* The variables have their types, whatever the callers do and however the version of a
\* struct wraps around: no schedule() returns INVALID_TASK_ID for a task it has linked.
THEOREM TypeCorrect == Spec => []TypeOK
BY Invariant, PTL DEF IInv

\* Nobody is in two places: the count that the property makes.
LEMMA PlacesCounted == IInv => OnePlace
<1> SUFFICES ASSUME IInv PROVE OnePlace
  OBVIOUS
<1> DEFINE P(s) == {p \in {"free", "pulled", "heap", "run"} :
                            \/ p = "free" /\ s \in free
                            \/ p = "pulled" /\ s \in pulled
                            \/ p = "heap" /\ s \in heap
                            \/ p = "run" /\ Being(s)}
           B(s) == {b \in Buckets : s \in tasks[b]}
<1>1. ASSUME NEW s \in Slots PROVE Cardinality(P(s)) + Cardinality(B(s)) = 1
  <2>1. \/ \E b \in Buckets : s \in tasks[b]
        \/ \A b \in Buckets : s \notin tasks[b]
    OBVIOUS
  <2>2. CASE \E b \in Buckets : s \in tasks[b]
    <3>1. PICK b \in Buckets : s \in tasks[b]
      BY <2>2
    <3>2. B(s) = {b} /\ P(s) = {}
      BY <3>1 DEF IInv, PlaceInv
    <3> HIDE DEF B, P
    <3>3. Cardinality(B(s)) = 1 /\ Cardinality(P(s)) = 0
      BY <3>2, FS_Singleton, FS_EmptySet
    <3> QED
      BY <3>3
  <2>3. CASE \A b \in Buckets : s \notin tasks[b]
    <3>1. B(s) = {} /\ \E p : P(s) = {p}
      <4>1. B(s) = {}
        BY <2>3
      <4>2. CASE s \in free
        <5>1. P(s) = {"free"}
          BY <4>2 DEF IInv, PlaceInv
        <5> QED
          BY <4>1, <5>1
      <4>3. CASE s \in pulled
        <5>1. P(s) = {"pulled"}
          BY <4>3 DEF IInv, PlaceInv
        <5> QED
          BY <4>1, <5>1
      <4>4. CASE s \in heap
        <5>1. P(s) = {"heap"}
          BY <4>4 DEF IInv, PlaceInv
        <5> QED
          BY <4>1, <5>1
      <4>5. CASE Being(s)
        <5>1. P(s) = {"run"}
          BY <4>5 DEF IInv, PlaceInv
        <5> QED
          BY <4>1, <5>1
      <4> QED
        BY <2>3, <4>2, <4>3, <4>4, <4>5 DEF IInv, PlaceInv
    <3> HIDE DEF B, P
    <3>2. Cardinality(B(s)) = 0 /\ Cardinality(P(s)) = 1
      BY <3>1, FS_Singleton, FS_EmptySet
    <3> QED
      BY <3>2
  <2> QED
    BY <2>1, <2>2, <2>3
<1>2. tpc = "compare" => task1 \in heap
  BY DEF IInv, PlaceInv
<1> QED
  BY <1>1, <1>2 DEF OnePlace

\* Every task is accounted for: each Task struct is in one place, so that it is returned
\* to the pool once, and unschedule() tells the truth of every TaskId ever issued, for
\* any number of reuses that the version word has room for.
THEOREM AccountedCorrect == Spec => []TasksAccounted
<1>1. IInv => ResultIsFate
  <2> SUFFICES ASSUME IInv, NEW id \in DOMAIN fate
               PROVE  CASE fate[id] = "pending" -> UnscheduleResult(id) = 0
                        [] fate[id] = "running" -> UnscheduleResult(id) = 1
                        [] OTHER -> UnscheduleResult(id) = -1
    BY DEF ResultIsFate
  <2>1. fate[id] \in {"pending", "running", "ran", "removed"}
    BY DEF IInv, TypeOK
  <2> QED
    BY <2>1, Results
<1>2. IInv => TasksAccounted
  BY <1>1, PlacesCounted DEF TasksAccounted
<1> QED
  BY <1>2, Invariant, PTL

\* The step that FateFollows is about.
FateStep ==
    \A id \in DOMAIN fate : fate'[id] # fate[id] =>
           \/ /\ fate[id] = "pending" /\ fate'[id] = "running"
              /\ now >= runTime[id[1]]
           \/ fate[id] = "pending" /\ fate'[id] = "removed"
           \/ fate[id] = "running" /\ fate'[id] = "ran"

\* A task runs at most once, not before its time, and never once unschedule() has
\* returned 0 for it, for any interleaving of schedule(), unschedule() and run().
THEOREM FateCorrect == Spec => FateFollows
<1>1. IInv /\ [Next]_vars => FateStep
  <2> SUFFICES ASSUME IInv, [Next]_vars, NEW id \in DOMAIN fate, fate'[id] # fate[id]
               PROVE  \/ /\ fate[id] = "pending" /\ fate'[id] = "running"
                         /\ now >= runTime[id[1]]
                      \/ fate[id] = "pending" /\ fate'[id] = "removed"
                      \/ fate[id] = "running" /\ fate'[id] = "ran"
    BY DEF FateStep
  <2>1. ASSUME NEW c \in Threads, NEW s \in Slots, NEW b \in Buckets, NEW t \in RunTimes,
               BucketSchedule(c, s, b, t)
        PROVE  FALSE
    <3>1. PICK v : v = IF version[s] = 0 THEN 2 ELSE version[s]
      OBVIOUS
    <3>2. /\ s \in free
          /\ fate' = [i \in DOMAIN fate \cup {<<s, v>>} |->
                          IF i = <<s, v>> THEN "pending" ELSE fate[i]]
      BY <2>1, <3>1 DEF BucketSchedule
    <3>3. id = <<s, v>>
      BY <3>2
    <3>4. fate[id] \in {"ran", "removed"}
      BY <3>2, <3>3 DEF IInv, FateInv
    <3>5. Pos(version[s]) >= Pos(v) + 2
      BY <3>3, <3>4 DEF IInv, VerInv
    <3>6. c \in Inserting
      BY <2>1 DEF BucketSchedule, Inserting
    <3>7. /\ version[s] \in 0..(VerMod - 1) /\ Pos(version[s]) \in Nat
          /\ Pos(version[s]) + 4 < VerMod
      BY <3>2, <3>6, Room, Constants DEF Owed
    <3>8. version[s] = 0 => Pos(Ver(0 + 2)) = Pos(0) + 2 /\ Ver(0 + 2) = 2
      BY <3>7, PosAdd, VerSmall, Constants
    <3> QED
      BY <3>1, <3>5, <3>7, <3>8
  <2>2. ASSUME NEW i \in DOMAIN fate, Unschedule(i)
        PROVE  fate[id] = "pending" /\ fate'[id] = "removed"
    <3>1. fate[i] = "pending"
      BY <2>2, Results DEF Unschedule
    <3> QED
      BY <2>2, <3>1 DEF Unschedule
  <2>3. CASE RunTask
    <3>1. /\ task1 \in Slots /\ task1 \notin free /\ now >= runTime[task1] /\ tpc = "run"
      BY <2>3 DEF RunTask, IInv, PlaceInv, DueInv, Being
    <3>2. /\ version[task1] = taskVer[task1]
          /\ fate' = [fate EXCEPT ![TaskId(task1)] = "running"]
      BY <2>3 DEF RunTask
    <3>3. id = TaskId(task1) /\ id[1] = task1 /\ id[2] = taskVer[task1] /\ fate'[id] = "running"
      BY <3>2 DEF TaskId
    <3>4. fate[id] = "pending" \/ fate[id] = "removed"
      BY <3>1, <3>3 DEF IInv, FateInv
    <3>5. fate[id] = "removed" => Pos(version[task1]) >= Pos(version[task1]) + 2
      BY <3>2, <3>3 DEF IInv, VerInv
    <3>6. Pos(version[task1]) \in Nat
      BY <3>1, Room
    <3> QED
      BY <3>1, <3>3, <3>4, <3>5, <3>6
  <2>4. CASE DeleteTask
    <3>1. task1 \in Slots /\ task1 \notin free /\ tpc = "running"
      BY <2>4 DEF DeleteTask, IInv, PlaceInv, Being
    <3>2. fate[TaskId(task1)] = "running" /\ fate' = [fate EXCEPT ![TaskId(task1)] = "ran"]
      BY <2>4, <3>1 DEF DeleteTask, IInv, FateInv
    <3> QED
      BY <3>2
  <2>5. CASE \/ Start \/ Loop \/ Clear \/ ConsumeTasks \/ SkipBucket
             \/ \E s \in Slots : TryDelete(s) \/ PickTask(s)
             \/ CompareNearest \/ \E t \in RunTimes \cup {Never} : PrepareWait(t)
             \/ FutexWait \/ FutexTimeout \/ Tick \/ StopStep
             \/ \E c \in Threads : \/ Schedule(c) \/ BucketScheduleFails(c)
                                   \/ ScheduleGlobal(c) \/ ScheduleWake(c)
             \/ \E who \in Stops : SetStop(who)
             \/ UNCHANGED vars
    BY <2>5 DEF versions, vars, Start, Loop, Clear, ConsumeTasks, SkipBucket, TryDelete, PickTask,
                CompareNearest, PrepareWait, FutexWait, FutexTimeout, Tick, StopStep, StopSignal,
                StopWake, Join, Schedule, BucketScheduleFails, ScheduleGlobal, ScheduleWake, SetStop
  <2> QED
    BY <2>1, <2>2, <2>3, <2>4, <2>5 DEF Next, TimerStep, ScheduleStep, BucketScheduleStep
<1>2. IInv /\ [Next]_vars => [FateStep]_vars
  BY <1>1
<1>3. [][FateStep]_vars => FateFollows
  BY PTL DEF FateStep, FateFollows
<1> QED
  BY <1>2, <1>3, Invariant, PTL DEF Spec

-----------------------------------------------------------------------------
(* The invariant SleepInv *)

\* The invariant of the sleep holds in the beginning.
LEMMA InitSleep == Init => SleepInv
BY DEF Init, SleepInv, BucketInv, WaitInv, StopInv

\* Steps that leave the buckets and what is announced of them as they are.
LEMMA BucketFrame ==
  ASSUME TypeOK, BucketInv,
         UNCHANGED <<tasks, runTime, taskVer, bucketNearest, published, nearest>>,
         \A c \in Threads : /\ pc'[c] = "global" <=> pc[c] = "global"
                            /\ pc[c] = "global" => call'[c] = call[c],
         \A b \in Buckets : ToPull(b) => ToPull(b)'
  PROVE  BucketInv'
<1>1. \A b \in Buckets : Announcing(b)' <=> Announcing(b)
  BY DEF Announcing
<1>2. \A b \in Buckets : Linking(b)' <=> Linking(b)
  BY DEF Linking, TaskId
<1> QED
  BY <1>1, <1>2 DEF BucketInv

\* Every step of the callers and of the timer thread preserves it.
LEMMA NextSleep == IInv /\ SleepInv /\ [Next]_vars => SleepInv'
<1> SUFFICES ASSUME IInv, SleepInv, [Next]_vars PROVE SleepInv'
  OBVIOUS
<1> USE Constants DEF versions, buckets, shared, timer, callers
<1>0. /\ TypeOK /\ BucketInv /\ WaitInv /\ StopInv
      /\ Never \in Int /\ Times \subseteq Int /\ \A n \in Times : 0 <= n /\ n <= Never
      /\ RunTimes \subseteq Times /\ \A n \in RunTimes : n < Never
  BY DEF IInv, SleepInv, Never, Times
<1>ty. /\ \A b \in Buckets : bucketNearest[b] \in Int
       /\ nearest \in Int /\ nsignals \in Int /\ expected \in Int /\ wakeTime \in Int
       /\ \A s \in Slots : runTime[s] \in Int
  BY <1>0 DEF TypeOK, Times
<1>1. CASE Start
  <2>1. BucketInv'
    BY <1>1, <1>0, BucketFrame DEF Start, ToPull
  <2>2. WaitInv'
    BY <1>1, <1>0 DEF WaitInv, Start
  <2>3. StopInv'
    BY <1>1, <1>0 DEF StopInv, Start
  <2> QED
    BY <2>1, <2>2, <2>3 DEF SleepInv
<1>2. CASE Loop
  <2>1. BucketInv'
    BY <1>2, <1>0, BucketFrame DEF Loop, ToPull
  <2>2. WaitInv'
    BY <1>2, <1>0 DEF WaitInv, Loop
  <2>3. StopInv'
    BY <1>2, <1>0 DEF StopInv, Loop
  <2> QED
    BY <2>1, <2>2, <2>3 DEF SleepInv
<1>3. CASE Clear
  <2>1. BucketInv'
    <3>0. /\ nearest' = Never /\ mustSee' = {b \in Buckets : published[b]} /\ index' = 0
          /\ tpc' = "pull" /\ UNCHANGED <<versions, buckets, callers>>
      BY <1>3 DEF Clear
    <3>1. \A b \in Buckets : /\ Announcing(b)' <=> Announcing(b)
                             /\ Linking(b)' <=> Linking(b)
                             /\ Linking(b) => Announcing(b)
      BY <3>0 DEF Announcing, Linking, TaskId
    <3>2. \A b \in Buckets : published[b] => ToPull(b)'
      BY <3>0 DEF ToPull, Buckets
    <3> QED
      BY <1>0, <3>0, <3>1, <3>2 DEF BucketInv
  <2>2. WaitInv'
    BY <1>3 DEF WaitInv, Clear
  <2>3. StopInv'
    BY <1>3, <1>0 DEF StopInv, Clear
  <2> QED
    BY <2>1, <2>2, <2>3 DEF SleepInv
<1>4. CASE ConsumeTasks
  <2>1. BucketInv'
    <3>0. /\ index \in Buckets /\ index \in Int /\ tpc = "pull" /\ tpc' = "pull"
          /\ tasks' = [tasks EXCEPT ![index] = {}]
          /\ bucketNearest' = [bucketNearest EXCEPT ![index] = Never]
          /\ published' = [published EXCEPT ![index] = FALSE]
          /\ mustSee' = mustSee \ {index} /\ index' = index + 1
          /\ UNCHANGED <<versions, callers, nearest>>
      BY <1>4, <1>0 DEF ConsumeTasks, TypeOK, Buckets
    <3>1. \A b \in Buckets : /\ tasks'[b] = IF b = index THEN {} ELSE tasks[b]
                             /\ bucketNearest'[b] = IF b = index THEN Never ELSE bucketNearest[b]
                             /\ b # index => published'[b] = published[b]
      BY <1>0, <3>0 DEF TypeOK
    <3>2. \A b \in Buckets : b # index => /\ Announcing(b)' <=> Announcing(b)
                                          /\ Linking(b)' <=> Linking(b)
      BY <3>0, <3>1 DEF Announcing, Linking, TaskId
    <3>3. \A b \in Buckets : b # index => (ToPull(b) => ToPull(b)')
      BY <3>0 DEF ToPull, Buckets
    <3> SUFFICES ASSUME NEW b \in Buckets
                 PROVE  /\ \A s \in tasks'[b] : bucketNearest'[b] <= runTime'[s]
                        /\ tasks'[b] = {} => bucketNearest'[b] = Never
                        /\ tasks'[b] # {} => published'[b] \/ Linking(b)'
                        /\ tasks'[b] # {} => nearest' <= bucketNearest'[b] \/ Announcing(b)' \/ ToPull(b)'
      BY DEF BucketInv
    <3>4. CASE b = index
      BY <3>1, <3>4
    <3>5. CASE b # index
      <4>1. /\ tasks'[b] = tasks[b] /\ bucketNearest'[b] = bucketNearest[b] /\ nearest' = nearest
            /\ published'[b] = published[b] /\ runTime' = runTime
        BY <3>0, <3>1, <3>5
      <4>2. /\ Announcing(b)' <=> Announcing(b)
            /\ Linking(b)' <=> Linking(b)
            /\ ToPull(b) => ToPull(b)'
        BY <3>2, <3>3, <3>5
      <4> QED
        BY <1>0, <4>1, <4>2 DEF BucketInv
    <3> QED
      BY <3>4, <3>5
  <2>2. WaitInv'
    BY <1>4 DEF WaitInv, ConsumeTasks
  <2>3. StopInv'
    BY <1>4, <1>0 DEF StopInv, ConsumeTasks
  <2> QED
    BY <2>1, <2>2, <2>3 DEF SleepInv
<1>5. CASE SkipBucket
  <2>1. BucketInv'
    <3>1. \A b \in Buckets : ToPull(b) => ToPull(b)'
      BY <1>5, <1>0 DEF SkipBucket, ToPull, Buckets, TypeOK
    <3> QED
      BY <1>5, <1>0, <3>1, BucketFrame DEF SkipBucket
  <2>2. WaitInv'
    BY <1>5 DEF WaitInv, SkipBucket
  <2>3. StopInv'
    BY <1>5, <1>0 DEF StopInv, SkipBucket
  <2> QED
    BY <2>1, <2>2, <2>3 DEF SleepInv
<1>6. ASSUME NEW s \in Slots, TryDelete(s) PROVE SleepInv'
  <2>1. BucketInv'
    BY <1>6, <1>0, BucketFrame DEF TryDelete, ToPull
  <2>2. WaitInv'
    BY <1>6, <1>0 DEF WaitInv, TryDelete
  <2>3. StopInv'
    BY <1>6, <1>0 DEF StopInv, TryDelete
  <2> QED
    BY <2>1, <2>2, <2>3 DEF SleepInv
<1>7. ASSUME NEW s \in Slots, PickTask(s) PROVE SleepInv'
  <2>1. BucketInv'
    BY <1>7, <1>0, BucketFrame DEF PickTask, ToPull, Buckets
  <2>2. WaitInv'
    BY <1>7, <1>0 DEF WaitInv, PickTask, Buckets
  <2>3. StopInv'
    BY <1>7, <1>0 DEF StopInv, PickTask, Buckets
  <2> QED
    BY <2>1, <2>2, <2>3 DEF SleepInv
<1>8. CASE CompareNearest
  <2>1. BucketInv'
    BY <1>8, <1>0, BucketFrame DEF CompareNearest, ToPull
  <2>2. WaitInv'
    BY <1>8, <1>0 DEF WaitInv, CompareNearest
  <2>3. StopInv'
    BY <1>8, <1>0 DEF StopInv, CompareNearest
  <2> QED
    BY <2>1, <2>2, <2>3 DEF SleepInv
<1>9. CASE RunTask
  <2>1. BucketInv'
    BY <1>9, <1>0, BucketFrame DEF RunTask, ToPull
  <2>2. WaitInv'
    BY <1>9, <1>0 DEF WaitInv, RunTask
  <2>3. StopInv'
    BY <1>9, <1>0 DEF StopInv, RunTask
  <2> QED
    BY <2>1, <2>2, <2>3 DEF SleepInv
<1>10. CASE DeleteTask
  <2>1. BucketInv'
    BY <1>10, <1>0, BucketFrame DEF DeleteTask, ToPull
  <2>2. WaitInv'
    BY <1>10, <1>0 DEF WaitInv, DeleteTask
  <2>3. StopInv'
    BY <1>10, <1>0 DEF StopInv, DeleteTask
  <2> QED
    BY <2>1, <2>2, <2>3 DEF SleepInv
<1>11. ASSUME NEW t \in RunTimes \cup {Never}, PrepareWait(t) PROVE SleepInv'
  <2>0. /\ tpc = "pull" /\ index = NumBuckets /\ t \in Int /\ t <= Never /\ NextRunTime(t)
        /\ \/ /\ t > nearest /\ tpc' = "loop" /\ UNCHANGED <<nearest, wakeTime, expected>>
           \/ /\ t <= nearest /\ tpc' = "wait" /\ nearest' = t /\ wakeTime' = t /\ expected' = nsignals
        /\ UNCHANGED <<versions, buckets, nsignals, stop, index, pulled, heap, task1, mustSee,
                       callers, stopper, now>>
    BY <1>11, <1>0, <1>ty DEF PrepareWait
  <2>1. BucketInv'
    <3>1. \A b \in Buckets : /\ ~ToPull(b) /\ (Announcing(b)' <=> Announcing(b))
                             /\ Linking(b)' <=> Linking(b)
      BY <2>0 DEF ToPull, Announcing, Linking, TaskId, Buckets
    <3>2. \A b \in Buckets : nearest <= bucketNearest[b] => nearest' <= bucketNearest[b]
      BY <1>ty, <2>0
    <3>3. UNCHANGED <<tasks, runTime, bucketNearest, published>>
      BY <2>0
    <3> QED
      BY <1>0, <3>1, <3>2, <3>3 DEF BucketInv
  <2>2. WaitInv'
    <3>1. \A s \in heap : t <= runTime[s]
      BY <1>0, <1>ty, <2>0 DEF NextRunTime, Front, TypeOK
    <3> QED
      BY <1>ty, <2>0, <3>1 DEF WaitInv
  <2>3. StopInv'
    <3>1. t > 0
      BY <1>0, <2>0 DEF NextRunTime, TypeOK, Never
    <3> QED
      BY <1>0, <2>0, <3>1 DEF StopInv
  <2> QED
    BY <2>1, <2>2, <2>3 DEF SleepInv
<1>12. CASE FutexWait
  <2>1. BucketInv'
    BY <1>12, <1>0, BucketFrame DEF FutexWait, ToPull
  <2>2. WaitInv'
    BY <1>12, <1>0 DEF WaitInv, FutexWait
  <2>3. StopInv'
    BY <1>12, <1>0 DEF StopInv, FutexWait
  <2> QED
    BY <2>1, <2>2, <2>3 DEF SleepInv
<1>13. CASE FutexTimeout
  <2>1. BucketInv'
    BY <1>13, <1>0, BucketFrame DEF FutexTimeout, ToPull
  <2>2. WaitInv'
    BY <1>13, <1>0 DEF WaitInv, FutexTimeout
  <2>3. StopInv'
    BY <1>13, <1>0 DEF StopInv, FutexTimeout
  <2> QED
    BY <2>1, <2>2, <2>3 DEF SleepInv
<1>14. CASE Tick
  <2>1. BucketInv'
    BY <1>14, <1>0, BucketFrame DEF Tick, ToPull
  <2>2. WaitInv'
    BY <1>14, <1>0 DEF WaitInv, Tick
  <2>3. StopInv'
    BY <1>14, <1>0 DEF StopInv, Tick
  <2> QED
    BY <2>1, <2>2, <2>3 DEF SleepInv
<1>15. CASE StopSignal
  <2>1. BucketInv'
    <3>1. \A b \in Buckets : /\ 0 <= bucketNearest[b] /\ nearest' = 0
                             /\ Linking(b)' <=> Linking(b)
      BY <1>15, <1>0 DEF StopSignal, TypeOK, Linking, TaskId
    <3> QED
      BY <1>15, <1>0, <3>1 DEF StopSignal, BucketInv
  <2>2. WaitInv'
    BY <1>15, <1>0, <1>ty DEF WaitInv, StopSignal, StopInv
  <2>3. StopInv'
    BY <1>15, <1>0 DEF StopInv, StopSignal
  <2> QED
    BY <2>1, <2>2, <2>3 DEF SleepInv
<1>16. CASE StopWake
  <2>1. BucketInv'
    BY <1>16, <1>0, BucketFrame DEF StopWake, ToPull, FutexWake
  <2>2. WaitInv'
    BY <1>16, <1>0 DEF WaitInv, StopWake, FutexWake
  <2>3. StopInv'
    BY <1>16, <1>0 DEF StopInv, StopWake, FutexWake
  <2> QED
    BY <2>1, <2>2, <2>3 DEF SleepInv
<1>17. CASE Join
  <2>1. BucketInv'
    BY <1>17, <1>0, BucketFrame DEF Join, ToPull
  <2>2. WaitInv'
    BY <1>17, <1>0 DEF WaitInv, Join
  <2>3. StopInv'
    BY <1>17, <1>0 DEF StopInv, Join
  <2> QED
    BY <2>1, <2>2, <2>3 DEF SleepInv
<1>18. ASSUME NEW who \in Stops, SetStop(who) PROVE SleepInv'
  <2>1. BucketInv'
    BY <1>18, <1>0, BucketFrame DEF SetStop, ToPull
  <2>2. WaitInv'
    BY <1>18, <1>0 DEF WaitInv, SetStop
  <2>3. StopInv'
    BY <1>18, <1>0 DEF StopInv, SetStop
  <2> QED
    BY <2>1, <2>2, <2>3 DEF SleepInv
<1>19. ASSUME NEW c \in Threads, Schedule(c) PROVE SleepInv'
  <2>1. BucketInv'
    BY <1>19, <1>0, BucketFrame DEF Schedule, ToPull, Goto
  <2>2. WaitInv'
    BY <1>19, <1>0 DEF WaitInv, Schedule, Goto, TypeOK
  <2>3. StopInv'
    BY <1>19, <1>0 DEF StopInv, Schedule, Goto
  <2> QED
    BY <2>1, <2>2, <2>3 DEF SleepInv
<1>20. ASSUME NEW c \in Threads, BucketScheduleFails(c) PROVE SleepInv'
  <2>1. BucketInv'
    BY <1>20, <1>0, BucketFrame DEF BucketScheduleFails, ToPull, Return, Goto
  <2>2. WaitInv'
    BY <1>20, <1>0 DEF WaitInv, BucketScheduleFails, Return, Goto, TypeOK
  <2>3. StopInv'
    BY <1>20, <1>0 DEF StopInv, BucketScheduleFails, Return, Goto
  <2> QED
    BY <2>1, <2>2, <2>3 DEF SleepInv
<1>21. ASSUME NEW c \in Threads, ScheduleWake(c) PROVE SleepInv'
  <2>1. BucketInv'
    BY <1>21, <1>0, BucketFrame DEF ScheduleWake, ToPull, Return, Goto, FutexWake
  <2>2. WaitInv'
    BY <1>21, <1>0 DEF WaitInv, ScheduleWake, Return, Goto, FutexWake, TypeOK
  <2>3. StopInv'
    BY <1>21, <1>0 DEF StopInv, ScheduleWake, Return, Goto, FutexWake
  <2> QED
    BY <2>1, <2>2, <2>3 DEF SleepInv
<1>22. ASSUME NEW id \in DOMAIN fate, Unschedule(id) PROVE SleepInv'
  <2>1. BucketInv'
    BY <1>22, <1>0, BucketFrame DEF Unschedule, ToPull
  <2>2. WaitInv'
    BY <1>22, <1>0 DEF WaitInv, Unschedule
  <2>3. StopInv'
    BY <1>22, <1>0 DEF StopInv, Unschedule
  <2> QED
    BY <2>1, <2>2, <2>3 DEF SleepInv
<1>23. ASSUME NEW c \in Threads, ScheduleGlobal(c) PROVE SleepInv'
  <2>0. /\ pc[c] = "global" /\ call[c] \in Calls /\ call[c].bucket \in Buckets
        /\ call[c].time \in RunTimes
        /\ \/ /\ call[c].time < nearest /\ nearest' = call[c].time /\ nsignals' = nsignals + 1
              /\ pc' = [pc EXCEPT ![c] = "wake"]
           \/ /\ ~(call[c].time < nearest) /\ nearest' = nearest /\ nsignals' = nsignals
              /\ pc' = [pc EXCEPT ![c] = "idle"]
        /\ published' = [published EXCEPT ![call[c].bucket] =
                            published[call[c].bucket]
                            \/ \E s \in tasks[call[c].bucket] : TaskId(s) = call[c].id]
        /\ UNCHANGED <<versions, tasks, bucketNearest, stop, timer, stopper, now>>
        /\ \A d \in Threads : d # c => call'[d] = call[d]
    BY <1>23, <1>0 DEF ScheduleGlobal, Return, Goto, TypeOK, Calls
  <2>1. \A d \in Threads : d # c => pc'[d] = pc[d] /\ call'[d] = call[d]
    BY <1>0, <2>0 DEF TypeOK
  <2>t. call[c].time \in Int /\ call[c].time >= 0
    BY <1>0, <2>0
  <2>2. nearest' \in Int /\ nearest' <= nearest /\ nearest' <= call[c].time
    BY <1>ty, <2>t, <2>0
  <2>3. BucketInv'
    <3> SUFFICES ASSUME NEW b \in Buckets
                 PROVE  /\ \A s \in tasks[b] : bucketNearest[b] <= runTime[s]
                        /\ tasks[b] = {} => bucketNearest[b] = Never
                        /\ tasks[b] # {} => published'[b] \/ Linking(b)'
                        /\ tasks[b] # {} => nearest' <= bucketNearest[b] \/ Announcing(b)' \/ ToPull(b)'
      BY <2>0 DEF BucketInv
    <3>1. ToPull(b)' <=> ToPull(b)
      BY <2>0 DEF ToPull
    <3>2. Announcing(b) => Announcing(b)' \/ call[c].time = bucketNearest[b]
      BY <2>0, <2>1 DEF Announcing
    <3>3. Linking(b) => \/ Linking(b)'
                        \/ call[c].bucket = b /\ \E s \in tasks[b] : TaskId(s) = call[c].id
      BY <2>0, <2>1 DEF Linking, TaskId
    <3>4. published[b] \/ (call[c].bucket = b /\ \E s \in tasks[b] : TaskId(s) = call[c].id)
              => published'[b]
      BY <1>0, <2>0 DEF TypeOK
    <3>5. nearest <= bucketNearest[b] => nearest' <= bucketNearest[b]
      BY <1>ty, <2>2
    <3>6. call[c].time = bucketNearest[b] => nearest' <= bucketNearest[b]
      BY <2>2
    <3> QED
      BY <1>0, <3>1, <3>2, <3>3, <3>4, <3>5, <3>6 DEF BucketInv
  <2>4. WaitInv'
    <3>1. CASE nsignals' = nsignals + 1 /\ pc' = [pc EXCEPT ![c] = "wake"]
      <4>1. pc'[c] = "wake"
        BY <1>0, <3>1 DEF TypeOK
      <4> QED
        BY <1>0, <1>ty, <2>0, <3>1, <4>1 DEF WaitInv
    <3>2. CASE nearest' = nearest /\ nsignals' = nsignals
      <4>1. \A d \in Threads : pc[d] = "wake" => pc'[d] = "wake"
        BY <2>0, <2>1
      <4> QED
        BY <1>0, <2>0, <3>2, <4>1 DEF WaitInv
    <3> QED
      BY <2>0, <3>1, <3>2
  <2>5. StopInv'
    BY <1>0, <1>ty, <2>t, <2>0 DEF StopInv
  <2> QED
    BY <2>3, <2>4, <2>5 DEF SleepInv
<1>24. ASSUME NEW c \in Threads, NEW s \in Slots, NEW b \in Buckets, NEW t \in RunTimes,
              BucketSchedule(c, s, b, t)
       PROVE  SleepInv'
  <2>v. PICK v : v = IF version[s] = 0 THEN 2 ELSE version[s]
    OBVIOUS
  <2>0. /\ pc[c] = "insert" /\ s \in free
        /\ taskVer' = [taskVer EXCEPT ![s] = v]
        /\ runTime' = [runTime EXCEPT ![s] = t]
        /\ tasks' = [tasks EXCEPT ![b] = tasks[b] \cup {s}]
        /\ bucketNearest' = [bucketNearest EXCEPT ![b] = IF t < bucketNearest[b] THEN t
                                                         ELSE bucketNearest[b]]
        /\ published' = [published EXCEPT ![b] = published[b] \/ c = Callback]
        /\ \/ /\ t < bucketNearest[b]
              /\ pc' = [pc EXCEPT ![c] = "global"]
              /\ call' = [call EXCEPT ![c] = [id |-> <<s, v>>, bucket |-> b, time |-> t]]
           \/ /\ ~(t < bucketNearest[b])
              /\ pc' = [pc EXCEPT ![c] = "idle"] /\ call' = [call EXCEPT ![c] = None]
        /\ UNCHANGED <<shared, stop, timer, stopper, now>>
    BY <1>24, <1>0, <2>v DEF BucketSchedule, Return, Goto, TypeOK
  <2>1. /\ s \notin heap /\ \A d \in Buckets : s \notin tasks[d]
    BY <2>0 DEF IInv, PlaceInv
  <2>2. /\ \A d \in Threads : d # c => pc'[d] = pc[d] /\ call'[d] = call[d]
        /\ \A r \in Slots : r # s => runTime'[r] = runTime[r] /\ TaskId(r)' = TaskId(r)
        /\ runTime'[s] = t /\ TaskId(s)' = <<s, v>>
        /\ \A d \in Buckets : d # b => /\ tasks'[d] = tasks[d] /\ published'[d] = published[d]
                                       /\ bucketNearest'[d] = bucketNearest[d]
        /\ tasks'[b] = tasks[b] \cup {s}
        /\ published[b] => published'[b]
        /\ bucketNearest'[b] = IF t < bucketNearest[b] THEN t ELSE bucketNearest[b]
    BY <1>0, <2>0 DEF TypeOK, TaskId
  <2>3. /\ nearest' = nearest /\ \A d \in Buckets : ToPull(d)' <=> ToPull(d)
        /\ \A d \in Buckets : tasks[d] \subseteq Slots
    BY <1>0, <2>0 DEF ToPull, TypeOK
  <2>4. ASSUME NEW d \in Buckets, bucketNearest'[d] = bucketNearest[d]
        PROVE  (Announcing(d) => Announcing(d)') /\ (Linking(d) => Linking(d)')
    <3>1. \A e \in Threads : pc[e] = "global" => pc'[e] = "global" /\ call'[e] = call[e]
      BY <2>0, <2>2
    <3>2. \A r \in tasks[d] : r \in tasks'[d] /\ TaskId(r)' = TaskId(r)
      BY <2>1, <2>2, <2>3
    <3> QED
      BY <2>4, <3>1, <3>2 DEF Announcing, Linking
  <2>5. BucketInv'
    <3> SUFFICES ASSUME NEW d \in Buckets
                 PROVE  /\ \A r \in tasks'[d] : bucketNearest'[d] <= runTime'[r]
                        /\ tasks'[d] = {} => bucketNearest'[d] = Never
                        /\ tasks'[d] # {} => published'[d] \/ Linking(d)'
                        /\ tasks'[d] # {} => nearest' <= bucketNearest'[d] \/ Announcing(d)' \/ ToPull(d)'
      BY DEF BucketInv
    <3>1. CASE d # b
      <4>1. \A r \in tasks[d] : runTime'[r] = runTime[r]
        BY <2>1, <2>2, <2>3
      <4> QED
        BY <1>0, <2>2, <2>3, <2>4, <3>1, <4>1 DEF BucketInv
    <3>2. CASE d = b /\ t < bucketNearest[b]
      <4>1. /\ pc'[c] = "global" /\ call'[c].bucket = b /\ call'[c].time = t
            /\ call'[c].id = <<s, v>>
        BY <1>0, <2>0, <3>2 DEF TypeOK
      <4>2. Announcing(b)' /\ Linking(b)'
        BY <2>2, <3>2, <4>1 DEF Announcing, Linking
      <4>3. \A r \in tasks'[b] : bucketNearest'[b] <= runTime'[r]
        <5>1. \A r \in tasks[b] : /\ runTime'[r] = runTime[r] /\ bucketNearest[b] <= runTime[r]
                                  /\ runTime[r] \in Int /\ bucketNearest[b] \in Int
          BY <1>0, <1>ty, <2>1, <2>2, <2>3 DEF BucketInv
        <5>2. t \in Int
          BY <1>0
        <5> QED
          BY <2>2, <3>2, <5>1, <5>2
      <4> QED
        BY <2>2, <3>2, <4>2, <4>3
    <3>3. CASE d = b /\ ~(t < bucketNearest[b])
      <4>1. /\ bucketNearest'[b] = bucketNearest[b] /\ tasks[b] # {} /\ t \in Int
            /\ bucketNearest[b] <= t
        BY <1>0, <1>ty, <2>2, <3>3 DEF BucketInv
      <4>2. \A r \in tasks[b] : runTime'[r] = runTime[r]
        BY <2>1, <2>2, <2>3
      <4>3. \A r \in tasks'[b] : bucketNearest'[b] <= runTime'[r]
        BY <1>0, <2>2, <4>1, <4>2 DEF BucketInv
      <4> QED
        BY <1>0, <2>2, <2>3, <2>4, <3>3, <4>1, <4>3 DEF BucketInv
    <3> QED
      BY <3>1, <3>2, <3>3
  <2>6. WaitInv'
    <3>1. \A r \in heap : runTime'[r] = runTime[r]
      BY <1>0, <2>1, <2>2 DEF TypeOK
    <3>2. \A d \in Threads : pc[d] = "wake" => pc'[d] = "wake"
      BY <2>0, <2>2
    <3> QED
      BY <1>0, <2>0, <3>1, <3>2 DEF WaitInv
  <2>7. StopInv'
    BY <1>0, <2>0 DEF StopInv
  <2> QED
    BY <2>5, <2>6, <2>7 DEF SleepInv
<1>25. CASE UNCHANGED vars
  <2>1. BucketInv'
    BY <1>25, <1>0, BucketFrame DEF vars, ToPull
  <2>2. WaitInv' /\ StopInv'
    BY <1>25, <1>0 DEF vars, WaitInv, StopInv
  <2> QED
    BY <2>1, <2>2 DEF SleepInv
<1> QED
  BY <1>1, <1>2, <1>3, <1>4, <1>5, <1>6, <1>7, <1>8, <1>9, <1>10, <1>11, <1>12, <1>13, <1>14,
       <1>15, <1>16, <1>17, <1>18, <1>19, <1>20, <1>21, <1>22, <1>23, <1>24, <1>25
     DEF Next, TimerStep, StopStep, ScheduleStep, BucketScheduleStep

\* The inductive invariant of the sleep of the timer thread.
LEMMA SleepInvariant == Spec => [](IInv /\ SleepInv)
<1>1. Init => IInv /\ SleepInv
  BY InitInv, InitSleep
<1>2. IInv /\ SleepInv /\ [Next]_vars => (IInv /\ SleepInv)'
  BY NextInv, NextSleep
<1> QED
  BY <1>1, <1>2, PTL DEF Spec

\* Nothing is overlooked: a bucket with tasks is known to the timer thread, will be
\* emptied in this round or is being announced; asleep, the timer thread wakes up in time
\* for every task or is about to be woken; and it does not sleep on a stop that a task
\* asked for.
THEOREM OverlookedCorrect == Spec => []NothingOverlooked
<1>1. IInv /\ SleepInv => NothingOverlooked
  <2> SUFFICES ASSUME IInv, SleepInv PROVE NothingOverlooked
    OBVIOUS
  <2>1. BucketsKnown
    BY DEF SleepInv, BucketInv, BucketsKnown
  <2>2. NoMissedWakeup
    <3> SUFFICES ASSUME tpc = "asleep", NEW s \in heap \cup UNION {tasks[b] : b \in Buckets},
                        stopper # "wake", \A c \in Threads : pc[c] \notin {"global", "wake"}
                 PROVE  wakeTime <= runTime[s]
      BY DEF NoMissedWakeup
    <3>1. nsignals = expected /\ nearest = wakeTime /\ \A r \in heap : wakeTime <= runTime[r]
      BY DEF SleepInv, WaitInv
    <3>2. ASSUME NEW b \in Buckets, s \in tasks[b] PROVE wakeTime <= runTime[s]
      <4>1. ~Announcing(b) /\ ~ToPull(b)
        BY DEF Announcing, ToPull
      <4>2. nearest <= bucketNearest[b] /\ bucketNearest[b] <= runTime[s]
        BY <3>2, <4>1 DEF SleepInv, BucketInv
      <4>3. nearest \in Int /\ bucketNearest[b] \in Int /\ runTime[s] \in Int
        BY <3>2, Constants DEF IInv, TypeOK, Times, Never
      <4> QED
        BY <3>1, <4>2, <4>3
    <3> QED
      BY <3>1, <3>2
  <2>3. StopInTaskNoticed
    BY DEF SleepInv, StopInv, StopInTaskNoticed
  <2> QED
    BY <2>1, <2>2, <2>3 DEF NothingOverlooked
<1> QED
  BY <1>1, SleepInvariant, PTL

\* The step that EarliestFirst is about.
EarliestStep ==
    tpc = "compare" /\ tpc' = "run" =>
        \A b \in Buckets : \A s \in tasks[b] :
            runTime[s] < runTime[task1] => Announcing(b)

\* The timer thread runs a task only if no earlier one is in a bucket, except one that is
\* still being announced: the comparison with _nearest_run_time finds all the others.
THEOREM EarliestCorrect == Spec => EarliestFirst
<1>1. IInv /\ SleepInv /\ [Next]_vars => EarliestStep
  <2> SUFFICES ASSUME IInv, SleepInv, [Next]_vars, tpc = "compare", tpc' = "run",
                      NEW b \in Buckets, NEW s \in tasks[b], runTime[s] < runTime[task1]
               PROVE  Announcing(b)
    BY DEF EarliestStep
  <2>1. ~(runTime[task1] > nearest)
    BY DEF vars, timer, versions, Next, TimerStep, StopStep, ScheduleStep, BucketScheduleStep,
         Start,
           Loop, Clear, ConsumeTasks, SkipBucket, TryDelete, PickTask, CompareNearest, RunTask,
           DeleteTask, PrepareWait, FutexWait, FutexTimeout, FutexWake, Tick, StopSignal, StopWake,
           Join, Schedule, BucketSchedule, BucketScheduleFails, ScheduleGlobal, ScheduleWake,
           Unschedule, SetStop
  <2>2. task1 \in Slots /\ s \in Slots
    BY DEF IInv, PlaceInv, TypeOK
  <2>3. /\ nearest \in Int /\ bucketNearest[b] \in Int /\ runTime[s] \in Int
        /\ runTime[task1] \in Int
    BY <2>2, Constants DEF IInv, TypeOK, Times, Never
  <2>4. bucketNearest[b] <= runTime[s] /\ (nearest <= bucketNearest[b] \/ Announcing(b) \/ ToPull(b))
    BY DEF SleepInv, BucketInv
  <2>5. ~ToPull(b)
    BY DEF ToPull
  <2> QED
    BY <2>1, <2>3, <2>4, <2>5
<1>2. IInv /\ SleepInv /\ [Next]_vars => [EarliestStep]_vars
  BY <1>1
<1>3. [][EarliestStep]_vars => EarliestFirst
  BY PTL DEF EarliestStep, EarliestFirst
<1> QED
  BY <1>2, <1>3, SleepInvariant, PTL DEF Spec
=============================================================================
