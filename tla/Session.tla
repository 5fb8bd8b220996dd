------------------------------- MODULE Session -------------------------------
(***************************************************************************)
(* fiber_session_t (src/eabase/fiber/session.cc): a versioned identifier   *)
(* of a pooled object that can be locked, sent errors, joined and          *)
(* destroyed, "without ABA issues" (session.h:27).                         *)
(*                                                                         *)
(* One slot of the resource pool, used by one incarnation after another.   *)
(* Each section under Id::mutex is one step; creation does not take the    *)
(* mutex, and its stores are steps of their own.  butex_wait, butex_wake   *)
(* and butex_wake_all are those of module Butex, as their callers see      *)
(* them: compare and queue is one step, an interrupted waiter leaves the   *)
(* queue.                                                                  *)
(* A thread that holds the lock runs user code (or on_error) that obeys    *)
(* session.h: only the holder unlocks, destroys or calls about_to_destroy. *)
(***************************************************************************)
EXTENDS Naturals, SequencesExt

CONSTANTS Threads,
          VerMod,       \* versions are integers modulo VerMod (2^32 in the code)
          MaxRange,     \* ID_MAX_RANGE (1024 in the code)
          FirstVer,     \* value of the slot's butex before the first creation
          MaxCreates,   \* bound on the number of incarnations
          MaxPending,   \* bound on the number of queued errors
          Ops           \* the functions in use

ASSUME VersionAssumption == /\ VerMod \in Nat /\ MaxRange \in Nat \ {0}
                            /\ FirstVer \in 0..(VerMod - 1)
                            /\ MaxRange + 3 < VerMod
ASSUME BoundsAssumption == MaxCreates \in Nat /\ MaxPending \in Nat
ASSUME OpsAssumption ==
    Ops \subseteq {"trylock", "error", "about_to_destroy", "cancel", "join", "reset_range"}

VARIABLES firstVer, lockedVer,  \* Id::first_ver, Id::locked_ver
          butex, joinButex,     \* *Id::butex, *Id::join_butex
          pending,              \* Id::pending_q: the ids of the queued errors
          lockQueue, joinQueue, \* the threads queued on the two butexes
          pooled,               \* how often the slot is in the resource pool
          creates,              \* number of incarnations so far
          issued,               \* identifiers (versions) ever given to users
          pc, id, expect,       \* per thread: next step, its identifier, the expected
                                \* value of its butex_wait or the range it creates
          stranded,             \* auxiliary: a waiter has been left behind, by unlock
                                \* after about_to_destroy, a growing range or cancel
          intruded              \* auxiliary: a call with an old identifier has passed
                                \* has_version() while the slot was created anew

vars == <<firstVer, lockedVer, butex, joinButex, pending, lockQueue, joinQueue,
          pooled, creates, issued, pc, id, expect, stranded, intruded>>
slotVars == <<firstVer, lockedVer, butex, joinButex, pending, pooled, creates, issued,
              stranded>>
verVars == <<firstVer, lockedVer, joinButex, pooled, creates, issued, stranded>>
queues == <<lockQueue, joinQueue>>

Ver(n) == n % VerMod
ContendedVer == Ver(lockedVer + 1)
UnlockableVer == Ver(lockedVer + 2)
EndVer == Ver(lockedVer + 3)
HasVersion(v) == v >= firstVer /\ v < lockedVer

Init == /\ firstVer = FirstVer /\ lockedVer = FirstVer
        /\ butex = FirstVer /\ joinButex = FirstVer
        /\ pending = << >> /\ lockQueue = << >> /\ joinQueue = << >>
        /\ pooled = 1 /\ creates = 0 /\ issued = {}
        /\ pc = [t \in Threads |-> "idle"]
        /\ id = [t \in Threads |-> 0]
        /\ expect = [t \in Threads |-> 0]
        /\ stranded = FALSE /\ intruded = FALSE

Goto(t, l) == pc' = [pc EXCEPT ![t] = l]
\* A return resets the thread's locals.
Return(t) == /\ Goto(t, "idle")
             /\ id' = [id EXCEPT ![t] = 0]
             /\ expect' = [expect EXCEPT ![t] = 0]

\* Mutant: the overflow check forgets unlockable_ver.
StartVer_OffByOne == IF butex = 0 \/ Ver(butex + MaxRange + 1) < butex THEN 1 ELSE butex

\* The version a new incarnation starts from: 0 is skipped, and a version whose
\* range could overflow restarts at 1.
StartVer == IF butex = 0 \/ Ver(butex + MaxRange + 2) < butex THEN 1 ELSE butex

(* id_create_impl, id_create_ranged_impl: the stores, in program order and  *)
(* without Id::mutex.  Every one reads *butex again.                        *)

CreateLabels == {"createJoin", "createFirst", "createLocked", "createId"}
Creators == {t \in Threads : pc[t] \in CreateLabels}

\* get_resource, and *butex
CreateBegin(t, range) ==
    /\ pc[t] = "idle"
    /\ pooled > 0 /\ pooled' = pooled - 1
    /\ creates < MaxCreates /\ creates' = creates + 1
    /\ butex' = StartVer
    /\ expect' = [expect EXCEPT ![t] = range]
    /\ Goto(t, "createJoin")
    /\ UNCHANGED <<firstVer, lockedVer, joinButex, pending, issued, queues, id, stranded, intruded>>

CreateJoin(t) ==
    /\ pc[t] = "createJoin"
    /\ joinButex' = butex
    /\ Goto(t, "createFirst")
    /\ UNCHANGED <<firstVer, lockedVer, butex, pending, pooled, creates, issued, queues, id, expect,
                   stranded, intruded>>

\* After a restart at 1 locked_ver is still the end of the last incarnation, and
\* has_version() is true of all identifiers below it.
CreateFirst(t) ==
    /\ pc[t] = "createFirst"
    /\ firstVer' = butex
    /\ Goto(t, "createLocked")
    /\ UNCHANGED <<lockedVer, butex, joinButex, pending, pooled, creates, issued, queues, id,
                   expect, stranded, intruded>>

CreateLocked(t) ==
    /\ pc[t] = "createLocked"
    /\ lockedVer' = Ver(butex + expect[t])
    /\ Goto(t, "createId")
    /\ UNCHANGED <<firstVer, butex, joinButex, pending, pooled, creates, issued, queues, id, expect,
                   stranded, intruded>>

\* make_id: the user gets the identifiers of the range.
CreateId(t) ==
    /\ pc[t] = "createId"
    /\ issued' = issued \cup {Ver(butex + i) : i \in 0..(expect[t] - 1)}
    /\ Return(t)
    /\ UNCHANGED <<firstVer, lockedVer, butex, joinButex, pending, pooled, creates, queues,
                   stranded, intruded>>

\* A call passes the test of has_version(v).
Addressed(v) == /\ HasVersion(v)
                /\ intruded' = (intruded \/ Creators # {})

-----------------------------------------------------------------------------
(* fiber_session_lock_and_reset_range_verbose *)

LockCall(t, v) ==
    /\ pc[t] = "idle"
    /\ id' = [id EXCEPT ![t] = v]
    /\ Goto(t, "lock")
    /\ UNCHANGED <<slotVars, queues, expect, intruded>>

\* The label tells whether the caller has waited before (ever_contended).
LockLabels == {"lock", "relock"}

\* Mutant: a locker that waited takes whatever incarnation it finds.
LockAcquire_AnyIncarnation(t, range) ==
    /\ pc[t] \in LockLabels
    /\ firstVer < lockedVer /\ (pc[t] = "lock" => HasVersion(id[t]))
    /\ butex = firstVer /\ UNCHANGED intruded
    /\ butex' = IF pc[t] = "relock" THEN ContendedVer ELSE lockedVer
    /\ Goto(t, "holding")
    /\ UNCHANGED <<verVars, pending, queues, id, expect>>

\* Mutant: a locker that waited locks as if it had not (ever_contended is lost).
LockAcquire_ForgetContended(t, range) ==
    /\ pc[t] \in LockLabels
    /\ Addressed(id[t])
    /\ butex = firstVer
    /\ butex' = lockedVer
    /\ Goto(t, "holding")
    /\ UNCHANGED <<verVars, pending, queues, id, expect>>

LockAcquire(t, range) ==
    /\ pc[t] \in LockLabels
    /\ Addressed(id[t])
    /\ butex = firstVer
    /\ lockedVer' = IF range = 0 \/ range + firstVer <= lockedVer
                    THEN lockedVer ELSE Ver(firstVer + range)
    /\ butex' = IF pc[t] = "relock" THEN Ver(lockedVer' + 1) ELSE lockedVer'
    /\ issued' = issued \cup firstVer..(lockedVer' - 1)
    /\ Goto(t, "holding")
    /\ UNCHANGED <<firstVer, joinButex, pending, pooled, creates, queues, id, expect, stranded>>

LockContend(t) ==
    /\ pc[t] \in LockLabels
    /\ Addressed(id[t])
    /\ butex \notin {firstVer, UnlockableVer}
    /\ butex' = ContendedVer
    /\ expect' = [expect EXCEPT ![t] = ContendedVer]
    /\ Goto(t, "lockWait")
    /\ UNCHANGED <<verVars, pending, queues, id>>

\* EPERM after about_to_destroy, EINVAL for a stale id.
LockFail(t) ==
    /\ pc[t] \in LockLabels
    /\ HasVersion(id[t]) => butex = UnlockableVer /\ butex # firstVer
    /\ Return(t)
    /\ UNCHANGED <<slotVars, queues, intruded>>

\* butex_wait(butex, expected_ver): queue, or EWOULDBLOCK.  When the range has grown
\* since the caller marked the word, its expected_ver may be the new locked_ver.
LockWait(t) ==
    /\ pc[t] = "lockWait"
    /\ IF butex = expect[t]
       THEN lockQueue' = Append(lockQueue, t) /\ Goto(t, "lockBlocked")
       ELSE Goto(t, "relock") /\ UNCHANGED lockQueue
    /\ stranded' = (stranded \/ (butex = expect[t] /\ expect[t] # ContendedVer))
    /\ UNCHANGED <<firstVer, lockedVer, butex, joinButex, pending, pooled, creates, issued,
                   joinQueue, id, expect, intruded>>

\* butex_wait fails with EINTR.
LockInterrupted(t) ==
    /\ pc[t] = "lockBlocked"
    /\ lockQueue' = RemoveFirst(lockQueue, t)
    /\ Goto(t, "relock")
    /\ UNCHANGED <<slotVars, joinQueue, id, expect, intruded>>

\* Mutant: trylock only looks at the version.
TryLock_NoBusy(t, v) ==
    /\ pc[t] = "idle"
    /\ Addressed(v)
    /\ butex' = lockedVer
    /\ id' = [id EXCEPT ![t] = v]
    /\ Goto(t, "holding")
    /\ UNCHANGED <<verVars, pending, queues, expect>>

\* fiber_session_trylock
TryLock(t, v) ==
    /\ pc[t] = "idle"
    /\ Addressed(v) /\ butex = firstVer
    /\ butex' = lockedVer
    /\ id' = [id EXCEPT ![t] = v]
    /\ Goto(t, "holding")
    /\ UNCHANGED <<verVars, pending, queues, expect>>

-----------------------------------------------------------------------------
(* fiber_session_error2_verbose *)

\* Not locked: lock it and run on_error.
ErrorRun(t, v) ==
    /\ pc[t] = "idle"
    /\ Addressed(v) /\ butex = firstVer
    /\ butex' = lockedVer
    /\ id' = [id EXCEPT ![t] = v]
    /\ Goto(t, "holding")
    /\ UNCHANGED <<verVars, pending, queues, expect>>

\* Mutant: the queued error remembers the word instead of the identifier.
ErrorPend_KeepsWord(t, v) ==
    /\ pc[t] = "idle"
    /\ Addressed(v) /\ butex # firstVer
    /\ Len(pending) < MaxPending
    /\ pending' = Append(pending, butex)
    /\ UNCHANGED <<verVars, butex, queues, pc, id, expect>>

\* Locked: leave the error to the holder.
ErrorPend(t, v) ==
    /\ pc[t] = "idle"
    /\ Addressed(v) /\ butex # firstVer
    /\ Len(pending) < MaxPending
    /\ pending' = Append(pending, v)
    /\ UNCHANGED <<verVars, butex, queues, pc, id, expect>>

-----------------------------------------------------------------------------
(* The holder: fiber_session_unlock, _unlock_and_destroy, _about_to_destroy *)

\* unlock with pending errors: still locked, run on_error for the first one.
UnlockToError(t) ==
    /\ pc[t] = "holding"
    /\ Addressed(id[t]) /\ butex # firstVer
    /\ pending # << >>
    /\ id' = [id EXCEPT ![t] = Head(pending)]
    /\ pending' = Tail(pending)
    /\ UNCHANGED <<verVars, butex, queues, pc, expect>>

\* Mutant: unlock wakes nobody.
Unlock_NoWake(t) ==
    /\ pc[t] = "holding"
    /\ Addressed(id[t]) /\ butex # firstVer
    /\ pending = << >>
    /\ butex' = firstVer
    /\ Return(t)
    /\ UNCHANGED <<verVars, pending, queues>>

Unlock(t) ==
    /\ pc[t] = "holding"
    /\ Addressed(id[t]) /\ butex # firstVer
    /\ pending = << >>
    /\ butex' = firstVer
    /\ IF butex = ContendedVer
       THEN Goto(t, "wakeOne") /\ UNCHANGED <<id, expect>>
       ELSE Return(t)
    /\ stranded' = (stranded \/ (butex = UnlockableVer /\ lockQueue # << >>))
    /\ UNCHANGED <<firstVer, lockedVer, joinButex, pooled, creates, issued, pending, queues>>

\* butex_wake(butex)
WakeOne(t) ==
    /\ pc[t] = "wakeOne"
    /\ lockQueue' = IF lockQueue = << >> THEN lockQueue ELSE Tail(lockQueue)
    /\ pc' = [u \in Threads |->
                CASE u = t -> "idle"
                  [] lockQueue # << >> /\ u = Head(lockQueue) -> "relock"
                  [] OTHER -> pc[u]]
    /\ id' = [id EXCEPT ![t] = 0]
    /\ UNCHANGED <<slotVars, joinQueue, expect, intruded>>

AboutToDestroy(t) ==
    /\ pc[t] = "holding"
    /\ Addressed(id[t]) /\ butex # firstVer
    /\ butex' = UnlockableVer
    /\ Goto(t, IF butex = ContendedVer THEN "wakeLockers" ELSE "holding")
    /\ UNCHANGED <<verVars, pending, queues, id, expect>>

\* butex_wake_except(butex, 0): about_to_destroy goes on holding, destroy goes on
\* to the joiners.
WakeLockers(t) ==
    /\ pc[t] \in {"wakeLockers", "destroyWakeLockers"}
    /\ lockQueue' = << >>
    /\ pc' = [u \in Threads |->
                CASE u = t -> IF pc[t] = "wakeLockers" THEN "holding" ELSE "destroyWakeJoiners"
                  [] u \in ToSet(lockQueue) -> "relock"
                  [] OTHER -> pc[u]]
    /\ UNCHANGED <<slotVars, joinQueue, id, expect, intruded>>

\* Mutant: the pending errors are not cleared.
UnlockAndDestroy_KeepPending(t) ==
    /\ pc[t] = "holding"
    /\ Addressed(id[t]) /\ butex # firstVer
    /\ butex' = EndVer /\ joinButex' = EndVer
    /\ firstVer' = EndVer /\ lockedVer' = EndVer
    /\ Goto(t, "destroyWakeLockers")
    /\ UNCHANGED <<pending, pooled, creates, issued, queues, id, expect, stranded>>

\* Mutant: join_butex is woken but not changed.
UnlockAndDestroy_KeepJoin(t) ==
    /\ pc[t] = "holding"
    /\ Addressed(id[t]) /\ butex # firstVer
    /\ butex' = EndVer
    /\ firstVer' = EndVer /\ lockedVer' = EndVer
    /\ pending' = << >>
    /\ Goto(t, "destroyWakeLockers")
    /\ UNCHANGED <<joinButex, pooled, creates, issued, queues, id, expect, stranded>>

UnlockAndDestroy(t) ==
    /\ pc[t] = "holding"
    /\ Addressed(id[t]) /\ butex # firstVer
    /\ butex' = EndVer /\ joinButex' = EndVer
    /\ firstVer' = EndVer /\ lockedVer' = EndVer
    /\ pending' = << >>
    /\ Goto(t, "destroyWakeLockers")
    /\ UNCHANGED <<pooled, creates, issued, queues, id, expect, stranded>>

DestroyWakeJoiners(t) ==
    /\ pc[t] = "destroyWakeJoiners"
    /\ joinQueue' = << >>
    /\ pc' = [u \in Threads |->
                CASE u = t -> "destroyReturn"
                  [] u \in ToSet(joinQueue) -> "join"
                  [] OTHER -> pc[u]]
    /\ UNCHANGED <<slotVars, lockQueue, id, expect, intruded>>

DestroyReturn(t) ==
    /\ pc[t] = "destroyReturn"
    /\ pooled' = pooled + 1
    /\ Return(t)
    /\ UNCHANGED <<firstVer, lockedVer, butex, joinButex, pending, creates, issued, queues,
                   stranded, intruded>>

\* fiber_session_cancel
Cancel(t, v) ==
    /\ pc[t] = "idle"
    /\ Addressed(v) /\ butex = firstVer
    /\ butex' = EndVer
    /\ firstVer' = EndVer /\ lockedVer' = EndVer
    /\ pooled' = pooled + 1
    /\ stranded' = (stranded \/ lockQueue # << >>
                    \/ \E u \in Threads :
                           pc[u] \in {"joinWait", "joinBlocked"} /\ HasVersion(id[u]))
    /\ UNCHANGED <<joinButex, pending, creates, issued, queues, pc, id, expect>>

-----------------------------------------------------------------------------
(* fiber_session_join *)

JoinCall(t, v) ==
    /\ pc[t] = "idle"
    /\ id' = [id EXCEPT ![t] = v]
    /\ Goto(t, "join")
    /\ UNCHANGED <<slotVars, queues, expect, intruded>>

JoinCheck(t) ==
    /\ pc[t] = "join"
    /\ IF HasVersion(id[t])
       THEN /\ Addressed(id[t])
            /\ expect' = [expect EXCEPT ![t] = joinButex]
            /\ Goto(t, "joinWait")
            /\ UNCHANGED id
       ELSE Return(t) /\ UNCHANGED intruded
    /\ UNCHANGED <<slotVars, queues>>

JoinWait(t) ==
    /\ pc[t] = "joinWait"
    /\ IF joinButex = expect[t]
       THEN joinQueue' = Append(joinQueue, t) /\ Goto(t, "joinBlocked")
       ELSE Goto(t, "join") /\ UNCHANGED joinQueue
    /\ UNCHANGED <<slotVars, lockQueue, id, expect, intruded>>

-----------------------------------------------------------------------------
LockStep(t) == \/ \E r \in {0} \cup (IF "reset_range" \in Ops THEN 1..MaxRange ELSE {}) :
                      LockAcquire(t, r)
               \/ LockContend(t) \/ LockFail(t) \/ LockWait(t)
CreateStep(t) == CreateJoin(t) \/ CreateFirst(t) \/ CreateLocked(t) \/ CreateId(t)
JoinStep(t) == JoinCheck(t) \/ JoinWait(t)
WakeStep(t) == WakeOne(t) \/ WakeLockers(t) \/ DestroyWakeJoiners(t) \/ DestroyReturn(t)
Release(t) == UnlockToError(t) \/ Unlock(t) \/ UnlockAndDestroy(t)

Call(t, v) ==
    \/ LockCall(t, v)
    \/ "trylock" \in Ops /\ TryLock(t, v)
    \/ "error" \in Ops /\ (ErrorRun(t, v) \/ ErrorPend(t, v))
    \/ "cancel" \in Ops /\ Cancel(t, v)
    \/ "join" \in Ops /\ JoinCall(t, v)

Next == \E t \in Threads :
           \/ \E range \in 1..MaxRange : CreateBegin(t, range)
           \/ \E v \in issued : Call(t, v)
           \/ CreateStep(t) \/ LockStep(t) \/ LockInterrupted(t) \/ JoinStep(t)
           \/ WakeStep(t) \/ Release(t)
           \/ "about_to_destroy" \in Ops /\ AboutToDestroy(t)

Spec == Init /\ [][Next]_vars

-----------------------------------------------------------------------------
Labels == {"idle", "lock", "relock", "lockWait", "lockBlocked", "holding", "wakeOne",
           "wakeLockers", "destroyWakeLockers", "destroyWakeJoiners", "destroyReturn",
           "join", "joinWait", "joinBlocked"} \cup CreateLabels

\* The variables have their types; every pending error belongs to an identifier that
\* was given out (id_create_ranged_impl, fiber_session_error2_verbose).
TypeOK == /\ {firstVer, lockedVer, butex, joinButex} \subseteq 0..(VerMod - 1)
          /\ pending \in Seq(issued)
          /\ lockQueue \in Seq(Threads) /\ joinQueue \in Seq(Threads)
          /\ pooled \in Nat /\ creates \in 0..MaxCreates
          /\ issued \subseteq 0..(VerMod - 1)
          /\ pc \in [Threads -> Labels]
          /\ id \in [Threads -> {0} \cup issued]
          /\ expect \in [Threads -> 0..(VerMod - 1)]
          /\ stranded \in BOOLEAN /\ intruded \in BOOLEAN

Holders == {t \in Threads : pc[t] \in {"holding", "wakeLockers"}}

\* The data of a session is used exclusively: lock, trylock and the on_error of
\* two threads never overlap, and the word says "locked" exactly while somebody
\* holds the session.
MutualExclusion ==
    /\ Cardinality(Holders) <= 1
    /\ (Holders # {}) <=> (firstVer < lockedVer /\ butex # firstVer)

\* No ABA: whoever holds the session got there with an identifier of the current
\* incarnation, also when the slot was destroyed and reused while it waited.
HolderIsCurrent == \A t \in Holders : HasVersion(id[t])

\* A session is held by one thread, and by one that means this session.  Not claimed
\* once a call with an old identifier has got into a slot whose versions restart at 1,
\* between the stores of first_ver and locked_ver (see intruded).
HeldRightly == ~intruded => MutualExclusion /\ HolderIsCurrent

\* "No ABA" (session.h:27): no call with an old identifier gets into a slot while it is
\* created anew.
NoIntruder == ~intruded

\* An error is queued only while somebody is there to deliver it, so none is
\* stranded in an unlocked session nor carried over to the next incarnation
\* (CHECK(meta->pending_q.empty()), session.cc:329).
ErrorsHaveHolder == pending # << >> => Holders # {}

\* The five meanings of the butex word stay apart ("avoid overflow to make
\* comparisons simpler", session.cc:333): the versions of a live session never
\* wrap around, and the locked, contended and about-to-destroy words are never
\* an identifier nor 0, which no identifier is.  A session is live once it is created;
\* not claimed once an old identifier has got in (see intruded).
VersionsOrdered ==
    ~intruded /\ pooled = 0 /\ Creators = {} /\ firstVer < lockedVer =>
        /\ 0 < firstVer /\ 0 \notin issued
        /\ lockedVer < ContendedVer /\ ContendedVer < UnlockableVer
        /\ butex \in {firstVer, lockedVer, ContendedVer, UnlockableVer}

\* No lost wakeup: a locker is queued only while somebody is bound to wake it - the
\* word is contended, or about to be destroyed or unlocked by its holder, or a waker
\* or a woken locker is on its way.  Not claimed once
\* the code has left a waiter behind in one of the known ways (see stranded).
LockersHaveWaker ==
    lockQueue # << >> /\ ~stranded =>
        \/ firstVer < lockedVer /\ butex \in {ContendedVer, UnlockableVer}
        \/ \E t \in Threads : pc[t] \in {"wakeOne", "wakeLockers", "destroyWakeLockers"}
        \/ \E t \in Threads : pc[t] \in {"relock", "lockWait"} /\ HasVersion(id[t])

\* "Wait until `id' being destroyed" (session.h:56): a joiner is queued only while
\* its session lives, or while its destroyer has not yet woken the joiners.
JoinersHaveWaker ==
    ~stranded => \A t \in ToSet(joinQueue) :
        \/ HasVersion(id[t])
        \/ \E u \in Threads : pc[u] \in {"destroyWakeLockers", "destroyWakeJoiners"}

\* Nobody waits for what will not come: every queued error has a thread that will
\* deliver it, every locker one that will wake it, every joiner one that will
\* destroy its session.  Not claimed once an old identifier has got in (see intruded).
NobodyForgotten == ~intruded =>
    ErrorsHaveHolder /\ LockersHaveWaker /\ JoinersHaveWaker
=============================================================================
