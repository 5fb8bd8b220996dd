------------------------------ MODULE MutexCond ------------------------------
(***************************************************************************)
(* fiber_mutex_t and fiber_cond_t of src/eabase/fiber (mutex.cc,           *)
(* condition_variable.cc), used the way they are meant to be used: a       *)
(* consumer waits under the mutex until there are items, a producer adds   *)
(* one under the mutex and signals or broadcasts then or later.            *)
(*                                                                         *)
(* The two words are butexes.  A butex is its queue of waiters here (its   *)
(* detail is module Butex): butex_wait compares and queues in one step,    *)
(* butex_wake and butex_requeue take waiters off the queue in one step,    *)
(* and a timeout or an interruption takes one off before they do.          *)
(***************************************************************************)
EXTENDS Integers, Sequences, FiniteSets, SequencesExt

CONSTANTS Fibers, Pthreads,  \* threads that use the mutex
          MaxCalls,          \* bound on the calls of lock
          MaxBreaks          \* bound on the timeouts and interruptions

Threads == Fibers \cup Pthreads

ASSUME BoundsAssumption == MaxCalls \in Nat /\ MaxBreaks \in Nat
ASSUME ThreadsAssumption == IsFiniteSet(Fibers) /\ IsFiniteSet(Pthreads)

VARIABLES word,   \* the mutex: "free", FIBER_MUTEX_LOCKED or FIBER_MUTEX_CONTENDED
          mq, cq, \* waiters of the mutex's butex and of the condition's
          seq,    \* *cond.seq
          bound,  \* cond.m is the mutex, and not NULL
          pc,     \* per thread: next step
          timed,  \* per thread: the wait has an abstime
          woken,  \* per thread: a wake took it off the queue
          next,   \* per thread: where to go after the wake of unlock, signal or broadcast
          exp,    \* per thread: expected_seq
          job,    \* per thread: what it holds the mutex for
          owes,   \* per thread: it has added an item and not signalled yet
          items, calls, breaks,
          lost    \* auxiliary: a pthread took a wake and reported ETIMEDOUT

threadVars == <<timed, woken, exp, job, owes>>
vars == <<word, mq, cq, seq, bound, pc, threadVars, next, items, calls, breaks, lost>>

Init == /\ word = "free" /\ mq = << >> /\ cq = << >> /\ seq = 0 /\ bound = FALSE
        /\ pc = [t \in Threads |-> "idle"] /\ next = [t \in Threads |-> "idle"]
        /\ timed = [t \in Threads |-> FALSE] /\ woken = [t \in Threads |-> FALSE]
        /\ exp = [t \in Threads |-> 0] /\ job = [t \in Threads |-> "none"]
        /\ owes = [t \in Threads |-> FALSE]
        /\ items = 0 /\ calls = 0 /\ breaks = 0 /\ lost = FALSE

Goto(t, l) == pc' = [pc EXCEPT ![t] = l]
Return(t) == Goto(t, next[t]) /\ next' = [next EXCEPT ![t] = "idle"]
Call == calls < MaxCalls /\ calls' = calls + 1
Break == breaks < MaxBreaks /\ breaks' = breaks + 1

-----------------------------------------------------------------------------
(* fiber_mutex_lock, fiber_mutex_timedlock, fiber_mutex_trylock *)

\* Mutant: the word is read and written in two steps, so two threads find it free.
Lock_NotAtomic(t, j, withTime) ==
    /\ pc[t] = "idle" /\ ~owes[t] /\ Call
    /\ word' = "locked"
    /\ Goto(t, IF word # "contended" THEN "hold" ELSE "exchange")
    /\ job' = [job EXCEPT ![t] = j]
    /\ timed' = [timed EXCEPT ![t] = withTime]
    /\ UNCHANGED <<mq, cq, seq, bound, woken, next, exp, owes, items, breaks, lost>>

\* locked.exchange(1) (a trylock is the case that finds it free).
Lock(t, j, withTime) ==
    /\ pc[t] = "idle" /\ ~owes[t] /\ Call
    /\ word' = IF word = "free" THEN "locked" ELSE word
    /\ Goto(t, IF word = "free" THEN "hold" ELSE "exchange")
    /\ job' = [job EXCEPT ![t] = j]
    /\ timed' = [timed EXCEPT ![t] = withTime]
    /\ UNCHANGED <<mq, cq, seq, bound, woken, next, exp, owes, items, breaks, lost>>

\* Mutant: a locker that gets the mutex drops the mark that there are waiters.
LockExchange_KeepWord(t) ==
    /\ pc[t] = "exchange"
    /\ word' = IF word = "free" THEN "locked" ELSE "contended"
    /\ Goto(t, IF word = "free" THEN "hold" ELSE "wait")
    /\ UNCHANGED <<mq, cq, seq, bound, threadVars, next, items, calls, breaks, lost>>

\* mutex_lock_contended: exchange(FIBER_MUTEX_CONTENDED)
LockExchange(t) ==
    /\ pc[t] = "exchange"
    /\ word' = "contended"
    /\ Goto(t, IF word = "free" THEN "hold" ELSE "wait")
    /\ UNCHANGED <<mq, cq, seq, bound, threadVars, next, items, calls, breaks, lost>>

\* butex_wait(whole, FIBER_MUTEX_CONTENDED, abstime), or EWOULDBLOCK and again.
LockWait(t) ==
    /\ pc[t] = "wait"
    /\ IF word = "contended" THEN mq' = Append(mq, t) /\ Goto(t, "queued")
                             ELSE Goto(t, "exchange") /\ UNCHANGED mq
    /\ UNCHANGED <<word, cq, seq, bound, threadVars, next, items, calls, breaks, lost>>

-----------------------------------------------------------------------------
(* fiber_mutex_unlock, by itself and in fiber_cond_wait *)

\* exchange(0), and butex_wake unless the word was FIBER_MUTEX_LOCKED.
Release(t, l) ==
    /\ word' = "free"
    /\ IF word = "locked" THEN Goto(t, l) /\ UNCHANGED next
       ELSE Goto(t, "unlocked") /\ next' = [next EXCEPT ![t] = l]

\* The user unlocks when it is done; a consumer takes an item that is there.
Unlock(t) ==
    /\ pc[t] = "hold" /\ ~(job[t] = "consume" /\ items > 0)
    /\ Release(t, "idle")
    /\ job' = [job EXCEPT ![t] = "none"]
    /\ UNCHANGED <<mq, cq, seq, bound, timed, woken, exp, owes, items, calls, breaks, lost>>

\* butex_wake: the first waiter leaves butex_wait.
Woken(t) == /\ woken' = [woken EXCEPT ![t] = TRUE]

UnlockWake(t) ==
    /\ pc[t] = "unlocked" /\ Return(t)
    /\ IF mq = << >> THEN UNCHANGED <<mq, woken>> ELSE mq' = Tail(mq) /\ Woken(Head(mq))
    /\ UNCHANGED <<word, cq, seq, bound, timed, exp, job, owes, items, calls, breaks, lost>>

-----------------------------------------------------------------------------
(* fiber_cond_wait and fiber_cond_timedwait *)

\* Read the sequence number and bind the mutex.
CondWait(t, withTime) ==
    /\ pc[t] = "hold" /\ job[t] = "consume" /\ items = 0
    /\ exp' = [exp EXCEPT ![t] = seq]
    /\ bound' = TRUE
    /\ timed' = [timed EXCEPT ![t] = withTime]
    /\ Goto(t, "bound")
    /\ UNCHANGED <<word, mq, cq, seq, woken, next, job, owes, items, calls, breaks, lost>>

CondUnlock(t) ==
    /\ pc[t] = "bound"
    /\ Release(t, "cwait")
    /\ UNCHANGED <<mq, cq, seq, bound, threadVars, items, calls, breaks, lost>>

\* Mutant: the waiter queues whatever the sequence number is.
CondQueue_NoCompare(t) ==
    /\ pc[t] = "cwait"
    /\ cq' = Append(cq, t) /\ Goto(t, "cqueued")
    /\ UNCHANGED <<word, mq, seq, bound, threadVars, next, items, calls, breaks, lost>>

\* butex_wait(seq, expected_seq), or EWOULDBLOCK; then fiber_mutex_lock_contended.
CondQueue(t) ==
    /\ pc[t] = "cwait"
    /\ IF seq = exp[t] THEN cq' = Append(cq, t) /\ Goto(t, "cqueued") /\ UNCHANGED timed
       ELSE /\ Goto(t, "exchange") /\ timed' = [timed EXCEPT ![t] = FALSE]
            /\ UNCHANGED cq
    /\ exp' = [exp EXCEPT ![t] = 0]    \* not used any more
    /\ UNCHANGED <<word, mq, seq, bound, woken, next, job, owes, items, calls, breaks, lost>>

-----------------------------------------------------------------------------
(* The ways out of butex_wait *)

Queued(t) == pc[t] \in {"queued", "cqueued"}

\* The wait returns 0: lock tries again, cond_wait locks the mutex.
WaitReturns(t) ==
    /\ Queued(t) /\ woken[t]
    /\ woken' = [woken EXCEPT ![t] = FALSE]
    /\ timed' = [timed EXCEPT ![t] = @ /\ pc[t] = "queued"]
    /\ Goto(t, "exchange")
    /\ UNCHANGED <<word, mq, cq, seq, bound, next, exp, job, owes, items, calls, breaks, lost>>

\* The wait reports ETIMEDOUT: lock gives up, cond_wait locks the mutex.
TimedOut(t) ==
    /\ IF pc[t] = "queued" THEN Goto(t, "idle") /\ job' = [job EXCEPT ![t] = "none"]
                           ELSE Goto(t, "exchange") /\ UNCHANGED job
    /\ timed' = [timed EXCEPT ![t] = FALSE]
    /\ UNCHANGED <<word, seq, bound, next, exp, owes, items, calls>>

\* The timer takes the waiter off its queue.
WaitTimedOut(t) ==
    /\ Queued(t) /\ timed[t] /\ ~woken[t] /\ Break
    /\ mq' = RemoveFirst(mq, t) /\ cq' = RemoveFirst(cq, t)
    /\ TimedOut(t)
    /\ UNCHANGED <<woken, lost>>

\* wait_pthread finds that a wake has taken it off, and returns ETIMEDOUT all the same.
WokenTimedOut(t) ==
    /\ Queued(t) /\ timed[t] /\ woken[t] /\ t \in Pthreads /\ Break
    /\ woken' = [woken EXCEPT ![t] = FALSE]
    /\ lost' = (lost \/ pc[t] = "queued")
    /\ TimedOut(t)
    /\ UNCHANGED <<mq, cq>>

\* An interruption takes the waiter off its queue; EINTR is ignored by both callers.
WaitInterrupted(t) ==
    /\ Queued(t) /\ ~woken[t] /\ Break
    /\ mq' = RemoveFirst(mq, t) /\ cq' = RemoveFirst(cq, t)
    /\ timed' = [timed EXCEPT ![t] = @ /\ pc[t] = "queued"]
    /\ Goto(t, "exchange")
    /\ UNCHANGED <<word, seq, bound, woken, next, exp, job, owes, items, calls, lost>>

-----------------------------------------------------------------------------
(* The items, fiber_cond_signal and fiber_cond_broadcast *)

Consume(t) ==
    /\ pc[t] = "hold" /\ job[t] = "consume" /\ items > 0
    /\ items' = items - 1 /\ job' = [job EXCEPT ![t] = "none"]
    /\ UNCHANGED <<word, mq, cq, seq, bound, pc, timed, woken, next, exp, owes, calls, breaks, lost>>

Produce(t) ==
    /\ pc[t] = "hold" /\ job[t] = "produce"
    /\ items' = items + 1
    /\ job' = [job EXCEPT ![t] = "none"] /\ owes' = [owes EXCEPT ![t] = TRUE]
    /\ UNCHANGED <<word, mq, cq, seq, bound, pc, timed, woken, next, exp, calls, breaks, lost>>

\* With or without the mutex: seq.fetch_add(1); broadcast does nothing when the
\* condition has never been waited for.
Notify(t, how) ==
    /\ owes[t] /\ pc[t] \in {"idle", "hold"}
    /\ owes' = [owes EXCEPT ![t] = FALSE]
    /\ IF how = "broadcast" /\ ~bound
       THEN UNCHANGED <<seq, pc, next>>
       ELSE seq' = seq + 1 /\ Goto(t, how) /\ next' = [next EXCEPT ![t] = pc[t]]
    /\ UNCHANGED <<word, mq, cq, bound, timed, woken, exp, job, items, calls, breaks, lost>>

\* butex_wake(seq)
SignalWake(t) ==
    /\ pc[t] = "signal" /\ Return(t)
    /\ IF cq = << >> THEN UNCHANGED <<cq, woken>> ELSE cq' = Tail(cq) /\ Woken(Head(cq))
    /\ UNCHANGED <<word, mq, seq, bound, timed, exp, job, owes, items, calls, breaks, lost>>

\* Mutant: the woken waiter is moved as well.
BroadcastRequeue_MovesAll(t) ==
    /\ pc[t] = "broadcast" /\ Return(t)
    /\ IF cq = << >> THEN UNCHANGED <<cq, mq, woken>>
       ELSE cq' = << >> /\ mq' = mq \o cq /\ Woken(Head(cq))
    /\ UNCHANGED <<word, seq, bound, timed, exp, job, owes, items, calls, breaks, lost>>

\* butex_requeue: wake the first, move the others to the mutex.
BroadcastRequeue(t) ==
    /\ pc[t] = "broadcast" /\ Return(t)
    /\ IF cq = << >> THEN UNCHANGED <<cq, mq, woken>>
       ELSE cq' = << >> /\ mq' = mq \o Tail(cq) /\ Woken(Head(cq))
    /\ UNCHANGED <<word, seq, bound, timed, exp, job, owes, items, calls, breaks, lost>>

-----------------------------------------------------------------------------
Notifies(t) == Notify(t, "signal") \/ Notify(t, "broadcast")
\* What a thread does on its own, the user's duties included.
Step(t) == \/ LockExchange(t) \/ LockWait(t) \/ UnlockWake(t)
           \/ CondUnlock(t) \/ CondQueue(t) \/ WaitReturns(t)
           \/ SignalWake(t) \/ BroadcastRequeue(t)
           \/ Consume(t) \/ Unlock(t) \/ (pc[t] = "idle" /\ Notifies(t))

Next == \E t \in Threads :
           \/ \E j \in {"consume", "produce"}, withTime \in BOOLEAN : Lock(t, j, withTime)
           \/ \E withTime \in BOOLEAN : CondWait(t, withTime)
           \/ Produce(t) \/ Notifies(t) \/ Step(t)
           \/ WaitTimedOut(t) \/ WokenTimedOut(t) \/ WaitInterrupted(t)

\* Threads run, critical sections end and producers signal.  Nothing is assumed
\* of timeouts and interruptions.
Spec == Init /\ [][Next]_vars /\ \A t \in Threads : WF_vars(Step(t))

-----------------------------------------------------------------------------
Waiters == {t \in Threads : Queued(t) /\ ~woken[t]}

Types ==
    /\ word \in {"free", "locked", "contended"}
    /\ mq \in Seq(Threads) /\ cq \in Seq(Threads)
    /\ seq \in 0..MaxCalls /\ bound \in BOOLEAN
    /\ pc \in [Threads -> {"idle", "hold", "exchange", "wait", "queued", "unlocked", "bound",
                           "cwait", "cqueued", "signal", "broadcast"}]
    /\ timed \in [Threads -> BOOLEAN] /\ woken \in [Threads -> BOOLEAN]
    /\ next \in [Threads -> {"idle", "hold", "cwait"}]
    /\ exp \in [Threads -> 0..MaxCalls]
    /\ job \in [Threads -> {"none", "consume", "produce"}] /\ owes \in [Threads -> BOOLEAN]
    /\ items \in 0..MaxCalls /\ calls \in 0..MaxCalls
    /\ breaks \in 0..MaxBreaks /\ lost \in BOOLEAN

\* The variables have their types; whoever sleeps in butex_wait is in exactly one
\* of the two queues, also after butex_requeue.
TypeOK ==
    /\ Types
    /\ Len(mq) + Len(cq) = Cardinality(Waiters)
    /\ ToSet(mq) \cup ToSet(cq) = Waiters

\* Threads that have the mutex: in a critical section, on the way into cond_wait,
\* or in a signal or broadcast made under it.
Holders == {t \in Threads : \/ pc[t] \in {"hold", "bound"}
                            \/ pc[t] \in {"signal", "broadcast"} /\ next[t] = "hold"}

\* At most one thread has the mutex, and the word says whether one does, whatever
\* the mix of fast locks, contended locks, timeouts and requeued waiters.
MutualExclusion == Cardinality(Holders) = (IF word = "free" THEN 0 ELSE 1)

\* A thread that will set the contended mark or wake a waiter of the mutex.
MutexWaker(t) == \/ pc[t] \in {"exchange", "unlocked"}
                 \/ Queued(t) /\ woken[t]

\* Whoever is queued on the mutex, requeued there by broadcast too, is not forgotten:
\* the word makes the holder wake one, or somebody is on the way to see to it.
\* (A pthread that timed out after unlock had woken it drops that wake.)
MutexWaitersHaveWaker ==
    mq # << >> => word = "contended" \/ lost \/ \E t \in Threads : MutexWaker(t)

\* A consumer does not sleep on while there are items: no signal falls between its
\* test of the items and its wait, and none ends with a thread that lets it down.
ItemsWakeConsumers == \A t \in Threads :
    (pc[t] = "cqueued" /\ items > 0) ~> (pc[t] # "cqueued" \/ items = 0 \/ lost)
=============================================================================
