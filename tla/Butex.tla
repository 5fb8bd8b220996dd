-------------------------------- MODULE Butex --------------------------------
(***************************************************************************)
(* The butex (src/eabase/fiber/butex.cc): the futex-like word on which     *)
(* fibers and pthreads block, with the timer callbacks and the             *)
(* interruptions (src/eabase/fiber/task_group.cc) that race with the       *)
(* wakers.                                                                 *)
(*                                                                         *)
(* A waiter (ButexFiberWaiter, ButexPthreadWaiter) lives on the stack of   *)
(* the call that waits, so it is named after the fiber or pthread; the     *)
(* frame is alive exactly while pc[w] # "idle".  A critical section of     *)
(* waiter_lock is one step, except that of wait_for_butex, whose reading   *)
(* of TaskMeta::interrupted is not protected by the lock: it is split, and *)
(* lock[b] names the fiber inside.  Time is abstract: an armed timer may   *)
(* fire at any moment.  TimerThread::schedule() does not fail: the global  *)
(* timer thread is never stopped.                                          *)
(***************************************************************************)
EXTENDS Integers, SequencesExt

CONSTANTS Fibers,        \* fibers that wait
          Pthreads,      \* pthreads (not workers) that wait
          Butexes,       \* butexes
          Wakers,        \* threads that change a butex and wake its waiters
          Interrupters,  \* threads that call fiber_interrupt
          MaxValue,      \* a butex holds 0..MaxValue
          WakeOps,       \* the wake functions in use
          Timeouts,      \* whether abstime may be given: a subset of BOOLEAN
          None           \* NULL

ASSUME ValueAssumption == MaxValue \in Nat
ASSUME OpsAssumption ==
    WakeOps \subseteq {"wake", "wake_all", "wake_except", "requeue"}
ASSUME TimeoutsAssumption == Timeouts \subseteq BOOLEAN

Waiters == Fibers \cup Pthreads
TimerOf(f) == <<"timer", f>>        \* the timer task of f's current wait
Timers == {TimerOf(f) : f \in Fibers}
Erasers == Timers \cup Interrupters \cup Pthreads
Actors == Waiters \cup Timers \cup Interrupters \cup Wakers

ASSUME DistinctAssumption ==
    /\ Fibers \cap Pthreads = {} /\ Interrupters \cap Wakers = {}
    /\ Waiters \cap (Interrupters \cup Wakers) = {}
    /\ Timers \cap (Waiters \cup Interrupters \cup Wakers) = {}
    /\ None \notin Waiters \cup Butexes

VARIABLES value,       \* Butex::value
          waiters,     \* Butex::waiters
          lock,        \* the fiber whose wait_for_butex holds waiter_lock, or None
          bw,          \* the waiter of each fiber and pthread
          ready,       \* how many times a fiber is in the run queues
          sig,         \* ButexPthreadWaiter::sig
          curWaiter,   \* TaskMeta::current_waiter # NULL
          interrupted, \* TaskMeta::interrupted
          pc,          \* next step of every actor
          seen,        \* the container an eraser loaded
          target,      \* whom an interrupter interrupts, where a waker works
          held,        \* the waiters that a waker has detached and has still to wake
          next,        \* next of butex_wake_all: the fiber that is readied last
          asleep,      \* the pthread sleeps in futex_wait_private(&pw.sig)
          futex        \* the pthread whose sig a waker has set and whose futex it has
                       \* still to wake

vars == <<value, waiters, lock, bw, ready, sig, curWaiter, interrupted,
          pc, seen, target, held, next, asleep, futex>>
futexVars == <<asleep, futex>>

NoWaiter == [container |-> None, home |-> None, expected |-> 0, timed |-> FALSE,
             sleep |-> FALSE, state |-> "READY"]

Init == /\ value = [b \in Butexes |-> 0]
        /\ waiters = [b \in Butexes |-> << >>]
        /\ lock = [b \in Butexes |-> None]
        /\ bw = [w \in Waiters |-> NoWaiter]
        /\ ready = [f \in Fibers |-> 0]
        /\ sig = [p \in Pthreads |-> FALSE]
        /\ curWaiter = [f \in Fibers |-> FALSE]
        /\ interrupted = [f \in Fibers |-> FALSE]
        /\ pc = [a \in Actors |-> "idle"]
        /\ seen = [e \in Erasers |-> None]
        /\ target = [a \in Interrupters \cup Wakers |-> None]
        /\ held = [k \in Wakers |-> << >>]
        /\ next = [k \in Wakers |-> None]
        /\ asleep = [p \in Pthreads |-> FALSE]
        /\ futex = [k \in Wakers |-> None]

Goto(a, l) == pc' = [pc EXCEPT ![a] = l]

\* TaskGroup::ready_to_run*, exchange
ReadyToRun(f) == ready' = [ready EXCEPT ![f] = @ + 1]

-----------------------------------------------------------------------------
(* butex_wait by a fiber *)

\* A call that finds another value or an expired abstime returns at once and changes
\* nothing.  Otherwise: publish the waiter in current_waiter and switch to another
\* fiber, which runs wait_for_butex as its "remained" function.
FiberWait(f, b, e, timed) ==
    /\ pc[f] = "idle"
    /\ value[b] = e
    /\ bw' = [bw EXCEPT ![f] = [NoWaiter EXCEPT !.home = b, !.expected = e, !.timed = timed]]
    /\ curWaiter' = [curWaiter EXCEPT ![f] = TRUE]
    /\ Goto(f, "remained")
    /\ UNCHANGED <<value, waiters, lock, ready, sig, interrupted, seen, target, held, next,
                   futexVars>>

\* Mutant: the value is not looked at again under waiter_lock.
WaitForButexCheck_NoValue(f) ==
    LET b == bw[f].home IN
    /\ pc[f] = "remained"
    /\ lock[b] = None
    /\ IF ~interrupted[f]
       THEN /\ lock' = [lock EXCEPT ![b] = f]
            /\ Goto(f, "append")
            /\ UNCHANGED ready
       ELSE ReadyToRun(f) /\ Goto(f, "blocked") /\ UNCHANGED lock
    /\ UNCHANGED <<value, waiters, bw, sig, curWaiter, interrupted, seen, target, held, next,
                   futexVars>>

\* wait_for_butex: take waiter_lock and look at the value and at interrupted.
WaitForButexCheck(f) ==
    LET b == bw[f].home IN
    /\ pc[f] = "remained"
    /\ lock[b] = None
    /\ IF value[b] = bw[f].expected /\ bw[f].state = "READY" /\ ~interrupted[f]
       THEN /\ lock' = [lock EXCEPT ![b] = f]
            /\ Goto(f, "append")
            /\ UNCHANGED <<bw, ready>>
       ELSE /\ bw' = IF value[b] # bw[f].expected
                     THEN [bw EXCEPT ![f].state = "UNMATCHEDVALUE"] ELSE bw
            /\ ReadyToRun(f)
            /\ Goto(f, "blocked")
            /\ UNCHANGED lock
    /\ UNCHANGED <<value, waiters, sig, curWaiter, interrupted, seen, target, held, next,
                   futexVars>>

\* Mutant: the timer is not scheduled.
WaitForButexAppend_NoTimer(f) ==
    LET b == bw[f].home IN
    /\ pc[f] = "append"
    /\ waiters' = [waiters EXCEPT ![b] = Append(@, f)]
    /\ bw' = [bw EXCEPT ![f].container = b]
    /\ lock' = [lock EXCEPT ![b] = None]
    /\ Goto(f, "blocked")
    /\ UNCHANGED <<value, ready, sig, curWaiter, interrupted, seen, target, held, next,
                   futexVars>>

\* wait_for_butex: queue the waiter, schedule its timer, release waiter_lock.
WaitForButexAppend(f) ==
    LET b == bw[f].home IN
    /\ pc[f] = "append"
    /\ waiters' = [waiters EXCEPT ![b] = Append(@, f)]
    /\ bw' = [bw EXCEPT ![f].container = b, ![f].sleep = bw[f].timed]
    /\ lock' = [lock EXCEPT ![b] = None]
    /\ pc' = [pc EXCEPT ![f] = "blocked",
                        ![TimerOf(f)] = IF bw[f].timed THEN "scheduled" ELSE "idle"]
    /\ UNCHANGED <<value, ready, sig, curWaiter, interrupted, seen, target, held, next,
                   futexVars>>

\* A worker picks the fiber from a run queue.
Resume(f) ==
    /\ pc[f] = "blocked"
    /\ ready[f] > 0
    /\ ready' = [ready EXCEPT ![f] = @ - 1]
    /\ Goto(f, "unsleep")
    /\ UNCHANGED <<value, waiters, lock, bw, sig, curWaiter, interrupted, seen, target, held,
                   next, futexVars>>

\* TimerThread::unschedule: 0 removed before it ran, 1 running, -1 it has run.
Unschedule(f) == CASE pc[TimerOf(f)] = "scheduled" -> 0
                   [] pc[TimerOf(f)] = "idle"      -> -1
                   [] OTHER                        -> 1

\* unsleep_if_necessary fails while the callback runs.
UnsleepOk(f) == ~bw[f].sleep \/ Unschedule(f) <= 0

\* Mutant: butex_wait does not spin while the timer callback runs.
Unsleep_NoSpin(f) ==
    /\ pc[f] = "unsleep"
    /\ bw' = [bw EXCEPT ![f].sleep = FALSE]
    /\ pc' = [pc EXCEPT ![f] = "consume",
                        ![TimerOf(f)] = IF bw[f].sleep /\ UnsleepOk(f) THEN "idle" ELSE @]
    /\ UNCHANGED <<value, waiters, lock, ready, sig, curWaiter, interrupted, seen, target, held,
                   next, futexVars>>

Unsleep(f) ==
    /\ pc[f] = "unsleep"
    /\ UnsleepOk(f)
    /\ bw' = [bw EXCEPT ![f].sleep = FALSE]
    /\ pc' = [pc EXCEPT ![f] = "consume", ![TimerOf(f)] = IF bw[f].sleep THEN "idle" ELSE @]
    /\ UNCHANGED <<value, waiters, lock, ready, sig, curWaiter, interrupted, seen, target, held,
                   next, futexVars>>

\* Spin until current_waiter is not NULL (an interrupter has put it back).
ConsumeWaiter(f) ==
    /\ pc[f] = "consume"
    /\ curWaiter[f]
    /\ curWaiter' = [curWaiter EXCEPT ![f] = FALSE]
    /\ Goto(f, "finish")
    /\ UNCHANGED <<value, waiters, lock, bw, ready, sig, interrupted, seen, target, held, next,
                   futexVars>>

\* What butex_wait answers: a timeout wins over an unmatched value, and both over
\* an interruption.
WaitResult(f) == CASE bw[f].state = "TIMEDOUT"       -> "ETIMEDOUT"
                   [] bw[f].state = "UNMATCHEDVALUE" -> "EWOULDBLOCK"
                   [] OTHER -> IF interrupted[f] THEN "EINTR" ELSE "ok"

\* Consume the interruption and return.
FiberReturn(f) ==
    /\ pc[f] = "finish"
    /\ interrupted' = [interrupted EXCEPT ![f] = FALSE]
    /\ bw' = [bw EXCEPT ![f] = NoWaiter]
    /\ Goto(f, "idle")
    /\ UNCHANGED <<value, waiters, lock, ready, sig, curWaiter, seen, target, held, next,
                   futexVars>>

-----------------------------------------------------------------------------
(* erase_from_butex: shared by the timer, the interrupters and pthreads that *)
(* time out.  The loop loads the container, locks it and looks again.        *)

\* while ((b = bw->container.load()))
EraseLoad(e, w, after) ==
    /\ seen' = [seen EXCEPT ![e] = bw[w].container]
    /\ Goto(e, IF bw[w].container = None THEN after ELSE "lock")

\* Mutant: the container is not looked at again under the lock.
EraseLock_NoRecheck(e, w, state, after) ==
    LET b == seen[e] IN
    /\ lock[b] = None
    /\ waiters' = [waiters EXCEPT ![b] = RemoveFirst(@, w)]
    /\ bw' = [bw EXCEPT ![w].container = None, ![w].state = IF w \in Fibers THEN state ELSE @]
    /\ Goto(e, after)
    /\ seen' = [seen EXCEPT ![e] = None]

\* Mutant: waiter_state is written before the container is looked at again.
EraseLock_StateFirst(e, w, state, after) ==
    LET b == seen[e] IN
    /\ lock[b] = None
    /\ IF bw[w].container = b
       THEN waiters' = [waiters EXCEPT ![b] = RemoveFirst(@, w)] /\ Goto(e, after)
       ELSE UNCHANGED waiters /\ Goto(e, "load")
    /\ bw' = [bw EXCEPT ![w].container = IF @ = b THEN None ELSE @,
                        ![w].state = IF w \in Fibers THEN state ELSE @]
    /\ seen' = [seen EXCEPT ![e] = None]

\* The critical section; a container that moved meanwhile sends us back.
EraseLock(e, w, state, after) ==
    LET b == seen[e] IN
    /\ lock[b] = None
    /\ IF bw[w].container = b
       THEN /\ waiters' = [waiters EXCEPT ![b] = RemoveFirst(@, w)]
            /\ bw' = [bw EXCEPT ![w].container = None,
                                ![w].state = IF w \in Fibers THEN state ELSE @]
            /\ Goto(e, after)
       ELSE /\ Goto(e, "load")
            /\ UNCHANGED <<waiters, bw>>
    /\ seen' = [seen EXCEPT ![e] = None]

-----------------------------------------------------------------------------
(* The timer callback erase_from_butex_and_wakeup *)

TimerFire(f) ==
    /\ pc[TimerOf(f)] = "scheduled"
    /\ Goto(TimerOf(f), "load")
    /\ UNCHANGED <<value, waiters, lock, bw, ready, sig, curWaiter, interrupted, seen, target,
                   held, next, futexVars>>

TimerLoad(f) ==
    /\ pc[TimerOf(f)] = "load"
    /\ EraseLoad(TimerOf(f), f, "idle")
    /\ UNCHANGED <<value, waiters, lock, bw, ready, sig, curWaiter, interrupted, target, held,
                   next, futexVars>>

TimerLock(f) ==
    /\ pc[TimerOf(f)] = "lock"
    /\ EraseLock(TimerOf(f), f, "TIMEDOUT", "wakeup")
    /\ UNCHANGED <<value, lock, ready, sig, curWaiter, interrupted, target, held, next,
                   futexVars>>

TimerWakeup(f) ==
    /\ pc[TimerOf(f)] = "wakeup"
    /\ ReadyToRun(f)
    /\ Goto(TimerOf(f), "idle")
    /\ UNCHANGED <<value, waiters, lock, bw, sig, curWaiter, interrupted, seen, target, held,
                   next, futexVars>>

-----------------------------------------------------------------------------
(* TaskGroup::interrupt *)

\* interrupt_and_consume_waiters, under TaskMeta::version_lock.
InterruptConsume(i, f) ==
    /\ pc[i] = "idle"
    /\ curWaiter' = [curWaiter EXCEPT ![f] = FALSE]
    /\ interrupted' = [interrupted EXCEPT ![f] = TRUE]
    /\ IF curWaiter[f]
       THEN Goto(i, "load") /\ target' = [target EXCEPT ![i] = f]
       ELSE UNCHANGED <<pc, target>>
    /\ UNCHANGED <<value, waiters, lock, bw, ready, sig, seen, held, next, futexVars>>

InterruptLoad(i) ==
    /\ pc[i] = "load"
    /\ EraseLoad(i, target[i], "putback")
    /\ UNCHANGED <<value, waiters, lock, bw, ready, sig, curWaiter, interrupted, target, held,
                   next, futexVars>>

InterruptLock(i) ==
    /\ pc[i] = "lock"
    /\ EraseLock(i, target[i], "INTERRUPTED", "wakeup")
    /\ UNCHANGED <<value, lock, ready, sig, curWaiter, interrupted, target, held, next,
                   futexVars>>

InterruptWakeup(i) ==
    /\ pc[i] = "wakeup"
    /\ ReadyToRun(target[i])
    /\ Goto(i, "putback")
    /\ UNCHANGED <<value, waiters, lock, bw, sig, curWaiter, interrupted, seen, target, held,
                   next, futexVars>>

\* Mutant: current_waiter is not set back.
InterruptPutBack_Forgets(i) ==
    /\ pc[i] = "putback"
    /\ target' = [target EXCEPT ![i] = None]
    /\ Goto(i, "idle")
    /\ UNCHANGED <<value, waiters, lock, bw, ready, sig, curWaiter, interrupted, seen, held,
                   next, futexVars>>

\* set_butex_waiter
InterruptPutBack(i) ==
    /\ pc[i] = "putback"
    /\ curWaiter' = [curWaiter EXCEPT ![target[i]] = TRUE]
    /\ target' = [target EXCEPT ![i] = None]
    /\ Goto(i, "idle")
    /\ UNCHANGED <<value, waiters, lock, bw, ready, sig, interrupted, seen, held, next,
                   futexVars>>

-----------------------------------------------------------------------------
(* butex_wait_from_pthread and wait_pthread, called outside the workers      *)
(* (tls_task_group is NULL: nobody can interrupt the caller)                 *)

PthreadWait(p, b, e, timed) ==
    /\ pc[p] = "idle"
    /\ lock[b] = None
    /\ value[b] = e
    /\ waiters' = [waiters EXCEPT ![b] = Append(@, p)]
    /\ bw' = [bw EXCEPT ![p] = [NoWaiter EXCEPT !.container = b, !.home = b,
                                    !.expected = e, !.timed = timed]]
    /\ Goto(p, "blocked")
    /\ UNCHANGED <<value, lock, ready, sig, curWaiter, interrupted, seen, target, held, next,
                   futexVars>>

PthreadReturn(p) ==
    /\ Goto(p, "idle")
    /\ bw' = [bw EXCEPT ![p] = NoWaiter]
    /\ sig' = [sig EXCEPT ![p] = FALSE]
    /\ asleep' = [asleep EXCEPT ![p] = FALSE]

\* futex_wait_private compares sig and sleeps.
PthreadSleep(p) ==
    /\ pc[p] = "blocked" /\ ~asleep[p]
    /\ ~sig[p]
    /\ asleep' = [asleep EXCEPT ![p] = TRUE]
    /\ UNCHANGED <<value, waiters, lock, bw, ready, sig, curWaiter, interrupted, pc,
                   seen, target, held, next, futex>>

\* futex_wait_private returns EINTR, and the loop goes on.
PthreadInterrupted(p) ==
    /\ asleep[p]
    /\ asleep' = [asleep EXCEPT ![p] = FALSE]
    /\ UNCHANGED <<value, waiters, lock, bw, ready, sig, curWaiter, interrupted, pc,
                   seen, target, held, next, futex>>

\* futex_wait_private has returned (woken, or timed out at the same time, or the
\* pthread never slept) and sig is set.
PthreadSignalled(p) ==
    /\ pc[p] = "blocked"
    /\ sig[p]
    /\ asleep[p] => bw[p].timed
    /\ PthreadReturn(p)
    /\ UNCHANGED <<value, waiters, lock, ready, curWaiter, interrupted, seen, target, held,
                   next, futex>>

\* futex_wait_private times out and sig is not set; or abstime is so near that the
\* loop neither sleeps nor looks at sig.
PthreadTimeout(p) ==
    /\ pc[p] = "blocked"
    /\ bw[p].timed
    /\ asleep[p] => ~sig[p]
    /\ asleep' = [asleep EXCEPT ![p] = FALSE]
    /\ Goto(p, "load")
    /\ UNCHANGED <<value, waiters, lock, bw, ready, sig, curWaiter, interrupted,
                   seen, target, held, next, futex>>

PthreadEraseLoad(p) ==
    /\ pc[p] = "load"
    /\ EraseLoad(p, p, "notErased")
    /\ UNCHANGED <<value, waiters, lock, bw, ready, sig, curWaiter, interrupted, target, held,
                   next, futexVars>>

PthreadEraseLock(p) ==
    /\ pc[p] = "lock"
    /\ EraseLock(p, p, "TIMEDOUT", "erased")
    /\ UNCHANGED <<value, lock, ready, sig, curWaiter, interrupted, target, held, next,
                   futexVars>>

PthreadErased(p) ==
    /\ pc[p] = "erased"
    /\ PthreadReturn(p)
    /\ UNCHANGED <<value, waiters, lock, ready, curWaiter, interrupted, seen, target, held,
                   next, futex>>

\* Somebody else erased it: wait for the signal, without a timeout.
PthreadNotErased(p) ==
    /\ pc[p] = "notErased"
    /\ IF sig[p]
       THEN PthreadReturn(p)
       ELSE /\ bw' = [bw EXCEPT ![p].timed = FALSE]
            /\ Goto(p, "blocked")
            /\ UNCHANGED <<sig, asleep>>
    /\ UNCHANGED <<value, waiters, lock, ready, curWaiter, interrupted, seen, target, held, next,
                   futex>>

-----------------------------------------------------------------------------
(* The wakers: change the value, then call one of the wake functions *)

SetValue(k, b, v) ==
    /\ pc[k] = "idle" /\ futex[k] = None
    /\ v # value[b]
    /\ value' = [value EXCEPT ![b] = v]
    /\ target' = [target EXCEPT ![k] = b]
    /\ Goto(k, "set")
    /\ UNCHANGED <<waiters, lock, bw, ready, sig, curWaiter, interrupted, seen, held, next,
                   futexVars>>

FrontOf(s) == IF s = << >> THEN << >> ELSE <<Head(s)>>

\* What a wake function does with waiter_lock released begins at label l.
Detach(k, ws, l) ==
    /\ held' = [held EXCEPT ![k] = ws]
    /\ target' = [target EXCEPT ![k] = None]
    /\ Goto(k, IF ws = << >> THEN "idle" ELSE l)
    /\ UNCHANGED <<value, lock, ready, sig, curWaiter, interrupted, seen, next, futexVars>>

Uncontain(ws) ==
    [w \in Waiters |-> IF w \in ws THEN [bw[w] EXCEPT !.container = None] ELSE bw[w]]

ButexWake(k) ==
    LET b == target[k]  q == waiters[b]  front == FrontOf(q) IN
    /\ pc[k] = "set" /\ "wake" \in WakeOps /\ lock[b] = None
    /\ waiters' = [waiters EXCEPT ![b] = IF q = << >> THEN q ELSE Tail(q)]
    /\ bw' = Uncontain(ToSet(front))
    /\ Detach(k, front, "wakeAll")

ButexWakeAll(k) ==
    LET b == target[k]  q == waiters[b] IN
    /\ pc[k] = "set" /\ "wake_all" \in WakeOps /\ lock[b] = None
    /\ waiters' = [waiters EXCEPT ![b] = << >>]
    /\ bw' = Uncontain(ToSet(q))
    /\ Detach(k, q, "wakeAll")

\* All but one fiber, which stays alone on the queue.
ButexWakeExcept(k, excluded) ==
    LET b == target[k]  q == waiters[b]  gone == RemoveFirst(q, excluded) IN
    /\ pc[k] = "set" /\ "wake_except" \in WakeOps /\ lock[b] = None
    /\ waiters' = [waiters EXCEPT ![b] = IF excluded \in ToSet(q) THEN <<excluded>> ELSE << >>]
    /\ bw' = Uncontain(ToSet(gone))
    /\ Detach(k, gone, "wakeRest")

\* Mutant: a requeued waiter keeps its old container.
ButexRequeue_KeepContainer(k, m) ==
    LET b == target[k]  q == waiters[b] IN
    /\ pc[k] = "set" /\ "requeue" \in WakeOps /\ lock[b] = None /\ lock[m] = None
    /\ m # b
    /\ waiters' = IF q = << >> THEN waiters
                  ELSE [waiters EXCEPT ![b] = << >>, ![m] = @ \o Tail(q)]
    /\ bw' = Uncontain(ToSet(FrontOf(q)))
    /\ Detach(k, FrontOf(q), "wakeAll")

ButexRequeue(k, m) ==
    LET b == target[k]  q == waiters[b] IN
    /\ pc[k] = "set" /\ "requeue" \in WakeOps /\ lock[b] = None /\ lock[m] = None
    /\ m # b
    /\ IF q = << >>
       THEN UNCHANGED <<waiters, bw>>
       ELSE /\ waiters' = [waiters EXCEPT ![b] = << >>, ![m] = @ \o Tail(q)]
            /\ bw' = [w \in Waiters |->
                        CASE w = Head(q) -> [bw[w] EXCEPT !.container = None]
                          [] w \in ToSet(Tail(q)) -> [bw[w] EXCEPT !.container = m]
                          [] OTHER -> bw[w]]
    /\ Detach(k, FrontOf(q), "wakeAll")

-----------------------------------------------------------------------------
(* The detached waiters are woken: the pthreads first, then the fibers from   *)
(* the last one back.  butex_wake_all unsleeps the first fiber before the      *)
(* others and readies it after them, to switch to it ("wakeAll", then          *)
(* "wakeRest"); the one fiber of butex_wake and butex_requeue goes the same    *)
(* way.                                                                        *)

OnlyFibers(ws) == ToSet(ws) \subseteq Fibers

\* Mutant: the futex of a pthread is not woken.
WakeupPthread_NoFutex(k, w) == sig' = [sig EXCEPT ![w] = TRUE] /\ UNCHANGED futex

\* wakeup_pthread, first half: sig is set.  From here on wait_pthread may return.
WakeupPthread(k, w) == /\ sig' = [sig EXCEPT ![w] = TRUE]
                       /\ futex' = [futex EXCEPT ![k] = w]

\* The first pthread is woken; pc says what comes after its futex.
WakePthread(k) ==
    /\ pc[k] \in {"wakeAll", "wakeRest"} /\ futex[k] = None
    /\ \E i \in 1..Len(held[k]) :
          LET w == held[k][i] IN
          /\ w \in Pthreads
          /\ \A j \in 1..(i - 1) : held[k][j] \in Fibers
          /\ WakeupPthread(k, w)
          /\ held' = [held EXCEPT ![k] = RemoveFirst(@, w)]
    /\ Goto(k, IF Len(held[k]) = 1 THEN "idle" ELSE pc[k])
    /\ UNCHANGED <<value, waiters, lock, bw, ready, curWaiter, interrupted, seen, target,
                   next, asleep>>

\* wakeup_pthread, second half: futex_wake_private(&pw->sig).  The waiter may be gone:
\* then nobody sleeps there, or a later wait of the same pthread whose waiter is at
\* the same address, and which goes round its loop.
FutexWake(k) ==
    /\ futex[k] # None
    /\ asleep' = [asleep EXCEPT ![futex[k]] = FALSE]
    /\ futex' = [futex EXCEPT ![k] = None]
    /\ UNCHANGED <<value, waiters, lock, bw, ready, sig, curWaiter, interrupted, pc, seen,
                   target, held, next>>

\* unsleep_if_necessary of a detached fiber.
UnsleepHeld(k, w, l) ==
    /\ bw' = IF UnsleepOk(w) THEN [bw EXCEPT ![w].sleep = FALSE] ELSE bw
    /\ pc' = [pc EXCEPT ![k] = l,
                        ![TimerOf(w)] = IF bw[w].sleep /\ UnsleepOk(w) THEN "idle" ELSE @]

\* Mutant: a fiber whose timer could not be unscheduled is readied at once.
WakeNext_Twice(k) ==
    LET w == Head(held[k]) IN
    /\ pc[k] = "wakeAll" /\ futex[k] = None /\ OnlyFibers(held[k])
    /\ UnsleepHeld(k, w, IF Len(held[k]) = 1 THEN "ready" ELSE "wakeRest")
    /\ next' = [next EXCEPT ![k] = w]
    /\ ready' = IF UnsleepOk(w) THEN ready ELSE [ready EXCEPT ![w] = @ + 1]
    /\ UNCHANGED <<value, waiters, lock, sig, curWaiter, interrupted, seen, target, held,
                   futexVars>>

WakeNext(k) ==
    LET w == Head(held[k]) IN
    /\ pc[k] = "wakeAll" /\ futex[k] = None /\ OnlyFibers(held[k])
    /\ UnsleepHeld(k, w, IF Len(held[k]) = 1 THEN "ready" ELSE "wakeRest")
    /\ next' = [next EXCEPT ![k] = w]
    /\ UNCHANGED <<value, waiters, lock, ready, sig, curWaiter, interrupted, seen, target, held,
                   futexVars>>

WakeUnsleep(k) ==
    /\ pc[k] = "wakeRest" /\ futex[k] = None /\ OnlyFibers(held[k])
    /\ UnsleepHeld(k, Last(held[k]), "ready")
    /\ UNCHANGED <<value, waiters, lock, ready, sig, curWaiter, interrupted, seen, target, held,
                   next, futexVars>>

\* ready_to_run_general of the last fiber, or the switch to next.
WakeReady(k) ==
    LET rest == Front(held[k]) IN
    /\ pc[k] = "ready"
    /\ ReadyToRun(Last(held[k]))
    /\ held' = [held EXCEPT ![k] = rest]
    /\ next' = [next EXCEPT ![k] = IF rest = << >> THEN None ELSE @]
    /\ Goto(k, IF rest = << >> THEN "idle"
               ELSE IF rest = <<next[k]>> THEN "ready" ELSE "wakeRest")
    /\ UNCHANGED <<value, waiters, lock, bw, sig, curWaiter, interrupted, seen, target,
                   futexVars>>

-----------------------------------------------------------------------------
FiberStep(f) == \/ WaitForButexCheck(f) \/ WaitForButexAppend(f) \/ Resume(f)
                \/ Unsleep(f) \/ ConsumeWaiter(f) \/ FiberReturn(f)
TimerStep(f) == TimerFire(f) \/ TimerLoad(f) \/ TimerLock(f) \/ TimerWakeup(f)
InterruptStep(i) == \/ InterruptLoad(i) \/ InterruptLock(i) \/ InterruptWakeup(i)
                    \/ InterruptPutBack(i)
PthreadStep(p) == \/ PthreadSignalled(p) \/ PthreadTimeout(p) \/ PthreadEraseLoad(p)
                  \/ PthreadEraseLock(p) \/ PthreadErased(p) \/ PthreadNotErased(p)
WakerStep(k) == \/ ButexWake(k) \/ ButexWakeAll(k)
                \/ \E x \in Fibers \cup {None} : ButexWakeExcept(k, x)
                \/ \E m \in Butexes : ButexRequeue(k, m)
                \/ WakePthread(k) \/ FutexWake(k) \/ WakeNext(k) \/ WakeUnsleep(k) \/ WakeReady(k)

Next ==
    \/ \E f \in Fibers, b \in Butexes, e \in 0..MaxValue, timed \in Timeouts :
           FiberWait(f, b, e, timed)
    \/ \E f \in Fibers : FiberStep(f) \/ TimerStep(f)
    \/ \E i \in Interrupters : InterruptStep(i) \/ \E f \in Fibers : InterruptConsume(i, f)
    \/ \E p \in Pthreads :
           \/ PthreadStep(p) \/ PthreadSleep(p) \/ PthreadInterrupted(p)
           \/ \E b \in Butexes, e \in 0..MaxValue, timed \in Timeouts : PthreadWait(p, b, e, timed)
    \/ \E k \in Wakers :
           \/ WakerStep(k)
           \/ \E b \in Butexes, v \in 0..MaxValue : SetValue(k, b, v)

Spec == Init /\ [][Next]_vars

\* Workers, the timer thread, wakers and interrupters keep running once inside a
\* function (strongly fair: waiter_lock may be taken and released while they wait
\* for it); nobody is obliged to call one.  Falling asleep is no progress: the timeout of
\* a pthread comes, however often its sleep is interrupted before.
Fairness == /\ \A f \in Fibers : SF_vars(FiberStep(f)) /\ SF_vars(TimerStep(f))
            /\ \A i \in Interrupters : SF_vars(InterruptStep(i))
            /\ \A p \in Pthreads : SF_vars(PthreadStep(p))
            /\ \A k \in Wakers : SF_vars(WakerStep(k))

FairSpec == Spec /\ Fairness

-----------------------------------------------------------------------------
FiberLabels == {"idle", "remained", "append", "blocked", "unsleep", "consume", "finish"}
EraserLabels == {"idle", "scheduled", "load", "lock", "wakeup", "putback"}
PthreadLabels == {"idle", "blocked", "load", "lock", "erased", "notErased"}
WakerLabels == {"idle", "set", "wakeAll", "wakeRest", "ready"}
Labels == FiberLabels \cup EraserLabels \cup PthreadLabels \cup WakerLabels

LabelTypes ==
    /\ pc \in [Actors -> Labels]
    /\ \A f \in Fibers : pc[f] \in FiberLabels
    /\ \A a \in Timers \cup Interrupters : pc[a] \in EraserLabels
    /\ \A p \in Pthreads : pc[p] \in PthreadLabels
    /\ \A k \in Wakers : pc[k] \in WakerLabels

ButexWaiter == [container : Butexes \cup {None}, home : Butexes \cup {None},
                expected : 0..MaxValue, timed : BOOLEAN, sleep : BOOLEAN,
                state : {"READY", "TIMEDOUT", "UNMATCHEDVALUE", "INTERRUPTED"}]

Types ==
    /\ value \in [Butexes -> 0..MaxValue]
    /\ waiters \in [Butexes -> Seq(Waiters)]
    /\ lock \in [Butexes -> Fibers \cup {None}]
    /\ bw \in [Waiters -> ButexWaiter]
    /\ ready \in [Fibers -> Nat] /\ sig \in [Pthreads -> BOOLEAN]
    /\ curWaiter \in [Fibers -> BOOLEAN] /\ interrupted \in [Fibers -> BOOLEAN]
    /\ LabelTypes
    /\ seen \in [Erasers -> Butexes \cup {None}]
    /\ target \in [Interrupters \cup Wakers -> Fibers \cup Butexes \cup {None}]
    /\ held \in [Wakers -> Seq(Waiters)]
    /\ next \in [Wakers -> Fibers \cup {None}]

FutexTypes ==
    asleep \in [Pthreads -> BOOLEAN] /\ futex \in [Wakers -> Pthreads \cup {None}]

\* The variables have their types; a fiber is in at most one run queue entry (butex_wake
\* and erase_from_butex make it ready).
TypeOK == Types /\ FutexTypes /\ \A f \in Fibers : ready[f] <= 1

\* The butexes on which w is queued, and the actors that have taken it out of a
\* queue and have still to wake it.
Queues(w) == {b \in Butexes : w \in ToSet(waiters[b])}
Holds(k, w) == w \in ToSet(held[k])
Waking(w) == {k \in Wakers : Holds(k, w)}
                \cup {i \in Interrupters : pc[i] = "wakeup" /\ target[i] = w}
                \cup {a \in Timers : pc[a] = "wakeup" /\ a = TimerOf(w)}

\* How often a waiter has been woken since it was suspended.
Woken(w) == IF w \in Fibers THEN ready[w] ELSE IF sig[w] THEN 1 ELSE 0
Suspended(w) == pc[w] \in {"blocked", "load", "lock", "notErased"}

\* "Callable from multiple threads, at most one thread may wake up the waiter"
\* (butex.cc:480): whatever wakers, timer and interrupters do concurrently, a
\* suspended waiter is in exactly one place: on one queue, in the hands of one
\* waker, or woken once; and one that is not suspended is in none (a fiber would
\* run on two workers at once).
OnePlace ==
    \A w \in Waiters :
        Cardinality(Queues(w)) + Cardinality(Waking(w)) + Woken(w)
            = IF Suspended(w) THEN 1 ELSE 0

\* ButexWaiter::container names the queue the waiter is on: erase_from_butex
\* relies on it to find the lock that protects the list node.
ContainerMatches ==
    \A w \in Waiters : Queues(w) = {bw[w].container} \ {None}

\* "`bw' is guaranteed to be valid inside this function because waiter will wait
\* until this function being cancelled or finished" (butex.cc:491): no timer
\* callback, interrupter or waker reads or writes an on-stack waiter whose butex_wait
\* has returned.  Not claimed of the address that wakeup_pthread hands to the kernel
\* after it has set sig, where "wait_pthread() possibly has woken up and destroyed
\* `pw'" (butex.cc:126, see FutexWake).
WaiterAlive ==
    /\ \A f \in Fibers : pc[TimerOf(f)] # "idle" => pc[f] \in {"blocked", "unsleep"}
    /\ \A i \in Interrupters : target[i] # None =>
           pc[target[i]] \notin {"idle", "finish"}
    /\ \A k \in Wakers, w \in Waiters : Holds(k, w) => pc[w] # "idle"

\* A pthread does not sleep through its signal: while it sleeps with sig set, the
\* waker that set it has still to wake its futex.
SignalHeard == \A p \in Pthreads :
    asleep[p] /\ sig[p] => \E k \in Wakers : futex[k] = p

\* A suspended waiter has exactly one waker, which finds it through its container and
\* neither reads nor writes it after its butex_wait has returned (futex_wake_private
\* may still be called with the address of a pthread's); a sleeping pthread that is
\* signalled is woken.
WaiterSound == OnePlace /\ ContainerMatches /\ WaiterAlive /\ SignalHeard

\* A wake that took a fiber out of the queue is not reported as a timeout: the
\* timer that fires between the dequeue and the wakeup leaves it alone.
WakeNotLost ==
    \A k \in Wakers, f \in Fibers : Holds(k, f) => WaitResult(f) \in {"ok", "EINTR"}

\* No lost wakeup between the check of the value and the suspension: a waiter
\* whose expected value is stale is queued only while the thread that changed the
\* value has still to call butex_wake_all.
NoLostWakeup ==
    \A b \in Butexes, w \in Waiters :
        (bw[w].container = b /\ bw[w].home = b /\ bw[w].expected # value[b])
            => \E k \in Wakers : pc[k] = "set" /\ target[k] = b

\* A fiber that is woken, times out, or whose value changed gets out of
\* butex_wait: the spins at the end of butex_wait terminate.
SpinsEnd == \A f \in Fibers : pc[f] \in {"unsleep", "consume"} ~> pc[f] = "idle"

\* A wait with a timeout returns.
TimedWaitReturns ==
    \A w \in Waiters : (pc[w] # "idle" /\ bw[w].timed) ~> pc[w] = "idle"

\* Whatever the wakers do, butex_wait ends: its spins terminate, and a wait with a
\* timeout returns.
WaitsEnd == SpinsEnd /\ TimedWaitReturns

\* "fiber_interrupt() guarantees that Thread2 is woken up reliably no matter how
\* the 2 threads are interleaved" (fiber.h:70).
InterruptWakes ==
    \A f \in Fibers : (pc[f] = "blocked" /\ interrupted[f]) ~> pc[f] = "idle"
=============================================================================
