------------------------------ MODULE TaskMeta ------------------------------
(***************************************************************************)
(* The life of a TaskMeta of src/eabase/fiber (task_meta.h, task_group.cc):*)
(* a slot of a resource pool that one fiber after the other uses.  A fiber *)
(* is named by the version of the slot, which changes when the fiber ends; *)
(* other threads stop, interrupt and join it by that name, also after its  *)
(* end.  A fiber sleeps (TaskGroup::usleep) until its timer, an            *)
(* interruption or _add_sleep_event itself makes it ready again.           *)
(*                                                                         *)
(* The timer thread is the set of the tasks it has armed (its detail is    *)
(* module TimerThread), a queue of ready fibers the number of times the    *)
(* fiber is in one (module Scheduler), and butex_wait a wait that anybody  *)
(* may end (module Butex).                                                 *)
(***************************************************************************)
EXTENDS Integers, FiniteSets

CONSTANTS Others,       \* threads that stop, interrupt and join the fibers
          MaxVersion,   \* versions are 0..MaxVersion (2^32 - 1 in the code)
          FirstVersion, \* of the slot in the initial state
          MaxStarts,    \* bound on the fibers that use the slot
          MaxSleeps,    \* bound on the calls of usleep
          MaxCalls      \* bound on the calls of the other threads

ASSUME BoundsAssumption == /\ MaxVersion \in Nat \ {0} /\ FirstVersion \in 1..MaxVersion
                           /\ MaxStarts \in 1..(MaxVersion - 1)
                           /\ MaxSleeps \in Nat /\ MaxCalls \in Nat

Versions == 0..MaxVersion
Sleeps == 1..MaxSleeps          \* the TaskIds of the timers; 0 is INVALID_TASK_ID

VARIABLES version,      \* *version_butex
          stop,         \* the version that the thread that set the flag was given,
          interrupted,  \* 0 when the flag is false
          curSleep,     \* current_sleep
          curWaiter,    \* current_waiter is not NULL
          fiber,        \* where the fiber is
          ready,        \* number of run queue entries with its tid
          nsleep,       \* the latest call of usleep
          adding,       \* per call of usleep: progress of its _add_sleep_event
          sleepVer,     \* per call of usleep: the version in its SleepArgs
          armed,        \* timers that the timer thread has yet to run
          pc,           \* per other thread: next step
          arg,          \* per other thread: version given, sleep_id taken
          starts, calls,
          early         \* auxiliary: a timer ran before its id was stored

metaVars == <<version, stop, interrupted, curSleep, curWaiter>>
sleepVars == <<nsleep, adding, sleepVer, armed>>
otherVars == <<pc, arg, calls>>
vars == <<metaVars, fiber, ready, sleepVars, otherVars, starts, early>>

NoArg == [ver |-> 0, sleep |-> 0]

Init == /\ version = FirstVersion /\ stop = 0 /\ interrupted = 0
        /\ curSleep = 0 /\ curWaiter = FALSE
        /\ fiber = "free" /\ ready = 0
        /\ nsleep = 0 /\ armed = {}
        /\ adding = [n \in Sleeps |-> "none"] /\ sleepVer = [n \in Sleeps |-> 0]
        /\ pc = [t \in Others |-> "idle"] /\ arg = [t \in Others |-> NoArg]
        /\ starts = 0 /\ calls = 0 /\ early = FALSE

-----------------------------------------------------------------------------
(* The fiber *)

\* start_foreground, start_background: current_sleep and current_waiter are not reset.
Start ==
    /\ fiber = "free" /\ starts < MaxStarts
    /\ starts' = starts + 1
    /\ stop' = 0 /\ interrupted' = 0
    /\ fiber' = "started" /\ ready' = ready + 1
    /\ UNCHANGED <<version, curSleep, curWaiter, sleepVars, otherVars, early>>

\* A worker takes the fiber from a queue and switches to it.
Run ==
    /\ ready > 0
    /\ ready' = ready - 1
    /\ fiber' = CASE fiber = "asleep" -> "woken"
                  [] fiber \in {"waiting", "erased"} -> "waited"
                  [] OTHER -> "run"
    /\ UNCHANGED <<metaVars, sleepVars, otherVars, starts, early>>

\* usleep: the timer is armed by the next task, in _add_sleep_event.
Usleep ==
    /\ fiber = "run" /\ nsleep < MaxSleeps
    /\ nsleep' = nsleep + 1
    /\ fiber' = "asleep"
    /\ adding' = [adding EXCEPT ![nsleep + 1] = "schedule"]
    /\ sleepVer' = [sleepVer EXCEPT ![nsleep + 1] = version]
    /\ UNCHANGED <<metaVars, ready, armed, otherVars, starts, early>>

\* Mutant: current_sleep is left as it is.
UsleepWoken_KeepSleep ==
    /\ fiber = "woken"
    /\ fiber' = IF curSleep = 0 /\ interrupted = 0 THEN "run" ELSE "slept"
    /\ UNCHANGED <<metaVars, ready, sleepVars, otherVars, starts, early>>

\* usleep after sched: without an id and an interruption it returns ESTOP.
UsleepWoken ==
    /\ fiber = "woken"
    /\ fiber' = IF curSleep = 0 /\ interrupted = 0 THEN "run" ELSE "slept"
    /\ curSleep' = 0
    /\ UNCHANGED <<version, stop, interrupted, curWaiter, ready, sleepVars, otherVars,
                   starts, early>>

\* It consumes all the interruptions so far; EINTR, ESTOP or success.
UsleepReturn ==
    /\ fiber = "slept"
    /\ fiber' = "run" /\ interrupted' = 0
    /\ UNCHANGED <<version, stop, curSleep, curWaiter, ready, sleepVars, otherVars,
                   starts, early>>

\* butex_wait: store current_waiter, and sched.
ButexWait ==
    /\ fiber = "run"
    /\ fiber' = "waiting" /\ curWaiter' = TRUE
    /\ UNCHANGED <<version, stop, interrupted, curSleep, ready, sleepVars, otherVars,
                   starts, early>>

\* A butex_wake, a timeout or a wait that need not block ends the wait.
ButexWoken ==
    /\ fiber = "waiting"
    /\ fiber' = "erased" /\ ready' = ready + 1
    /\ UNCHANGED <<metaVars, sleepVars, otherVars, starts, early>>

\* The spin for current_waiter, then the test of `interrupted'.
ButexWaitReturn ==
    /\ fiber = "waited" /\ curWaiter
    /\ fiber' = "run" /\ curWaiter' = FALSE /\ interrupted' = 0
    /\ UNCHANGED <<version, stop, curSleep, ready, sleepVars, otherVars, starts, early>>

-----------------------------------------------------------------------------
(* The end of the fiber: task_runner and _release_last_context *)

\* Mutant: the version may become 0.
NextVersion_Zero(v) == (v + 1) % (MaxVersion + 1)

NextVersion(v) == IF v = MaxVersion THEN 1 ELSE v + 1

\* The user function ends; the version changes under version_lock.
End ==
    /\ fiber = "run"
    /\ version' = NextVersion(version)
    /\ fiber' = "ended"
    /\ UNCHANGED <<stop, interrupted, curSleep, curWaiter, ready, sleepVars, otherVars,
                   starts, early>>

\* Mutant: only one joiner is woken.
WakeJoiners_One ==
    /\ fiber = "ended"
    /\ fiber' = "release"
    /\ LET blocked == {t \in Others : pc[t] = "joining"} IN
       pc' = [t \in Others |-> IF blocked # {} /\ t = CHOOSE u \in blocked : TRUE
                               THEN "join" ELSE pc[t]]
    /\ UNCHANGED <<metaVars, ready, sleepVars, arg, calls, starts, early>>

\* butex_wake_except(version_butex, 0)
WakeJoiners ==
    /\ fiber = "ended"
    /\ fiber' = "release"
    /\ pc' = [t \in Others |-> IF pc[t] = "joining" THEN "join" ELSE pc[t]]
    /\ UNCHANGED <<metaVars, ready, sleepVars, arg, calls, starts, early>>

\* In the next task: the slot goes back to the pool.
ReleaseLastContext ==
    /\ fiber = "release"
    /\ fiber' = "free"
    /\ UNCHANGED <<metaVars, ready, sleepVars, otherVars, starts, early>>

-----------------------------------------------------------------------------
(* _add_sleep_event, in the task that runs after the one that sleeps, and  *)
(* ready_to_run_from_timer_thread                                          *)

\* schedule(); when it fails (the timer thread was stopped) the fiber goes on.
AddSchedule(n) ==
    /\ adding[n] = "schedule"
    /\ \/ /\ armed' = armed \cup {n}
          /\ adding' = [adding EXCEPT ![n] = "store"]
          /\ UNCHANGED ready
       \/ /\ adding' = [adding EXCEPT ![n] = "done"]
          /\ ready' = ready + 1
          /\ UNCHANGED armed
    /\ UNCHANGED <<metaVars, fiber, nsleep, sleepVer, otherVars, starts, early>>

\* Mutant: an interruption that came first is not noticed.
AddStore_NoTest(n) ==
    /\ adding[n] = "store"
    /\ curSleep' = IF sleepVer[n] = version THEN n ELSE curSleep
    /\ adding' = [adding EXCEPT ![n] = "done"]
    /\ UNCHANGED <<version, stop, interrupted, curWaiter, fiber, ready, nsleep, sleepVer,
                   armed, otherVars, starts, early>>

\* Under version_lock: the id is stored for interrupt() to find, unless the
\* fiber has been interrupted or has ended.
AddStore(n) ==
    /\ adding[n] = "store"
    /\ IF sleepVer[n] = version /\ interrupted = 0
       THEN /\ curSleep' = n
            /\ adding' = [adding EXCEPT ![n] = "done"]
       ELSE /\ adding' = [adding EXCEPT ![n] = "unschedule"]
            /\ UNCHANGED curSleep
    /\ UNCHANGED <<version, stop, interrupted, curWaiter, fiber, ready, nsleep, sleepVer,
                   armed, otherVars, starts, early>>

\* unschedule() returns 0 when the timer has not begun to run: only then does
\* the caller make the fiber ready.
Unschedule(n) == /\ armed' = armed \ {n}
                 /\ ready' = IF n \in armed THEN ready + 1 ELSE ready

AddUnschedule(n) ==
    /\ adding[n] = "unschedule"
    /\ Unschedule(n)
    /\ adding' = [adding EXCEPT ![n] = "done"]
    /\ UNCHANGED <<metaVars, fiber, nsleep, sleepVer, otherVars, starts, early>>

TimerRuns(n) ==
    /\ n \in armed
    /\ armed' = armed \ {n}
    /\ ready' = ready + 1
    /\ early' = (early \/ adding[n] # "done")
    /\ UNCHANGED <<metaVars, fiber, nsleep, adding, sleepVer, otherVars, starts>>

-----------------------------------------------------------------------------
(* fiber_stop, fiber_interrupt and fiber_join of a fiber that has been     *)
(* started, in another thread                                              *)

Goto(t, l) == pc' = [pc EXCEPT ![t] = l]
Idle(t) == pc[t] = "idle" /\ calls < MaxCalls /\ calls' = calls + 1
\* The versions of the fibers that have been started.
Known == {((FirstVersion + k - 2) % MaxVersion) + 1 : k \in 1..starts}

\* The caller has the tid of the present fiber or of one that has ended.
Call(t, v, l) ==
    /\ Idle(t) /\ v \in Known
    /\ arg' = [arg EXCEPT ![t] = [ver |-> v, sleep |-> 0]]
    /\ Goto(t, l)
    /\ UNCHANGED <<metaVars, fiber, ready, sleepVars, starts, early>>

\* Mutant: the version is not compared.
SetStopped_AnyVersion(t) ==
    /\ pc[t] = "stop" /\ Goto(t, "interrupt")
    /\ stop' = arg[t].ver
    /\ UNCHANGED <<version, interrupted, curSleep, curWaiter, fiber, ready, sleepVars, arg,
                   calls, starts, early>>

SetStopped(t) ==
    /\ pc[t] = "stop" /\ Goto(t, "interrupt")
    /\ stop' = IF arg[t].ver = version THEN version ELSE stop
    /\ UNCHANGED <<version, interrupted, curSleep, curWaiter, fiber, ready, sleepVars, arg,
                   calls, starts, early>>

\* interrupt_and_consume_waiters, under version_lock.
Interrupt(t) ==
    /\ pc[t] = "interrupt"
    /\ IF arg[t].ver # version
       THEN Goto(t, "idle") /\ UNCHANGED <<interrupted, curSleep, curWaiter, arg>>
       ELSE /\ interrupted' = version
            /\ curSleep' = 0 /\ curWaiter' = FALSE
            /\ arg' = [arg EXCEPT ![t].sleep = curSleep]
            /\ Goto(t, IF curWaiter THEN "erase"
                       ELSE IF curSleep # 0 THEN "unschedule" ELSE "idle")
    /\ UNCHANGED <<version, stop, fiber, ready, sleepVars, calls, starts, early>>

\* Mutant: the fiber is made ready whatever unschedule() returned.
InterruptSleep_Always(t) ==
    /\ pc[t] = "unschedule" /\ Goto(t, "idle")
    /\ armed' = armed \ {arg[t].sleep} /\ ready' = ready + 1
    /\ UNCHANGED <<metaVars, fiber, nsleep, adding, sleepVer, arg, calls, starts, early>>

InterruptSleep(t) ==
    /\ pc[t] = "unschedule" /\ Goto(t, "idle")
    /\ Unschedule(arg[t].sleep)
    /\ UNCHANGED <<metaVars, fiber, nsleep, adding, sleepVer, arg, calls, starts, early>>

\* erase_from_butex_because_of_interruption
InterruptErase(t) ==
    /\ pc[t] = "erase" /\ Goto(t, "putback")
    /\ IF fiber = "waiting" THEN fiber' = "erased" /\ ready' = ready + 1
                            ELSE UNCHANGED <<fiber, ready>>
    /\ UNCHANGED <<metaVars, sleepVars, arg, calls, starts, early>>

\* set_butex_waiter
InterruptPutBack(t) ==
    /\ pc[t] = "putback" /\ Goto(t, "idle")
    /\ curWaiter' = (curWaiter \/ arg[t].ver = version)
    /\ UNCHANGED <<version, stop, interrupted, curSleep, fiber, ready, sleepVars, arg, calls,
                   starts, early>>

\* join: test the version and wait on version_butex while it is the one given.
JoinWait(t) ==
    /\ pc[t] = "join"
    /\ Goto(t, IF arg[t].ver = version THEN "joining" ELSE "idle")
    /\ UNCHANGED <<metaVars, fiber, ready, sleepVars, arg, calls, starts, early>>

\* butex_wait of a joiner that is itself interrupted
JoinInterrupted(t) ==
    /\ pc[t] = "joining" /\ calls < MaxCalls /\ calls' = calls + 1
    /\ Goto(t, "join")
    /\ UNCHANGED <<metaVars, fiber, ready, sleepVars, arg, starts, early>>

-----------------------------------------------------------------------------
AddStep(n) == AddSchedule(n) \/ AddStore(n) \/ AddUnschedule(n)
OtherStep(t) == \/ SetStopped(t) \/ Interrupt(t) \/ InterruptSleep(t)
                \/ InterruptErase(t) \/ InterruptPutBack(t) \/ JoinWait(t)
FiberStep == Run \/ UsleepWoken \/ UsleepReturn \/ ButexWaitReturn
             \/ WakeJoiners \/ ReleaseLastContext

Next == \/ Start \/ Usleep \/ ButexWait \/ ButexWoken \/ End \/ FiberStep
        \/ \E n \in Sleeps : AddStep(n) \/ TimerRuns(n)
        \/ \E t \in Others :
              \/ \E v \in Versions, l \in {"stop", "interrupt", "join"} : Call(t, v, l)
              \/ OtherStep(t) \/ JoinInterrupted(t)

\* Workers run the fibers that are ready and the callback that a switch left
\* behind, and the system runs the other threads.  No fairness of the timer: a
\* sleep may be as long as it likes.
Fairness == /\ WF_vars(FiberStep)
            /\ \A n \in Sleeps : WF_vars(AddStep(n))
            /\ \A t \in Others : WF_vars(OtherStep(t))

Spec == Init /\ [][Next]_vars /\ Fairness

-----------------------------------------------------------------------------
\* The variables have their types; the version of the slot is never 0, the version
\* of an invalid fiber_t (task_runner skips it).
TypeOK ==
    /\ version \in Versions \ {0} /\ stop \in Versions /\ interrupted \in Versions
    /\ curSleep \in 0..MaxSleeps /\ curWaiter \in BOOLEAN
    /\ fiber \in {"free", "started", "run", "asleep", "woken", "slept", "waiting",
                  "erased", "waited", "ended", "release"}
    /\ ready \in 0..2 /\ nsleep \in 0..MaxSleeps
    /\ adding \in [Sleeps -> {"none", "schedule", "store", "unschedule", "done"}]
    /\ sleepVer \in [Sleeps -> Versions] /\ armed \subseteq Sleeps
    /\ pc \in [Others -> {"idle", "stop", "interrupt", "unschedule", "erase", "putback",
                          "join", "joining"}]
    /\ arg \in [Others -> [ver : Versions, sleep : 0..MaxSleeps]]
    /\ starts \in 0..MaxStarts /\ calls \in 0..MaxCalls /\ early \in BOOLEAN

Suspended == fiber \in {"started", "asleep", "erased"}

\* Of the timer, the interrupters and _add_sleep_event, exactly one makes a fiber
\* that sleeps ready, whatever the order of their steps, and none makes ready a
\* fiber that runs, waits, has ended or has been replaced by the next one.
ResumedOnce ==
    /\ ready <= (IF Suspended THEN 1 ELSE 0)
    /\ fiber = "asleep" /\ ready = 0 => adding[nsleep] = "schedule" \/ nsleep \in armed

\* A stop or an interruption marks the fiber it was meant for and never a later
\* one that uses the same slot.
MarksOwn ==
    fiber \notin {"free", "ended", "release"} =>
       stop \in {0, version} /\ interrupted \in {0, version}

\* The CHECK of interrupt(), "a fiber cannot wait on a butex and be sleepy at the
\* same time", and what it rests on: current_sleep names the sleep that the fiber
\* is in.  It needs that a timer does not run before _add_sleep_event has stored
\* its id: a store that comes later leaves an id behind that nobody clears.
SleepIdLive ==
    ~early /\ curSleep # 0 => /\ ~curWaiter
                              /\ curSleep = nsleep /\ fiber \in {"asleep", "woken"}

\* A sleeping fiber is resumed once, by way of an id that names its sleep.
SleepSound == ResumedOnce /\ SleepIdLive

\* An interruption ends a sleep without the help of the timer, also when it comes
\* between the steps of _add_sleep_event (but not when an earlier timer was early).
InterruptEndsSleep ==
    (fiber = "asleep" /\ interrupted # 0) ~> (fiber # "asleep" \/ early)

\* Whoever joins a fiber returns once that fiber has ended, also when the slot has
\* been given to the next fiber before the joiner looks again.
JoinReturns ==
    \A t \in Others : (pc[t] \in {"join", "joining"} /\ arg[t].ver # version)
                         ~> pc[t] = "idle"
=============================================================================
