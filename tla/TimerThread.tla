----------------------------- MODULE TimerThread -----------------------------
(***************************************************************************)
(* TimerThread (src/eabase/fiber/timer_thread.cc): any thread schedules    *)
(* and unschedules tasks, one pthread runs them when they are due.         *)
(*                                                                         *)
(* Each section under a mutex, each operation on Task::version and each    *)
(* futex call is one step.  A Task taken from the resource pool is private *)
(* to schedule() until it is linked into a bucket, so filling and linking  *)
(* it is one step.  Tasks of a bucket form a set, and so does the heap,    *)
(* of which only the front is ever used.                                   *)
(*                                                                         *)
(* Bucket::consume_tasks reads _task_head without the mutex.  What it must *)
(* see is what happened before its last section under                      *)
(* TimerThread::_mutex: published[b] says that a task now in bucket b was  *)
(* linked by a schedule() that has since been through _mutex, and mustSee  *)
(* is the set of the buckets published when the timer thread cleared       *)
(* _nearest_run_time.  Any other non-empty bucket may look empty.          *)
(***************************************************************************)
EXTENDS Integers, FiniteSets

CONSTANTS Callers,       \* threads that call schedule()
          NumBuckets,    \* TimerThreadOptions::num_buckets
          Slots,         \* Task structs of the resource pool
          RunTimes,      \* the run times in use
          MaxTime,       \* bound on the clock
          MaxSchedules,  \* bound on the number of scheduled tasks
          VerMod,        \* versions are integers modulo VerMod (2^32 in the code)
          FirstVer,      \* version of every Task at start
          Stops,         \* subset of {"thread", "task"}: who calls stop_and_join()
          None

\* The thread on which a running task calls schedule(): the timer thread.
CONSTANT Callback

ASSUME BucketAssumption == NumBuckets \in 1..1024
ASSUME TimeAssumption == MaxTime \in Nat /\ RunTimes \subseteq 0..MaxTime
ASSUME VersionAssumption == /\ VerMod \in Nat /\ VerMod % 2 = 0 /\ VerMod > 4
                            /\ FirstVer \in 0..(VerMod - 1) /\ FirstVer % 2 = 0
ASSUME BoundAssumption == MaxSchedules \in Nat /\ 2 * MaxSchedules + 4 < VerMod
ASSUME ThreadAssumption == Callback \notin Callers /\ None \notin Slots
ASSUME StopsAssumption == Stops \subseteq {"thread", "task"}

VARIABLES version, taskVer, runTime, \* per slot: Task::version, the version in Task::task_id, Task::run_time
          free,                      \* slots in the resource pool
          tasks, bucketNearest,      \* per bucket: list at _task_head, Bucket::_nearest_run_time
          published, mustSee,        \* see above
          nearest, nsignals, stop,   \* TimerThread::_nearest_run_time, _nsignals, _stop
          tpc,                       \* next step of the timer thread
          index, pulled, heap,       \* its loop index, consumed list and min heap
          task1, wakeTime, expected, \* its about-to-run task, the arguments of its futex_wait
          pc, call,                  \* per caller: next step of schedule(), its locals
          stopper,                   \* progress of stop_and_join()
          now,                       \* the realtime clock
          fate                       \* what became of each TaskId ever issued

versions == <<version, taskVer, runTime, free, fate>>
buckets  == <<tasks, bucketNearest, published>>
shared   == <<nearest, nsignals>>
timer    == <<tpc, index, pulled, heap, task1, wakeTime, expected, mustSee>>
callers  == <<pc, call>>
vars == <<versions, buckets, shared, stop, timer, callers, stopper, now>>

Buckets == 0..(NumBuckets - 1)
Threads == Callers \cup {Callback}
Never == MaxTime + 1            \* std::numeric_limits<int64_t>::max()
Ver(n) == n % VerMod
TaskIds == Slots \X (1..(VerMod - 1))   \* make_task_id, INVALID_TASK_ID left out
TaskId(s) == <<s, taskVer[s]>>

Init ==
    /\ version = [s \in Slots |-> FirstVer]
    /\ taskVer = [s \in Slots |-> 0]
    /\ runTime = [s \in Slots |-> 0]
    /\ free = Slots
    /\ tasks = [b \in Buckets |-> {}]
    /\ bucketNearest = [b \in Buckets |-> Never]
    /\ published = [b \in Buckets |-> FALSE]
    /\ mustSee = {}
    /\ nearest = Never /\ nsignals = 0 /\ stop = FALSE
    /\ tpc = "none" /\ index = 0 /\ pulled = {} /\ heap = {}
    /\ task1 = None /\ wakeTime = Never /\ expected = 0
    /\ pc = [c \in Threads |-> "idle"]
    /\ call = [c \in Threads |-> None]
    /\ stopper = "idle"
    /\ now = 0
    /\ fate = << >>

\* start(): the thread is created before _started is set, and it does nothing
\* that depends on _started.
Start == /\ tpc = "none"
         /\ tpc' = "loop"
         /\ UNCHANGED <<versions, buckets, shared, stop, index, pulled, heap, task1,
                        wakeTime, expected, mustSee, callers, stopper, now>>

-----------------------------------------------------------------------------
(* schedule() *)

Goto(c, l) == pc' = [pc EXCEPT ![c] = l]
Return(c) == /\ Goto(c, "idle")
             /\ call' = [call EXCEPT ![c] = None]

\* A running task calls schedule() on the timer thread.
MayCall(c) == c = Callback => tpc = "running"

\* Past the test of _stop.
Schedule(c) ==
    /\ pc[c] = "idle"
    /\ MayCall(c)
    /\ tpc # "none" /\ ~stop
    /\ Cardinality(DOMAIN fate) + Cardinality({d \in Threads : pc[d] = "insert"}) < MaxSchedules
    /\ Goto(c, "insert")
    /\ UNCHANGED <<versions, buckets, shared, stop, timer, call, stopper, now>>

\* Mutant: version 0 is not skipped.
BucketSchedule_KeepZero(c, s, b, t) ==
    LET v == version[s]
        earlier == t < bucketNearest[b] IN
    /\ pc[c] = "insert"
    /\ s \in free
    /\ free' = free \ {s}
    /\ version' = [version EXCEPT ![s] = v]
    /\ taskVer' = [taskVer EXCEPT ![s] = v]
    /\ runTime' = [runTime EXCEPT ![s] = t]
    /\ tasks' = [tasks EXCEPT ![b] = @ \cup {s}]
    /\ bucketNearest' = [bucketNearest EXCEPT ![b] = IF earlier THEN t ELSE @]
    /\ published' = [published EXCEPT ![b] = @ \/ c = Callback]
    /\ fate' = [i \in DOMAIN fate \cup {<<s, v>>} |->
                    IF i = <<s, v>> THEN "pending" ELSE fate[i]]
    /\ IF earlier
       THEN /\ Goto(c, "global")
            /\ call' = [call EXCEPT ![c] = [id |-> <<s, v>>, bucket |-> b, time |-> t]]
       ELSE Return(c)
    /\ UNCHANGED <<shared, stop, timer, stopper, now>>

\* Bucket::schedule(): a TaskId never has version 0.
BucketSchedule(c, s, b, t) ==
    LET v == IF version[s] = 0 THEN 2 ELSE version[s]
        earlier == t < bucketNearest[b] IN
    /\ pc[c] = "insert"
    /\ s \in free
    /\ free' = free \ {s}
    /\ version' = [version EXCEPT ![s] = v]
    /\ taskVer' = [taskVer EXCEPT ![s] = v]
    /\ runTime' = [runTime EXCEPT ![s] = t]
    /\ tasks' = [tasks EXCEPT ![b] = @ \cup {s}]
    /\ bucketNearest' = [bucketNearest EXCEPT ![b] = IF earlier THEN t ELSE @]
    /\ published' = [published EXCEPT ![b] = @ \/ c = Callback]
    /\ fate' = [i \in DOMAIN fate \cup {<<s, v>>} |->
                    IF i = <<s, v>> THEN "pending" ELSE fate[i]]
    /\ IF earlier
       THEN /\ Goto(c, "global")
            /\ call' = [call EXCEPT ![c] = [id |-> <<s, v>>, bucket |-> b, time |-> t]]
       ELSE Return(c)
    /\ UNCHANGED <<shared, stop, timer, stopper, now>>

\* get_resource() fails: INVALID_TASK_ID.
BucketScheduleFails(c) ==
    /\ pc[c] = "insert"
    /\ Return(c)
    /\ UNCHANGED <<versions, buckets, shared, stop, timer, stopper, now>>

\* Mutant: the signal is not counted.
ScheduleGlobal_NoSignal(c) ==
    /\ pc[c] = "global"
    /\ IF call[c].time < nearest
       THEN /\ nearest' = call[c].time /\ nsignals' = nsignals /\ Goto(c, "wake") /\ UNCHANGED call
       ELSE Return(c) /\ UNCHANGED shared
    /\ published' = [published EXCEPT ![call[c].bucket] =
                         @ \/ \E s \in tasks[call[c].bucket] : TaskId(s) = call[c].id]
    /\ UNCHANGED <<versions, tasks, bucketNearest, stop, timer, stopper, now>>

\* The section of schedule() under TimerThread::_mutex.
ScheduleGlobal(c) ==
    /\ pc[c] = "global"
    /\ IF call[c].time < nearest
       THEN /\ nearest' = call[c].time
            /\ nsignals' = nsignals + 1
            /\ Goto(c, "wake")
            /\ UNCHANGED call
       ELSE /\ Return(c)
            /\ UNCHANGED shared
    /\ published' = [published EXCEPT ![call[c].bucket] =
                         @ \/ \E s \in tasks[call[c].bucket] : TaskId(s) = call[c].id]
    /\ UNCHANGED <<versions, tasks, bucketNearest, stop, timer, stopper, now>>

\* futex_wake_private(&_nsignals, 1): only the timer thread ever waits there.
FutexWake == tpc' = IF tpc = "asleep" THEN "loop" ELSE tpc

ScheduleWake(c) ==
    /\ pc[c] = "wake"
    /\ FutexWake
    /\ Return(c)
    /\ UNCHANGED <<versions, buckets, shared, stop, index, pulled, heap, task1,
                   wakeTime, expected, mustSee, stopper, now>>

-----------------------------------------------------------------------------
(* unschedule(), from any thread *)

UnscheduleResult(id) ==
    CASE version[id[1]] = id[2] -> 0
      [] version[id[1]] = Ver(id[2] + 1) -> 1
      [] OTHER -> -1

\* Mutant: unschedule() recycles the Task itself.
Unschedule_Recycle(id) ==
    /\ UnscheduleResult(id) = 0
    /\ version' = [version EXCEPT ![id[1]] = Ver(id[2] + 2)]
    /\ fate' = [fate EXCEPT ![id] = "removed"]
    /\ free' = free \cup {id[1]}
    /\ UNCHANGED <<taskVer, runTime, buckets, shared, stop, timer, callers, stopper, now>>

\* It changes the state only when it returns 0.
Unschedule(id) ==
    /\ UnscheduleResult(id) = 0
    /\ version' = [version EXCEPT ![id[1]] = Ver(id[2] + 2)]
    /\ fate' = [fate EXCEPT ![id] = "removed"]
    /\ UNCHANGED <<taskVer, runTime, free, buckets, shared, stop, timer, callers, stopper, now>>

-----------------------------------------------------------------------------
(* run(): the timer thread *)

Loop == /\ tpc = "loop"
        /\ tpc' = IF stop THEN "ended" ELSE "clear"
        /\ wakeTime' = Never /\ expected' = 0   \* locals of the loop body
        /\ UNCHANGED <<versions, buckets, shared, stop, index, pulled, heap, task1,
                       mustSee, callers, stopper, now>>

\* Clears _nearest_run_time before consuming the tasks of the buckets.
Clear == /\ tpc = "clear"
         /\ nearest' = Never
         /\ mustSee' = {b \in Buckets : published[b]}
         /\ index' = 0
         /\ tpc' = "pull"
         /\ UNCHANGED <<versions, buckets, nsignals, stop, pulled, heap, task1, wakeTime,
                        expected, callers, stopper, now>>

\* Mutant: the nearest run time of the emptied bucket is kept.
ConsumeTasks_KeepNearest ==
    /\ tpc = "pull" /\ pulled = {} /\ index < NumBuckets
    /\ tasks[index] # {}
    /\ pulled' = tasks[index]
    /\ tasks' = [tasks EXCEPT ![index] = {}]
    /\ published' = [published EXCEPT ![index] = FALSE]
    /\ mustSee' = mustSee \ {index}
    /\ index' = index + 1
    /\ UNCHANGED <<versions, bucketNearest, shared, stop, tpc, heap, task1, wakeTime, expected,
                   callers, stopper, now>>

\* Bucket::consume_tasks() of the bucket at index.
ConsumeTasks ==
    /\ tpc = "pull" /\ pulled = {} /\ index < NumBuckets
    /\ tasks[index] # {}
    /\ pulled' = tasks[index]
    /\ tasks' = [tasks EXCEPT ![index] = {}]
    /\ bucketNearest' = [bucketNearest EXCEPT ![index] = Never]
    /\ published' = [published EXCEPT ![index] = FALSE]
    /\ mustSee' = mustSee \ {index}
    /\ index' = index + 1
    /\ UNCHANGED <<versions, shared, stop, tpc, heap, task1, wakeTime, expected,
                   callers, stopper, now>>

\* The bucket is empty, or looks empty to the read outside the mutex.
SkipBucket ==
    /\ tpc = "pull" /\ pulled = {} /\ index < NumBuckets
    /\ index \notin mustSee
    /\ index' = index + 1
    /\ UNCHANGED <<versions, buckets, shared, stop, tpc, pulled, heap, task1, wakeTime,
                   expected, mustSee, callers, stopper, now>>

\* Task::try_delete() of the next consumed task.
TryDelete(s) ==
    /\ tpc = "pull" /\ s \in pulled
    /\ pulled' = pulled \ {s}
    /\ IF version[s] # taskVer[s]
       THEN free' = free \cup {s} /\ UNCHANGED heap
       ELSE heap' = heap \cup {s} /\ UNCHANGED free
    /\ UNCHANGED <<version, taskVer, runTime, fate, buckets, shared, stop, tpc, index, task1,
                   wakeTime, expected, mustSee, callers, stopper, now>>

Front(s) == s \in heap /\ \A r \in heap : runTime[s] <= runTime[r]

\* tasks[0] is due.
PickTask(s) ==
    /\ tpc = "pull" /\ pulled = {} /\ index = NumBuckets
    /\ Front(s)
    /\ now >= runTime[s]
    /\ task1' = s
    /\ tpc' = "compare"
    /\ UNCHANGED <<versions, buckets, shared, stop, index, pulled, heap, wakeTime, expected,
                   mustSee, callers, stopper, now>>

\* Mutant: the globally nearest run time is not looked at.
CompareNearest_Skip ==
    /\ tpc = "compare"
    /\ tpc' = "run" /\ heap' = heap \ {task1} /\ UNCHANGED task1
    /\ UNCHANGED <<versions, buckets, shared, stop, index, pulled, wakeTime, expected,
                   mustSee, callers, stopper, now>>

\* A task earlier than task1 was scheduled: pull again.
CompareNearest ==
    /\ tpc = "compare"
    /\ IF runTime[task1] > nearest
       THEN tpc' = "loop" /\ task1' = None /\ UNCHANGED heap
       ELSE tpc' = "run" /\ heap' = heap \ {task1} /\ UNCHANGED task1
    /\ UNCHANGED <<versions, buckets, shared, stop, index, pulled, wakeTime, expected,
                   mustSee, callers, stopper, now>>

\* Mutant: the version is tested and stored, not compared and exchanged.
RunTask_NoCas ==
    /\ tpc = "run"
    /\ version' = [version EXCEPT ![task1] = Ver(taskVer[task1] + 1)]
    /\ fate' = [fate EXCEPT ![TaskId(task1)] = "running"]
    /\ tpc' = "running"
    /\ UNCHANGED <<taskVer, runTime, free, task1, buckets, shared, stop, index, pulled, heap, wakeTime,
                   expected, mustSee, callers, stopper, now>>

\* Task::run_and_delete() up to the call of fn(arg).
RunTask ==
    /\ tpc = "run"
    /\ IF version[task1] = taskVer[task1]
       THEN /\ version' = [version EXCEPT ![task1] = Ver(@ + 1)]
            /\ fate' = [fate EXCEPT ![TaskId(task1)] = "running"]
            /\ tpc' = "running"
            /\ UNCHANGED <<free, task1>>
       ELSE /\ free' = IF version[task1] = Ver(taskVer[task1] + 2) THEN free \cup {task1} ELSE free
            /\ tpc' = "pull"
            /\ task1' = None
            /\ UNCHANGED <<version, fate>>
    /\ UNCHANGED <<taskVer, runTime, buckets, shared, stop, index, pulled, heap, wakeTime,
                   expected, mustSee, callers, stopper, now>>

\* Mutant: the version goes back to "not run yet".
DeleteTask_SameVersion ==
    /\ tpc = "running"
    /\ pc[Callback] = "idle" /\ stopper # "lockInTask"
    /\ version' = [version EXCEPT ![task1] = taskVer[task1]]
    /\ fate' = [fate EXCEPT ![TaskId(task1)] = "ran"]
    /\ free' = free \cup {task1}
    /\ task1' = None
    /\ tpc' = "pull"
    /\ UNCHANGED <<taskVer, runTime, buckets, shared, stop, index, pulled, heap, wakeTime,
                   expected, mustSee, callers, stopper, now>>

\* fn(arg) has returned.
DeleteTask ==
    /\ tpc = "running"
    /\ pc[Callback] = "idle" /\ stopper # "lockInTask"
    /\ version' = [version EXCEPT ![task1] = Ver(taskVer[task1] + 2)]
    /\ fate' = [fate EXCEPT ![TaskId(task1)] = "ran"]
    /\ free' = free \cup {task1}
    /\ task1' = None
    /\ tpc' = "pull"
    /\ UNCHANGED <<taskVer, runTime, buckets, shared, stop, index, pulled, heap, wakeTime,
                   expected, mustSee, callers, stopper, now>>

\* The realtime to wait for: nothing in the heap is due.
NextRunTime(t) ==
    IF heap = {} THEN t = Never ELSE now < t /\ \E s \in heap : Front(s) /\ t = runTime[s]

\* Mutant: a task announced since the buckets were pulled is not looked for.
PrepareWait_NoRecheck(t) ==
    /\ tpc = "pull" /\ pulled = {} /\ index = NumBuckets
    /\ NextRunTime(t)
    /\ tpc' = "wait" /\ nearest' = t /\ wakeTime' = t /\ expected' = nsignals
    /\ UNCHANGED <<versions, buckets, nsignals, stop, index, pulled, heap, task1, mustSee,
                   callers, stopper, now>>

\* The section of run() under _mutex before the wait.
PrepareWait(t) ==
    /\ tpc = "pull" /\ pulled = {} /\ index = NumBuckets
    /\ NextRunTime(t)
    /\ IF t > nearest
       THEN tpc' = "loop" /\ UNCHANGED <<nearest, wakeTime, expected>>
       ELSE tpc' = "wait" /\ nearest' = t /\ wakeTime' = t /\ expected' = nsignals
    /\ UNCHANGED <<versions, buckets, nsignals, stop, index, pulled, heap, task1, mustSee,
                   callers, stopper, now>>

\* futex_wait_private(&_nsignals, expected_nsignals, ptimeout)
FutexWait ==
    /\ tpc = "wait"
    /\ tpc' = IF nsignals = expected THEN "asleep" ELSE "loop"
    /\ UNCHANGED <<versions, buckets, shared, stop, index, pulled, heap, task1, wakeTime,
                   expected, mustSee, callers, stopper, now>>

FutexTimeout ==
    /\ tpc = "asleep" /\ wakeTime # Never /\ now >= wakeTime
    /\ tpc' = "loop"
    /\ UNCHANGED <<versions, buckets, shared, stop, index, pulled, heap, task1, wakeTime,
                   expected, mustSee, callers, stopper, now>>

-----------------------------------------------------------------------------
(* stop_and_join(), from another thread or from a running task *)

SetStop(who) ==
    /\ who \in Stops /\ stopper = "idle" /\ tpc # "none"
    /\ who = "task" => tpc = "running" /\ pc[Callback] = "idle"
    /\ stop' = TRUE
    /\ stopper' = IF who = "task" THEN "lockInTask" ELSE "lock"
    /\ UNCHANGED <<versions, buckets, shared, timer, callers, now>>

\* Mutant: only the signal is counted.
StopSignal_KeepNearest ==
    /\ stopper \in {"lock", "lockInTask"}
    /\ nsignals' = nsignals + 1
    /\ stopper' = IF stopper = "lock" THEN "wake" ELSE "done"
    /\ UNCHANGED <<versions, buckets, nearest, stop, timer, callers, now>>

StopSignal ==
    /\ stopper \in {"lock", "lockInTask"}
    /\ nearest' = 0
    /\ nsignals' = nsignals + 1
    /\ stopper' = IF stopper = "lock" THEN "wake" ELSE "done"
    /\ UNCHANGED <<versions, buckets, stop, timer, callers, now>>

StopWake ==
    /\ stopper = "wake"
    /\ FutexWake
    /\ stopper' = "join"
    /\ UNCHANGED <<versions, buckets, shared, stop, index, pulled, heap, task1, wakeTime,
                   expected, mustSee, callers, now>>

Join ==
    /\ stopper = "join" /\ tpc = "ended"
    /\ stopper' = "done"
    /\ UNCHANGED <<versions, buckets, shared, stop, timer, callers, now>>

Tick == /\ now < MaxTime
        /\ now' = now + 1
        /\ UNCHANGED <<versions, buckets, shared, stop, timer, callers, stopper>>

TimerStep ==
    \/ Loop \/ Clear \/ ConsumeTasks \/ SkipBucket
    \/ \E s \in Slots : TryDelete(s) \/ PickTask(s)
    \/ CompareNearest \/ RunTask \/ DeleteTask
    \/ \E t \in RunTimes \cup {Never} : PrepareWait(t)
    \/ FutexWait \/ FutexTimeout

BucketScheduleStep(c) ==
    \/ \E s \in Slots, b \in Buckets, t \in RunTimes : BucketSchedule(c, s, b, t)
    \/ BucketScheduleFails(c)

ScheduleStep(c) == BucketScheduleStep(c) \/ ScheduleGlobal(c) \/ ScheduleWake(c)
StopStep == StopSignal \/ StopWake \/ Join

Next == \/ Start \/ TimerStep \/ Tick \/ StopStep
        \/ \E c \in Threads : Schedule(c) \/ ScheduleStep(c)
        \/ \E id \in DOMAIN fate : Unschedule(id)
        \/ \E who \in Stops : SetStop(who)

Spec == Init /\ [][Next]_vars

-----------------------------------------------------------------------------
Times == 0..Never
Calls == [id : TaskIds, bucket : Buckets, time : RunTimes]

\* The variables have their types; INVALID_TASK_ID is never the result of schedule(),
\* though the version of a struct wraps around to 0 (Bucket::schedule skips it).
TypeOK ==
    /\ version \in [Slots -> 0..(VerMod - 1)]
    /\ taskVer \in [Slots -> 0..(VerMod - 1)]
    /\ runTime \in [Slots -> 0..MaxTime]
    /\ free \subseteq Slots /\ pulled \subseteq Slots /\ heap \subseteq Slots
    /\ tasks \in [Buckets -> SUBSET Slots]
    /\ bucketNearest \in [Buckets -> Times]
    /\ published \in [Buckets -> BOOLEAN]
    /\ mustSee \subseteq Buckets
    /\ nearest \in Times /\ nsignals \in Nat /\ expected \in Nat /\ stop \in BOOLEAN
    /\ tpc \in {"none", "loop", "clear", "pull", "compare", "run", "running",
                "wait", "asleep", "ended"}
    /\ index \in 0..NumBuckets
    /\ task1 \in Slots \cup {None}
    /\ wakeTime \in Times
    /\ pc \in [Threads -> {"idle", "insert", "global", "wake"}]
    /\ DOMAIN call = Threads
    /\ \A c \in Threads : IF pc[c] \in {"global", "wake"} THEN call[c] \in Calls ELSE call[c] = None
    /\ stopper \in {"idle", "lock", "lockInTask", "wake", "join", "done"}
    /\ now \in 0..MaxTime
    /\ DOMAIN fate \subseteq TaskIds
    /\ \A id \in DOMAIN fate : fate[id] \in {"pending", "running", "ran", "removed"}

\* A Task struct is in one place: the pool, a bucket, the list being consumed, the
\* heap, or being run.  So return_resource() is called once for each get_resource()
\* (timer_thread.cc:281, 285, 299), whatever unschedule() does meanwhile.
Being(s) == tpc \in {"run", "running"} /\ s = task1
OnePlace ==
    /\ \A s \in Slots :
           Cardinality({p \in {"free", "pulled", "heap", "run"} :
                            \/ p = "free" /\ s \in free
                            \/ p = "pulled" /\ s \in pulled
                            \/ p = "heap" /\ s \in heap
                            \/ p = "run" /\ Being(s)})
           + Cardinality({b \in Buckets : s \in tasks[b]}) = 1
    /\ tpc = "compare" => task1 \in heap

\* unschedule() tells the truth of every TaskId ever issued, also after its Task was
\* reused: 0 for a task that will now not run, 1 for one that is running, -1 for one
\* that has run or was unscheduled (timer_thread.h:73-78).
ResultIsFate ==
    \A id \in DOMAIN fate : CASE fate[id] = "pending" -> UnscheduleResult(id) = 0
                               [] fate[id] = "running" -> UnscheduleResult(id) = 1
                               [] OTHER -> UnscheduleResult(id) = -1

\* A task runs at most once, not before its time, and never once unschedule() has
\* returned 0 for it.
FateFollows ==
    [][\A id \in DOMAIN fate : fate'[id] # fate[id] =>
           \/ /\ fate[id] = "pending" /\ fate'[id] = "running"
              /\ now >= runTime[id[1]]
           \/ fate[id] = "pending" /\ fate'[id] = "removed"
           \/ fate[id] = "running" /\ fate'[id] = "ran"]_vars

\* A schedule() that found its task the earliest of bucket b has not yet been through
\* TimerThread::_mutex.
Announcing(b) == \E c \in Threads : /\ pc[c] = "global" /\ call[c].bucket = b
                                     /\ call[c].time = bucketNearest[b]

\* The timer thread has yet to empty bucket b in this round.
ToPull(b) == \/ tpc \in {"none", "loop", "clear", "ended"}
             \/ tpc = "pull" /\ index <= b /\ b \in mustSee

\* Every bucket that holds a task is known to the timer thread, will be emptied, or is
\* being announced.
BucketsKnown ==
    \A b \in Buckets :
        /\ \A s \in tasks[b] : bucketNearest[b] <= runTime[s]
        /\ tasks[b] # {} => nearest <= bucketNearest[b] \/ Announcing(b) \/ ToPull(b)

\* Asleep, the timer thread has a timeout no later than any task in the buckets and in
\* the heap, unless a wake-up is on its way.
NoMissedWakeup ==
    tpc = "asleep" =>
        \A s \in heap \cup UNION {tasks[b] : b \in Buckets} :
            \/ wakeTime <= runTime[s]
            \/ stopper = "wake" \/ \E c \in Threads : pc[c] \in {"global", "wake"}

\* "If a task earlier than task1 was scheduled during pulling from buckets, we'll know"
\* (timer_thread.cc:371-373): task1 is passed for running only if no earlier task is in
\* a bucket, except one whose bucket is still being announced.
EarliestFirst ==
    [][tpc = "compare" /\ tpc' = "run" =>
          \A b \in Buckets : \A s \in tasks[b] :
              runTime[s] < runTime[task1] => Announcing(b)]_vars

\* Every task is accounted for: its struct is in one place and unschedule() knows what
\* became of it.
TasksAccounted == OnePlace /\ ResultIsFate

\* A stop_and_join() made by a task is noticed before the timer thread waits again
\* (one made by another thread may not be: see the README).
StopInTaskNoticed == stopper = "done" => tpc \notin {"wait", "asleep"}

\* Nothing is overlooked while the buckets are emptied or the timer thread sleeps,
\* neither a task nor the stop.
NothingOverlooked == BucketsKnown /\ NoMissedWakeup /\ StopInTaskNoticed
=============================================================================
