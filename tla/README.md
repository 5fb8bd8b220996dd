# Verification of eabase's fiber runtime

`src/eabase` is a C++ base library. Its core is `src/eabase/fiber`, an M:N threading library
(user-level threads, "fibers", scheduled on a few worker pthreads) with its own blocking
primitive, timers, identifiers and queues. That is where the concurrency is, and it is what this
project models in TLA+, checks with TLC and proves with TLAPS. Of `src/eabase/utility`, a base
library, it models `IOBuf`, the zero-copy buffer whose blocks are shared between threads. The rest of
`utility` (largely sequential), `src/eabase/var` (statistics) and the vendored code are not modelled.

## 1. The system

### Components, their state and how they interact

| component | files (`src/eabase/fiber/` unless said) | state | operations | used by |
|---|---|---|---|---|
| work stealing queue | `work_stealing_queue.h` | `_bottom`, `_top`, ring buffer | `push`, `pop` (owner), `steal` (others) | `TaskGroup::_rq` |
| butex | `butex.cc` | value, list of waiters, `waiter_lock`; waiters on the callers' stacks | `butex_wait`, `_wake`, `_wake_all`, `_wake_except`, `_requeue` | mutex, condition, join, session, fd, countdown |
| control block | `task_meta.h`, `task_group.cc`, `fiber.cc` | version, `stop`, `interrupted`, `current_sleep`, `current_waiter` | start, `usleep`, end, `set_stopped`, `interrupt`, `join` | `fiber_*` functions |
| timer thread | `timer_thread.cc` | versioned `Task` structs, buckets, heap, `_nearest_run_time`, `_nsignals`, `_stop` | `start`, `schedule`, `unschedule`, `run`, `stop_and_join` | timed butex waits, `fiber_usleep` |
| session | `session.cc` | versions, lock word, join word, pending errors | create, lock, trylock, error, about_to_destroy, unlock, unlock_and_destroy, cancel, join | users |
| scheduler | `task_group*`, `task_control.*`, `parking_lot.h`, `remote_task_queue.h` | run queues, remote queues, `_num_nosignal`, parking lots | start, sched, yield, ready_to_run, flush, steal, signal, park | all of the above |
| execution queue | `execution_queue*.{h,cc}` | lock-free list of task nodes | execute, cancel, stop, join | users |
| mutex, condition | `mutex.cc`, `condition_variable.cc` | a butex word each | lock, timedlock, trylock, unlock, wait, signal, broadcast | users |
| countdown event | `countdown_event.cc` | a butex word | signal, wait, reset | users |
| keys, session lists, fd | `key.cc`, `list_of_abafree_id.h`, `fd.cc` | versioned tables | | users |
| IOBuf | `../utility/iobuf.cc`, `iobuf.h`, `iobuf_inl.h` | blocks with reference counts, references, chains of blocks per thread | append, cut, pop, assign, swap, read, zero-copy stream | users, network code |

A fiber blocks in `butex_wait`: it publishes an on-stack waiter, switches away, and the worker it
left queues the waiter under `waiter_lock`, perhaps with a timer. From then on three parties may
take it out of the queue: a thread that calls a wake function, the timer thread, and a thread that
interrupts the fiber. Whoever does puts the fiber into a run queue, a work stealing queue, from
which a worker takes it. Sessions, mutexes, conditions and joins are protocols on butex words.
An `IOBuf` stands apart: it blocks nobody, but the blocks its references point into are shared by
buffers of different threads without a lock.

### What is hard

* interleavings of owner and thieves on a lock-free deque with stale reads of `_top`;
* three parties racing for one waiter that lives on a stack and dies when its owner returns;
* wakeups lost between the test of a word and the suspension, between two mutexes, or between the
  last look at the queues and the parking of a worker;
* a timer callback racing its own cancellation; structs recycled under identifiers still in use;
* versions that wrap around, and 0 as the invalid identifier;
* stop, destroy and cancel while others are blocked;
* queues at their limit; an allocator that fails half way;
* counts that must stay exact while references are split, merged, moved and shared.

`PROJECT.json` lists these as hazards, each at its line, with the property that covers it. Where the code
itself goes wrong, the property excludes the case and a note says that it is not caught: these cases are in section 5.

### Properties that make each component correct

* queue: it is a deque: a pushed task is taken exactly once, LIFO by the owner, FIFO by thieves,
  never overwritten; every call returns;
* butex: a suspended fiber is in exactly one place; a waiter is not read or written after its frame is gone;
  no wakeup is lost; a wakeup is not reported as a timeout; waits with a timeout return;
* timer: a task runs at most once, not early, not after a successful unschedule; identifiers of
  recycled tasks are told apart; the thread never sleeps past a task; it stops when told to;
* execution queue: one executor while tasks are queued; each task executed or cancelled once, in
  order within its priority, high priority first; the stop callback once and last; join after it;
* session: one holder, of the current incarnation; queued errors have somebody to deliver them; the
  values of the lock word stay distinct; blocked lockers and joiners are woken;
* scheduler: a fiber is on one stack or in one queue; the workers never all sleep while a signalled
  task is queued;
* control block: a sleeping fiber is resumed exactly once; stop and interrupt reach the fiber they
  were meant for; an interruption ends a sleep; join returns;
* mutex and condition: exclusion; nobody queued is forgotten; no signal falls into a gap;
* IOBuf: a buffer is a plain sequence of bytes; one writer per block; exact counts.

## 2. Plan

1. *(done)* `WorkStealingQueue` with its abstract specification `TaskDeque`; proofs.
2. *(done)* `Butex`, `Session`, `TimerThread`, `ExecutionQueue`.
3. *(done)* `Scheduler`, `TaskMeta`, `MutexCond`, `IOBuf`.
4. Left: `ExecutionQueue` with `use_pthread`, whose thread uses the slot after it was recycled; the
   countdown event; the rest of `IOBuf` (`resize`, `appendv`, `IOBufCutter`); session lists and keys.
5. *(done)* Proofs of the safety properties of `WorkStealingQueue`, `Butex`, `TaskMeta`, `MutexCond`,
   `Session`, `Scheduler`, `TimerThread` and `ExecutionQueue`. `IOBuf` is left to TLC (section 6).

How the modules fit together: each one sees its neighbours through what they promise. `Scheduler`
uses run queues that are the deque of `TaskDeque`, which `WorkStealingQueue` implements. `TaskMeta`
sees a run queue as a count of entries, the timer as the set of armed tasks, and a butex as a wait
that anybody may end; `MutexCond` and `Session` see a butex as a queue with an atomic
compare-and-queue.

## 3. Modules

### WorkStealingQueue, TaskDeque, WorkStealingQueue_proofs

Each access to `_bottom`, `_top` and the buffer is one step of the worker's program counter `pc`;
`b`, `t`, `x` are its locals. `_bottom` and `_top` start at 1 and are natural numbers (64 bits wide
in the code; they do not wrap in the life of a program). Memory is sequentially consistent where the code has
`seq_cst` fences or CASes; the first loads of `_top` in `push`, `pop` and `steal` are not ordered by
any fence and may return any value between the last one the worker saw and the current one.
Reordering of the other relaxed accesses is not modelled.

`TaskDeque` is the promise: a sequence, with push and pop at one end and steal at the other.
`ImplementsDeque` is the refinement: the abstract sequence is the buffer between `_top` and
`_bottom`, corrected by the position of an owner that is inside `pop`.

### Butex

One action per critical section or atomic access. `waiter_lock` is implicit (a section is one step)
except in `wait_for_butex`, whose test of `TaskMeta::interrupted` is not protected by the lock: that
section is two steps and `lock[b]` names the fiber inside. `bw[w]` is the on-stack waiter, alive
while `pc[w] # "idle"`. `ready[f]` counts how often the fiber is in run queues. The waiters that a wake
function has detached are in `held`, and what it does to them after releasing the lock is done one step
at a time, in the order of the code: signal the pthreads, then unschedule the timer of a fiber and ready
it, from the last one back; `next` is the first fiber, which `butex_wake_all` unsleeps before the others
and readies after them. Time is abstract: a scheduled timer
may fire at any moment. Pthreads are those outside the workers (`tls_task_group` is NULL), which cannot be interrupted.

A pthread compares `sig` and sleeps in one step (`PthreadSleep`, the futex call), and `wakeup_pthread` is two: it
sets `sig` (`WakeupPthread`) and then wakes the futex (`FutexWake`). In between the pthread may
return from `butex_wait` and start the next one, so the second step may find nobody, or a later wait of the same
pthread, which then goes round its loop. `futex[k]` is the pthread whose futex the waker `k` has still to wake.
A sleep may end with EINTR at any moment, and a timeout that is near ends the wait without a look at `sig`.

### TimerThread

One action per section under a mutex, operation on `Task::version`, or futex call. `fate` is a
history variable: what happened to each TaskId ever issued. `Callback` is the timer thread itself
when a running task calls `schedule()`. `Bucket::consume_tasks` reads `_task_head` outside the mutex: the model lets it
see an empty bucket whenever no task in it was published through `TimerThread::_mutex` before the
timer thread's own last section there (`published`, `mustSee`). `int64_t` maximum is `Never`. Realtime
only moves forward.

### Session

One slot of the resource pool used by successive incarnations; one action per section under
`Id::mutex`. Creation does not take the mutex: `*butex`, `*join_butex`, `first_ver`, `locked_ver` and the `make_id` that
reads `*butex` again are steps of their own (`CreateBegin` to `CreateId`), between which any call with an old
identifier may run. The butex is seen as its callers see it: compare-and-queue is one step, a wake function
takes waiters off the queue, an interrupted waiter leaves it. Versions are modulo `VerMod`. Threads obey `session.h`:
only the holder unlocks, destroys or calls `about_to_destroy`. `stranded` is auxiliary: it becomes
true when the code leaves a waiter behind in one of three known ways (section 5), after which
`NobodyForgotten` claims nothing about waiters. `intruded` is auxiliary too: a call has passed `has_version()`
(`Addressed`) while the slot was being created. That takes an old identifier and versions that restart at 1; the
properties are claimed up to then (section 5).

### ExecutionQueue

One slot, used by successive incarnations. Each operation on an atomic (`_head`, `_versioned_ref`,
`_stopped`, `_high_priority_tasks`, `_join_butex`) and each section under `TaskNode::mutex` is a step.
The nodes that the executor has reversed and linked are seen by nobody else and are the sequence
`list` among its locals; `node[n].next` is kept for the nodes that are still only reachable from
`_head`. The executor is a fiber or, in place, the producer itself: both take the same steps. The
user's execute function iterates to the end. `tasks`, `stopRuns` and `joined` are history: the tasks
in the order of the exchanges of `_head` with what became of them, the incarnations whose execute
function was told to stop, and those that were joined.

### Scheduler

A fixed set of workers of one tag, each with `rq` and `remote`, and pthreads outside. A worker
without a task pops its remote queue, saves the state of its parking lot, looks at the queues one
step at a time (`left`) and parks. The state of the lot is abstracted to `missed`: has it changed
since it was saved? `signal_task` visits the lots one step at a time, starting at its own, and stops
when it has woken enough (at most two). A fiber that starts another, yields or suspends leaves its
remained callback in `op`, which the worker executes on the next stack. Queues at capacity make the
push wait, after a flush of the tasks not signalled yet. `quiet` is auxiliary: queued fibers that
`ready_to_run_in_worker_ignoresignal` pushed without a signal.

### TaskMeta

One slot and the fibers that use it one after the other. Each section under `version_lock`, each
call of the timer and each step of `interrupt` is an action; `_add_sleep_event` runs on the next
stack and has its own progress per call (`adding`), because the timer may resume the fiber, and the
fiber may end or sleep again, before it is through. `stop` and `interrupted` hold the version they
were meant for instead of TRUE. `early` is auxiliary: a timer ran before `current_sleep` was stored.

### MutexCond

The mutex word, the sequence number of the condition and the queues of their butexes, used by
consumers that wait for items and producers that add one and signal or broadcast, under the mutex or
after it. `trylock` is the fast path of `lock`. Timeouts and interruptions take a waiter off its queue at any moment,
and a pthread that was woken may still report a timeout (`butex.cc:173`). `lost` is auxiliary: that
has happened to a `timedlock` or `timedwait`.

### IOBuf

An operation is one step, since a buffer belongs to one thread at a time; the interest lies in
sequences of operations of several threads on buffers that share blocks. A view is the sequence of references and the
`nbytes` of the big view, whose ring buffer of references is abstracted to that sequence. `block`
has the counts and bytes, `tls` the chain of each thread, `portal` the blocks cached by an
`IOPortal`, `stream` an `IOBufAsZeroCopyOutputStream`. The allocator may fail: there are `NBlocks`
blocks. `BackUp` takes back any number of the bytes written through the stream, until the caller says that its
message is complete (`StreamDone`) and the buffer may be used otherwise. So the extended `BackUp`, without a
`_cur_block`, is taken as well, except where `BackUpRefs` calls it `unsafe` (`UnsafeBackUp`, section 5).
`text`, auxiliary, is what each buffer should hold. Everything read from a file is nondeterministic.

## 4. Runs

| run | bounds | shows |
|---|---|---|
| `wsq` | owner, 2 thieves, capacity 2, `_bottom` up to 4, fair | types, inductive invariant, refinement of the deque, every call returns |
| `butex_ops` | 1 fiber and 1 pthread with timeouts, 2 butexes, 2 wakers with all wake functions, 1 interrupter | one place, container, waiter alive, signal heard (`WaiterSound`), a wakeup is no timeout, while waiters are requeued |
| `butex_liveness` | 1 fiber, 1 pthread, 1 waker, 1 interrupter, 1 butex, fair | no lost wakeup, `butex_wait` returns |
| `butex_interrupt` | 1 fiber, 1 interrupter, fair | violated, see section 5 |
| `session` | 3 threads, every function, 2 incarnations, 2 pending errors, ranges up to 2, versions modulo 20 starting at 12 | exclusion and no ABA, values of the word stay apart, errors, lockers and joiners have somebody to see to them; explored up to the first intrusion (`CONSTRAINT NotIntruded`) |
| `timer` | 2 callers and the callbacks, 2 buckets, 2 structs, 2 tasks at 3 times, versions passing 0, both ways to stop | fates, recycling, order, no missed wakeup, a stop from a task is noticed |
| `execq_order` | 2 producers, 4 tasks (normal, high priority, in place), 3 nodes, cancel | one executor, FIFO, priority, executed or cancelled once, no CHECK fails |
| `execq_stop` | 2 threads, 2 incarnations, 1 task, stop and join, fair | stop callback once and last, slot recycled once, join returns |
| `scheduler` | 2 workers on 2 lots, 1 pthread, 3 fibers, queues of 1 slot, 1 suspension | one place, no idle workers with work |
| `taskmeta` | 2 fibers in one slot, version wrapping at 4, 2 sleeps, 2 threads with 3 calls, fair | one resume per sleep, marks, interruption ends a sleep, join returns |
| `mutexcond` | 2 fibers, 1 pthread, 3 locks, 2 timeouts or interruptions, fair | exclusion, nobody forgotten on the mutex, items wake consumers |
| `iobuf` | 2 threads, 2 buffers, 2 blocks of 2 bytes, 3 bytes in all, 1 block kept per thread, `BackUp` of all that was written | contents, one writer, exact counts |

The bounds are chosen so that each race has all its parties (owner and two thieves on a full and on
a one-element queue; waker, timer and interrupter on one waiter; a destroyed and reused slot with a
locker asleep on the old one; a struct recycled while its first identifier is still used; two
sleeping workers and a signaller on a third thread; a fiber replaced in its slot while its old
`_add_sleep_event` is on its way), so that the ring buffer wraps and the version words pass their
maximum. In `iobuf` three bytes give views of three references, the smallest big view, and an
allocator that is exhausted in the middle of an append; trimming a reference of a big view takes
four bytes, and TLC has also finished that instance (`MaxLength = 4`, `Data = {<<1, 2>>}`,
`MaxCounts = {3}`, 239 thousand states) with the same result. So has it that of `timer` with three
tasks at two times (6.4 million states), and that of `scheduler` with four fibers (4.6 million states), in
which a worker can be woken for one task, take another and then wait for a slot (see section 5).

Symmetry is used only for interchangeable fibers, threads, butexes, buffers and structs, and only in runs
without liveness. The view of `iobuf` hides the bytes of blocks that no buffer refers to.

Deadlock is checked except where the system may rightly stop: all threads blocked in join
(sessions, execution queue), all scheduled tasks done (timer), all bounded calls made, all workers
parked or, as the comment in `push_rq` admits, all spinning on full queues.

### Fairness

A thread inside a function keeps taking steps: weak fairness, and strong fairness in `butex` where
it competes for `waiter_lock`, because pthread mutexes do not starve in practice but the lock can be
taken and released in between. The strong fairness of a pthread's steps leaves out falling asleep, and an EINTR is never
owed: the timeout comes however often the sleep is interrupted, and a futex that is woken lets the pthread see `sig`. Nobody is obliged to make a call; in `execq_stop` a queue is created. In `taskmeta` the timer is not fair:
an interruption must end a sleep without its help. In `mutexcond` critical sections end and a producer that
has added an item signals; timeouts and interruptions are not fair. `session`, `timer`, `scheduler`
and `iobuf` state safety only: that somebody is there to wake each waiter, or that the thread about to
sleep is bound to notice, is an invariant.

## 5. Findings

One run is expected to be violated: `butex_interrupt`. An interruption that comes after
`wait_for_butex` tested `interrupted` and before it queued the waiter is remembered, but the fiber
sleeps on (`butex.cc:545`; `fiber.h:70` promises a reliable wakeup).

Other behaviours met while modelling; the properties exclude them by the auxiliary variable named,
and TLC shows each when the exclusion is removed:

* `session.cc:474` (`stranded`): two lockers wait; unlock wakes one; a third party locks the session
  again, uncontended, and calls `about_to_destroy`; the woken locker gets EPERM; the plain unlock
  that cancels it finds no contended mark and wakes nobody: the other locker sleeps on.
* `session.cc:424` (`stranded`): `lock_and_reset_range` makes the new `locked_ver` equal to the old
  `contended_ver`, and a locker between its section and its wait sleeps without a mark being set.
* `session.cc:499` (`stranded`): `cancel` leaves lockers and joiners asleep; `session.h` allows it
  on never-used identifiers only.
* `session.cc:337-338, 370-371` (`intruded`): when the versions restart at 1, `first_ver` is 1 while `locked_ver` is
  still the end of the last incarnation, and `has_version()` is true of every old identifier. TLC, with `NoIntruder` as an
  invariant and no constraint, needs eleven states: create, `cancel`, create up to the store of `first_ver`; now a lock with the identifier
  of the first incarnation succeeds and stores the old `locked_ver` in `*butex`, which the creator reads again for
  `locked_ver` and the identifier. `session.h:27` says "No ABA". It takes 2^32 versions of
  one slot, and a call in a window of one store; `NoIntruderCorrect` proves that nothing else opens it.
* `butex.cc:126-131`: `futex_wake_private` is called with the address of `sig` in a waiter that may be gone, as the
  comment there says. `WaiterAlive` is therefore about the reads and writes of the waiter; what the kernel is handed is
  `futex`, and the worst it does is to wake a later sleep for nothing.
* `timer_thread.cc:345`: `stop_and_join` from another thread, between the test of `_stop` and the
  clearing of `_nearest_run_time`, is forgotten and the join does not return. `NothingOverlooked`
  speaks of stops from a task only.
* `task_group.cc:768` (`early`): when the timer runs before `_add_sleep_event` has stored the
  identifier, the store leaves a stale one behind, and a later interruption of the same fiber meets
  `CHECK(!sleep_id || !w)`.
* `butex.cc:173` (`lost`): a pthread woken by `unlock` at the moment of its timeout drops the wakeup,
  and the next waiter sleeps until somebody contends for the mutex again.
* `task_group_inl.h:76`: a worker that was woken for a signalled task may take another one first and then
  spin on its own run queue, full of fibers that were pushed without a signal; nobody else was woken
  for the task, which waits. `NoIdleWithWork` claims nothing while a worker spins on such a queue. The
  instance of the run is too small for this: the attempt to prove the property found it, and TLC
  confirmed it with four fibers.
* versions of sessions (`session.cc:331`): a locker or joiner that sleeps through 2^32 versions finds the
  word it expects again; the theorem about `NobodyForgotten` assumes that this does not happen (`NoLap`).
* `iobuf.cc:1994-2018` (`UnsafeBackUp`): the extended `BackUp` takes up a block that was released before. `iobuf.h:584` allows
  it for as much as `ByteCount()`, and the run takes these calls, except in two cases. A thread or a portal keeps the block by now:
  `Next`, `BackUp(1)`, `BackUp(1)` in one thread links it into the chain twice, and TLC finds `OneWriter` violated. Or somebody else
  has used the rest of the block and given it up: `BackUp` logs FATAL (line 2002) and the bytes stay, and TLC finds
  `Contents` violated. Both with `UnsafeBackUp = TRUE`. The calls of the test
  `extended_backup` (`iobuf_unittest.cc:1110`), which needs two full blocks, are among those of the instance with four bytes
  (section 4); `backup_iobuf_never_called_next`, where
  `ByteCount()` becomes negative, is not modelled.

`dereference()` (`execution_queue_inl.h:532`) reads `_this_id` after it has given up its reference,
so that it may log FATAL "Invalid id" when another thread has meanwhile recycled the slot and a new
queue was created in it. `execq_stop` reaches this and shows that nothing is lost (part of
`StopSound`). Nor is a stopped queue recycled while users address the dead id in such a rhythm that
each failing call spoils the CAS of the one before; `StopEnds` excludes that.

## 6. Proofs

Each `M_proofs` module extends the module `M` and proves theorems about its `Spec` for every value of
the constants that satisfies the named assumptions of `M`; TLC evaluates these on every run. Each proof
has the same form: an invariant `IInv` that `Init` implies and every action preserves, one step for each
action, and the property from it. TLC has checked every one of these invariants on the instance of the run,
and mostly on larger ones, before it was proved.

| module | theorems | assumptions |
|---|---|---|
| `WorkStealingQueue_proofs` | `TypeCorrect`, `InvCorrect`, `ImplementsDequeCorrect` | capacity a power of two, owner not a thief |
| `Butex_proofs` | `TypeCorrect`, `WaiterSoundCorrect`, `WakeNotLostCorrect`, and `NoLostWakeupCorrect` when the wakers use `butex_wake_all` | fibers, pthreads, timers, interrupters and wakers are different |
| `TaskMeta_proofs` | `TypeCorrect`, `SleepCorrect`, `MarksCorrect`, `WaiterCorrect` | fewer starts of the fiber than versions |
| `MutexCond_proofs` | `TypeCorrect`, `MutexCorrect`, `WakerCorrect` | finitely many fibers and pthreads |
| `Session_proofs` | `TypeCorrect`, `HeldCorrect`, `VersionsCorrect`, `NobodyCorrect` under `NoLap`, `NoIntruderCorrect` under `NoWrap` | a range fits into the versions |
| `Scheduler_proofs` | `TypeCorrect`, `OnePlaceCorrect`, `NoIdleCorrect` | every thread has a lot, capacities are not zero, workers and other threads are different |
| `TimerThread_proofs` | `TypeCorrect`, `AccountedCorrect`, `FateCorrect`, `OverlookedCorrect`, `EarliestCorrect` | the tasks do not use up the versions of a struct |
| `ExecutionQueue_proofs` | `TypeCorrect`, `ExecutorCorrect`, `OrderCorrect`, `StopCorrect`, `FateCorrect` | finitely many nodes, fibers and callers are different |

The modules with queues (`Butex`, `MutexCond`, `Session`, `Scheduler`) begin with what their proofs need of
them: the members of a list, and whether they are different, after an append, a concatenation, a removal
at either end or in the middle; and counting.

**WorkStealingQueue.** `Inv` is inductive as it stands. It says, for each label of `pop` and `steal`, how the worker's
locals relate to `_top` and `_bottom`: positions between `_top` and `_bottom` are at most a capacity
apart even when the owner used a stale `_top` (a stale value only makes it refuse room that is
there); the owner inside `pop` has reserved one position and nobody but the winner of the CAS may
take it; a thief whose `_top` is still current has read the element that is there. The refinement
needs that distinct positions of a window no longer than the capacity map to distinct slots
(`SlotInjective`), so that a push does not overwrite a queued element.

**Butex.** `OnePlace` counts; the proof says it without counting (`Place`): a waiter that is queued or in somebody's
hands is suspended and not yet woken, nobody else has it, and a suspended one is queued, in somebody's hands
or woken. `QueueInv` ties the queue to the container, so that `erase_from_butex`, which finds the
container unchanged under the lock, removes a waiter that is there. Three facts keep the owners apart: a timer
that is not idle belongs to a fiber that has not yet passed `unsleep_if_necessary` (`TimerInv`); the waiter of a
fiber is in `current_waiter` or with one interrupter, and the fiber does not return without it
(`InterruptInv`); the fiber inside `wait_for_butex` has the lock of its own butex (`LockInv`). `StateInv`
says that the state of a queued or detached fiber is still READY, which is `WakeNotLost`. `NoLostWakeup` needs
one more state: the fiber that has compared the value and holds the lock but is not queued yet
(`ValueInv`). That a sleeping pthread hears its signal is an invariant of its own (`HearInv`): `sig` is set and the
futex owed in the same step, and a pthread that falls asleep has found `sig` clear. `NoLostWakeup` is stated for
`butex_wake_all`; the other wake functions leave waiters behind, or move them, on purpose.

**TaskMeta.** `SleepSound` and `MarksOwn` speak of the fiber; the invariant follows what others hold of it. The
right to resume the latest sleep is with `_add_sleep_event` until it has called `schedule()`, then with the
armed timer, then in a run queue (`SleepInv`); the waiter of a blocked fiber is in `current_waiter` or with
one interrupter that will put it back, and the fiber waits for that, so its version cannot change under
the interrupter (`WaiterInv`, itself the theorem `WaiterCorrect`).

**MutexCond.** The word of the mutex is free exactly when nobody holds it (`HolderInv`), a thread is queued
on one of the two butexes exactly when its label says so (`QueueInv`), and an unlock does not return into the
critical section as a signal does (`ReturnInv`). `MutexWaitersHaveWaker` is inductive with these. `CountInv`
counts: every item and every notification is due to a call of its own, which bounds `seq`.

**Session.** As long as there was no intrusion, `IInv` says that one thread at most creates and that nobody holds the
session meanwhile, how far its stores have come, and it bounds the words of a live session: in order,
below the wrap-around, and the holder's identifier within the range. `NoIntruderCorrect` adds that all identifiers given
out lie below the words of a slot that is free or being created (`FreshInv`). It holds while the versions cannot restart,
`FirstVer + (MaxCreates + 1) * Step < VerMod` (`NoWrap`); then the exclusion of `intruded` is empty.
For `NobodyForgotten` a thread that is about to wait must not meet its expected word again in a later incarnation. `WaitInv` measures how far the versions have travelled since the
start (`Dist`, `Travel`): each incarnation moves them by its range and at most four more, so that an old word
stays behind as long as `(MaxCreates + 1) * Step < VerMod`, the hypothesis `NoLap` of `NobodyCorrect`. In the
code `VerMod` is 2^32; the run satisfies `NoLap` and passes 0 all the same.

**Scheduler.** `IInv` says where a fiber can be (`PlaceInv`), what state it is in there (`StateInv`) and what a
remained callback refers to (`OpInv`). For `NoIdleWithWork`, `SleepInv` follows a worker that is about to
park: every queue that it has looked at was empty of signalled tasks or has changed since, in which case its
lot has changed (`missed`), or whoever changed it is still signalling and has not come to that lot yet, or
has woken somebody else, who is on the way to the queues (`OwnInv`, `WakeInv`).

**TimerThread.** A struct is in one place (`PlaceInv`); its present task is pending, running or removed and its
version says which, while all earlier tasks of the struct are done (`FateInv`, `VerInv`). The last step is that a version does
not come back to one already used: `Pos` is the distance from the first version, `Owed` what the present
task still adds, and `RoomInv` bounds their sum by two for every task ever scheduled and two more for
the 0 that is skipped. So `BoundAssumption` (`2 * MaxSchedules + 4 < VerMod`, 2^32 in the code) is
what makes identifiers unique. For the sleep, a non-empty bucket was published through
`TimerThread::_mutex` or is about to be by somebody who announces the earliest task that is in it
(`BucketInv`); the timeout is `_nearest_run_time` unless `_nsignals` has moved on, and then its wake-up is
on the way (`WaitInv`). `FateFollows` and `EarliestFirst` are action properties: every step of `Next` from
a state of the invariant is one of theirs.

**ExecutionQueue.** `IInv` has five parts.

* `SlotPart`: `_versioned_ref` counts the references that callers hold and the one of `create()`
  (`RefInv`, over the sets of those who hold at least one and at least two). So whoever has a reference
  to the present queue keeps it from being recycled, and of those who saw the count go to 0 only the winner of
  the CAS, from the odd version of a stopped queue, pushes the stop task (`VersionInv`, `HolderInv`). Each version that was handed out, other than
  the present one, has been told to stop, exactly once (`StopRunInv`).
* `NodePart`: a node is in the pool, with one producer before its exchange, or in the queue; it carries a
  task whose fate its status shows; a handle is of the node's present task or has an older version.
* `QueuePart`: the rank of a node is its place in the order of the exchanges of `_head`. The executor's
  list has consecutive ranks (`ListInv`); behind it each node is linked to the one of the rank below or is
  still being linked by its producer (`ChainInv`, `LinkInv`); whoever has a list is alone with it, except
  for the last node of one that has given up `_head` (`FinishInv`); and every node that has not been iterated
  is at or behind the front of the executor's list (`LiveInv`: no task is lost).
* `CountPart`: `_high_priority_tasks` is the number of high-priority tasks counted and not iterated,
  plus those of the present pass, which are subtracted at its end. A pass over normal tasks that goes on to its next
  task has found the counter 0, so a pending high-priority task has not been passed over yet (`LateInv`):
  it waits for one normal task at most.
* `StopPart`: there is one stop task, behind all others, and after it nobody but its executor is at
  the slot.

With it goes `FreshInv`: a producer that has not entered `start_execute()` has not begun to iterate.
`_more_tasks()` reverses the links between the new head and the old tail, which are a list of any
length. Two inductions are needed: that the recursive function `Walk`, which follows the links, exists, and
that its i-th node has the i-th rank below the new head's (`WalkSteps`, `SweepWalk`). They are carried out as
proofs that the set of counterexamples, a set of numbers, has no least element (`LeastOf`, from the
library's `WFMin`). `ExecutorCorrect` also says that no CHECK fails: no count below
zero, no node returned that was not executed, nothing left in a slot that goes back to the pool.

Only model-checked:

* the liveness properties (`CallsReturn`, `WaitsEnd`, `StopEnds`, `InterruptEndsSleep`, `JoinReturns`,
  `ItemsWakeConsumers`), which need fairness;
* `IOBuf` (`TypeOK`, `Contents`, `OneWriter`, `RefCounts`): nearly each operation is a fold over the
  references of a view or over the bytes that are appended, and what a fold computes for every list takes
  induction over data. The library's induction theorems take an operator as a parameter, which the provers cannot
  instantiate; the detour over least elements that `Walk` took would have to be made for each of the folds, in the
  form in which the community modules define them.

## 7. Not modelled

`wait_for_butex` when `TimerThread::schedule()` fails: the global timer thread is never stopped, so
this takes an exhausted memory. The code then locks `waiter_lock` again inside its own section
(`butex.cc:553`) and would not return.

The pthread mode of the execution queue, the countdown event, keys, session lists and fd waiting are
planned or left out as said in `PROJECT.json`. The scheduler leaves out adding workers, several tags,
`stop_and_join` of the workers, and fibers that run on a pthread's stack. The context switch and stacks are
assembly and memory mapping. Weak memory beyond what is said above is not modelled. Resource and
object pools appear only as sets of free structs. `IOBuf` leaves out what only reads, what writes to
files and SSL (each ends with `pop_front`), appending a buffer to itself (`iobuf.cc:1131`
reads references from the array that the push may replace), and delimiters that begin with a zero byte or
have characters from 0x80 on (the signature of `iobuf.cc:895` starts at zero and extends the sign).
`CountdownEvent::reset` (`countdown_event.cc:82`) changes the count without waking those who wait on it.

The models cover the concurrent core and a small share of the repository's lines. Most of its 94
thousand lines are the vendored `rapidjson` and `utility/third_party`, and library code without state shared
between calls: strings, numbers, file paths, logging, formatting, containers and the exposure of
statistics. Their correctness is a matter of inputs and outputs, which the repository's unit tests
reach, and a model of them would be the code over again.
